--------------------------- MODULE Debates_proofs ---------------------------
(***************************************************************************)
(* The discussions of net1337 and the two experiments that compare its     *)
(* wire with English, for every number of agents, of rounds and of topics: *)
(* the inductive invariants behind DebateSound, ComparisonSound and        *)
(* VersusSound.                                                            *)
(***************************************************************************)
EXTENDS Debates, WireComparison, VersusEnglish, Subsequences_proofs,
        FiniteSetTheorems, SequenceTheorems, TLAPS

(***************************************************************************)
(* The comparison of comparison_1337_vs_english.py.                        *)
(***************************************************************************)
Wire == [from : Character, kind : {"COGON", "DELTA", "ACK"}, value : Values]
CmpRecord == [agent : 0 .. Characters, round : 0 .. CmpRounds, delta : BOOLEAN]

CmpTypes ==
  /\ useDeepseek \in BOOLEAN /\ cmpRound \in 0 .. CmpRounds
  /\ cmpPhase \in {"round", "failing", "failed"}
  /\ thread \in [Character -> {"queued", "calling", "over"}]
  /\ roundRecords \in [Character -> CmpRecord]
  /\ prev \in [Character -> Values \cup {Unsaid}]
  /\ wires \in Seq(Wire) /\ seq = Len(wires) /\ records \in Seq(CmpRecord)

\* What a receiver has of a character, and how far it may be from it.
Drifts(c) ==
  prev[c] # Unsaid =>
    /\ Carriers(c) # {} /\ View(c) \in Values
    /\ Distance(View(c), prev[c]) <= Unsent(c) * CmpThreshold

\* In every round that is through a character has sent one message, and its
\* record of this round waits for the end of the round.
InRound(c) ==
  /\ cmpRound <= Cardinality(WiresOf(c))
  /\ cmpPhase = "round" =>
       /\ Cardinality(WiresOf(c)) = IF thread[c] = "over" THEN cmpRound + 1 ELSE cmpRound
       /\ roundRecords[c] =
            IF thread[c] = "over"
            THEN [agent |-> c, round |-> cmpRound,
                  delta |-> FromCharacter(c)[cmpRound + 1].kind = "DELTA"]
            ELSE NoRecord

CmpInv ==
  /\ CmpTypes
  /\ \A c \in Character : Drifts(c) /\ InRound(c)
  /\ \A i \in DOMAIN records : records[i].agent \in Character /\ records[i].round < cmpRound
  /\ RecordsExact /\ ReportsExact

LEMMA CmpPlaces ==
  ASSUME NEW n \in Nat \ {0}, NEW q \in Nat, NEW c \in 1 .. n
  PROVE  /\ q * n \in Nat /\ (q + 1) * n = q * n + n
         /\ ((q * n + c) - 1) % n = c - 1
         /\ ((q * n + c) - 1) \div n = q
OBVIOUS

LEMMA CmpWires ==
  ASSUME wires \in Seq(Wire), NEW e \in Wire, wires' = Append(wires, e), NEW c \in Character
  PROVE  /\ WiresOf(c) \in SUBSET (DOMAIN wires) /\ Cardinality(WiresOf(c)) \in Nat
         /\ Carriers(c) \subseteq WiresOf(c) /\ Unsent(c) \in Nat
         /\ e.from # c => /\ WiresOf(c)' = WiresOf(c) /\ Carriers(c)' = Carriers(c)
                          /\ FromCharacter(c)' = FromCharacter(c)
                          /\ View(c)' = View(c) /\ Unsent(c)' = Unsent(c)
         /\ e.from = c => /\ Cardinality(WiresOf(c)') = Cardinality(WiresOf(c)) + 1
                          /\ FromCharacter(c)' = Append(FromCharacter(c), e)
         /\ e.from = c /\ e.kind # "ACK" =>
              Carriers(c)' # {} /\ View(c)' = e.value /\ Unsent(c)' = 0
         /\ e.from = c /\ e.kind = "ACK" =>
              /\ Carriers(c)' = Carriers(c) /\ View(c)' = View(c)
              /\ Unsent(c)' = Unsent(c) + 1
<1> DEFINE n == Len(wires)
           A == {i \in WiresOf(c) : \A j \in Carriers(c) : j < i}
<1>1. /\ n \in Nat /\ DOMAIN wires = 1 .. n
      /\ DOMAIN wires' = 1 .. n + 1 /\ wires'[n + 1] = e
      /\ \A i \in 1 .. n : wires'[i] = wires[i]
  BY AppendProperties, LenProperties
<1>2. /\ WiresOf(c) \in SUBSET (1 .. n) /\ Carriers(c) \subseteq WiresOf(c)
      /\ A \in SUBSET WiresOf(c) /\ Unsent(c) = Cardinality(A)
  BY <1>1 DEF WiresOf, Carriers, Unsent
<1>3. IsFiniteSet(WiresOf(c)) /\ IsFiniteSet(A)
  <2>1. IsFiniteSet(1 .. n)
    BY <1>1, FS_Interval
  <2>2. WiresOf(c) \in SUBSET (1 .. n) /\ A \in SUBSET (1 .. n)
    BY <1>2
  <2> QED BY <2>1, <2>2, FS_Subset
<1>4. /\ Cardinality(WiresOf(c)) \in Nat /\ Unsent(c) \in Nat
  BY <1>2, <1>3, FS_CardinalityType
<1>5. ASSUME e.from # c
      PROVE  /\ WiresOf(c)' = WiresOf(c) /\ Carriers(c)' = Carriers(c)
             /\ FromCharacter(c)' = FromCharacter(c)
             /\ View(c)' = View(c) /\ Unsent(c)' = Unsent(c)
  <2>1. WiresOf(c)' = WiresOf(c)
    BY <1>1, <1>5 DEF WiresOf
  <2>2. Carriers(c)' = Carriers(c)
    BY <1>1, <1>2, <2>1 DEF Carriers
  <2>3. FromCharacter(c)' = FromCharacter(c)
    <3>1. PICK I : I = WiresOf(c)
      OBVIOUS
    <3>2. I \in SUBSET (DOMAIN wires)
      BY <1>1, <1>2, <3>1
    <3>3. Keeping(Append(wires, e), I) = Keeping(wires, I)
      BY <3>2, KeepingAppend
    <3> QED BY <3>1, <3>3, <2>1 DEF FromCharacter
  <2>4. View(c)' = View(c)
    <3> DEFINE i == CHOOSE k \in Carriers(c) : \A j \in Carriers(c) : j <= k
    <3>1. CASE Carriers(c) = {}
      BY <2>2, <3>1 DEF View
    <3>2. CASE Carriers(c) # {}
      <4>1. \E k \in Carriers(c) : \A j \in Carriers(c) : j <= k
        <5>1. Carriers(c) \in SUBSET (0 .. n)
          BY <1>1, <1>2
        <5> QED BY <5>1, <1>1, <3>2, NatGreatest
      <4>2. i \in 1 .. n
        BY <4>1, <1>2
      <4>3. View(c) = wires[i].value /\ View(c)' = wires'[i].value
        BY <2>2, <3>2 DEF View
      <4> QED BY <4>2, <4>3, <1>1
    <3> QED BY <3>1, <3>2
  <2>5. Unsent(c)' = Unsent(c)
    BY <2>1, <2>2 DEF Unsent
  <2> QED BY <2>1, <2>2, <2>3, <2>4, <2>5
<1>6. ASSUME e.from = c
      PROVE  /\ WiresOf(c)' = WiresOf(c) \cup {n + 1}
             /\ Cardinality(WiresOf(c)') = Cardinality(WiresOf(c)) + 1
             /\ FromCharacter(c)' = Append(FromCharacter(c), e)
  <2>1. WiresOf(c)' = WiresOf(c) \cup {n + 1}
    BY <1>1, <1>6 DEF WiresOf
  <2>2. Cardinality(WiresOf(c)') = Cardinality(WiresOf(c)) + 1
    <3>1. n + 1 \notin WiresOf(c)
      BY <1>1, <1>2
    <3> QED BY <2>1, <3>1, <1>3, FS_AddElement
  <2>3. FromCharacter(c)' = Append(FromCharacter(c), e)
    BY <1>1, <1>2, <2>1, KeepingAppend DEF FromCharacter
  <2> QED BY <2>1, <2>2, <2>3
<1>7. ASSUME e.from = c, e.kind # "ACK"
      PROVE  Carriers(c)' # {} /\ View(c)' = e.value /\ Unsent(c)' = 0
  <2>1. WiresOf(c)' = WiresOf(c) \cup {n + 1}
    BY <1>6, <1>7
  <2>2. Carriers(c)' = Carriers(c) \cup {n + 1}
    BY <2>1, <1>1, <1>2, <1>7 DEF Carriers
  <2>3. (CHOOSE k \in Carriers(c)' : \A j \in Carriers(c)' : j <= k) = n + 1
    BY <2>2, <1>1, <1>2
  <2>4. View(c)' = e.value
    BY <2>2, <2>3, <1>1 DEF View
  <2>5. {i \in WiresOf(c)' : \A j \in Carriers(c)' : j < i} = {}
    BY <2>1, <2>2, <1>1, <1>2
  <2>6. Unsent(c)' = 0
    BY <2>5, FS_EmptySet DEF Unsent
  <2> QED BY <2>2, <2>4, <2>6
<1>8. ASSUME e.from = c, e.kind = "ACK"
      PROVE  /\ Carriers(c)' = Carriers(c) /\ View(c)' = View(c)
             /\ Unsent(c)' = Unsent(c) + 1
  <2>1. WiresOf(c)' = WiresOf(c) \cup {n + 1}
    BY <1>6, <1>8
  <2>2. Carriers(c)' = Carriers(c)
    BY <2>1, <1>1, <1>2, <1>8 DEF Carriers
  <2>4. View(c)' = View(c)
    <3> DEFINE i == CHOOSE k \in Carriers(c) : \A j \in Carriers(c) : j <= k
    <3>1. CASE Carriers(c) = {}
      BY <2>2, <3>1 DEF View
    <3>2. CASE Carriers(c) # {}
      <4>1. \E k \in Carriers(c) : \A j \in Carriers(c) : j <= k
        <5>1. Carriers(c) \in SUBSET (0 .. n)
          BY <1>1, <1>2
        <5> QED BY <5>1, <1>1, <3>2, NatGreatest
      <4>2. i \in 1 .. n
        BY <4>1, <1>2
      <4>3. View(c) = wires[i].value /\ View(c)' = wires'[i].value
        BY <2>2, <3>2 DEF View
      <4> QED BY <4>2, <4>3, <1>1
    <3> QED BY <3>1, <3>2
  <2>5. {i \in WiresOf(c)' : \A j \in Carriers(c)' : j < i} = A \cup {n + 1}
    BY <2>1, <2>2, <1>1, <1>2
  <2>6. n + 1 \notin A
    BY <1>1, <1>2
  <2>7. Unsent(c)' = Unsent(c) + 1
    BY <2>5, <2>6, <1>2, <1>3, FS_AddElement DEF Unsent
  <2> QED BY <2>2, <2>4, <2>7
<1> QED BY <1>1, <1>2, <1>4, <1>5, <1>6, <1>7, <1>8
LEMMA CmpStarts == ComparisonInit => CmpInv
<1> SUFFICES ASSUME ComparisonInit PROVE CmpInv
  OBVIOUS
<1>0. /\ Characters \in Nat \ {0} /\ CmpRounds \in Nat
      /\ Characters * 0 = 0 /\ cmpRound * Characters = 0
  BY ComparisonAssumption DEF ComparisonInit
<1>1. CmpTypes
  BY <1>0, EmptySeq DEF CmpTypes, ComparisonInit, CmpRecord, NoRecord
<1>2. ASSUME NEW c \in Character PROVE Drifts(c) /\ InRound(c)
  <2>1. WiresOf(c) = {} /\ Cardinality(WiresOf(c)) = 0
    BY FS_EmptySet DEF ComparisonInit, WiresOf
  <2> QED BY <1>2, <2>1 DEF ComparisonInit, Drifts, InRound
<1>3. DOMAIN records = {} /\ Len(records) = 0
  BY EmptySeq DEF ComparisonInit
<1>4. RecordsExact
  BY <1>0, <1>3 DEF RecordsExact
<1>5. ReportsExact
  <2>1. ASSUME NEW c \in Character PROVE PerAgent(c) = cmpRound
    BY <1>3, FS_EmptySet DEF PerAgent, ComparisonInit
  <2>2. DeltaMsgs = 0
    BY <1>3, FS_EmptySet DEF DeltaMsgs
  <2>3. 0 .. cmpRound - 1 = {}
    BY DEF ComparisonInit
  <2> QED BY <1>3, <2>1, <2>2, <2>3 DEF ReportsExact
<1> QED BY <1>1, <1>2, <1>3, <1>4, <1>5 DEF CmpInv

LEMMA EncodeFits ==
  ASSUME CmpTypes, NEW c \in Character, NEW v \in Values
  PROVE  /\ Encode(c, v) \in Wire /\ Encode(c, v).from = c
         /\ Encode(c, v).kind # "ACK" => Encode(c, v).value = v
         /\ Encode(c, v).kind = "ACK" =>
              prev[c] \in Values /\ Distance(prev[c], v) <= CmpThreshold
<1>1. prev[c] \in Values \cup {Unsaid} /\ 0 \in Values
  BY ComparisonAssumption DEF CmpTypes, Values
<1>2. /\ [from |-> c, kind |-> "COGON", value |-> v] \in Wire
      /\ [from |-> c, kind |-> "DELTA", value |-> v] \in Wire
      /\ [from |-> c, kind |-> "ACK", value |-> 0] \in Wire
  BY <1>1 DEF Wire
<1>3. prev[c] \in Values => Distance(prev[c], v) \in Nat
  BY ComparisonAssumption DEF Distance, Values
<1> QED BY <1>1, <1>2, <1>3, ComparisonAssumption DEF Encode, SparseDelta

LEMMA CmpProcessed ==
  ASSUME CmpInv, NEW c \in Character, Process(c)
  PROVE  CmpInv'
<1>1. PICK v \in Values :
        /\ wires' = Append(wires, Encode(c, v)) /\ prev' = [prev EXCEPT ![c] = v]
        /\ roundRecords' =
             IF cmpPhase # "round" THEN roundRecords
             ELSE [roundRecords EXCEPT ![c] =
                     [agent |-> c, round |-> cmpRound, delta |-> Encode(c, v).kind = "DELTA"]]
  BY DEF Process, PlaceOf
<1>2. /\ thread[c] = "calling" /\ seq' = seq + 1 /\ thread' = [thread EXCEPT ![c] = "over"]
      /\ useDeepseek' = useDeepseek /\ cmpRound' = cmpRound /\ cmpPhase' = cmpPhase
      /\ records' = records
  BY DEF Process
<1>3. CmpTypes /\ \A d \in Character : Drifts(d) /\ InRound(d)
  BY DEF CmpInv
<1>4. PICK e : e = Encode(c, v)
  OBVIOUS
<1>5. /\ e \in Wire /\ e.from = c /\ (e.kind # "ACK" => e.value = v)
      /\ e.kind = "ACK" => prev[c] \in Values /\ Distance(prev[c], v) <= CmpThreshold
  BY <1>3, <1>4, EncodeFits
<1>6. wires \in Seq(Wire) /\ wires' = Append(wires, e)
  BY <1>1, <1>3, <1>4 DEF CmpTypes
<1>7. CmpTypes'
  <2>1. wires' \in Seq(Wire) /\ Len(wires') = Len(wires) + 1
    BY <1>5, <1>6, AppendProperties
  <2>2. roundRecords' \in [Character -> CmpRecord]
    BY <1>1, <1>3, <1>4 DEF CmpTypes, CmpRecord, Character
  <2>3. prev' \in [Character -> Values \cup {Unsaid}]
    BY <1>1, <1>3 DEF CmpTypes
  <2> QED BY <1>2, <1>3, <2>1, <2>2, <2>3 DEF CmpTypes
<1>8. ASSUME NEW d \in Character PROVE Drifts(d)'
  <2>1. CASE d # c
    <3>1. View(d)' = View(d) /\ Unsent(d)' = Unsent(d) /\ Carriers(d)' = Carriers(d)
      BY <1>5, <1>6, <2>1, CmpWires
    <3>2. prev'[d] = prev[d]
      BY <1>1, <1>3, <2>1 DEF CmpTypes
    <3> QED BY <1>3, <3>1, <3>2 DEF Drifts
  <2>2. CASE d = c /\ e.kind # "ACK"
    <3>1. View(d)' = v /\ Unsent(d)' = 0 /\ Carriers(d)' # {}
      BY <1>5, <1>6, <2>2, CmpWires
    <3>2. prev'[d] = v
      BY <1>1, <1>3, <2>2 DEF CmpTypes
    <3>3. Distance(v, v) <= 0 * CmpThreshold
      BY ComparisonAssumption DEF Distance, Values
    <3> QED BY <3>1, <3>2, <3>3 DEF Drifts
  <2>3. CASE d = c /\ e.kind = "ACK"
    <3>1. /\ View(d)' = View(d) /\ Unsent(d)' = Unsent(d) + 1 /\ Carriers(d)' = Carriers(d)
          /\ Unsent(d) \in Nat
      BY <1>5, <1>6, <2>3, CmpWires
    <3>2. prev'[d] = v
      BY <1>1, <1>3, <2>3 DEF CmpTypes
    <3>3. /\ prev[d] \in Values /\ prev[d] # Unsaid /\ Distance(prev[d], v) <= CmpThreshold
      BY <1>5, <2>3 DEF Values, Unsaid
    <3>4. /\ Carriers(d) # {} /\ View(d) \in Values
          /\ Distance(View(d), prev[d]) <= Unsent(d) * CmpThreshold
      BY <1>3, <3>3 DEF Drifts
    <3>5. (Unsent(d) + 1) * CmpThreshold = Unsent(d) * CmpThreshold + CmpThreshold
      BY <3>1, ComparisonAssumption
    <3>6. Distance(View(d), v) <= Distance(View(d), prev[d]) + Distance(prev[d], v)
      BY <3>3, <3>4, ComparisonAssumption DEF Distance, Values
    <3>7. PICK m \in Nat : m = Unsent(d) * CmpThreshold
      BY <3>1, ComparisonAssumption
    <3>8. Distance(View(d), v) <= (Unsent(d) + 1) * CmpThreshold
      <4>1. /\ Distance(View(d), v) \in Int /\ Distance(View(d), prev[d]) \in Int
            /\ Distance(prev[d], v) \in Int
        BY <3>3, <3>4 DEF Distance, Values
      <4>2. Distance(View(d), prev[d]) <= m /\ (Unsent(d) + 1) * CmpThreshold = m + CmpThreshold
        BY <3>4, <3>5, <3>7
      <4> QED BY <4>1, <4>2, <3>3, <3>6, ComparisonAssumption
    <3> QED BY <3>1, <3>2, <3>4, <3>8 DEF Drifts
  <2> QED BY <2>1, <2>2, <2>3
<1>9. ASSUME NEW d \in Character
      PROVE  /\ InRound(d)'
             /\ \A k \in 1 .. cmpRound : FromCharacter(d)'[k] = FromCharacter(d)[k]
  <2>1. /\ WiresOf(d) \in SUBSET (DOMAIN wires) /\ Cardinality(WiresOf(d)) \in Nat
        /\ cmpRound \in Nat /\ cmpRound <= Cardinality(WiresOf(d))
    BY <1>3, <1>5, <1>6, CmpWires, ComparisonAssumption DEF CmpTypes, InRound
  <2>2. /\ FromCharacter(d) \in Seq(Wire) /\ Len(FromCharacter(d)) = Cardinality(WiresOf(d))
    <3>1. PICK I : I = WiresOf(d)
      OBVIOUS
    <3>2. I \in SUBSET (DOMAIN wires) /\ \A i \in I : wires[i] \in Wire
      BY <1>6, <2>1, <3>1, ElementOfSeq, LenProperties
    <3>3. Keeping(wires, I) \in Seq(Wire) /\ Len(Keeping(wires, I)) = Cardinality(I)
      BY <1>6, <3>2, KeepingIs
    <3> QED BY <3>1, <3>3 DEF FromCharacter
  <2>3. CASE d # c
    <3>1. FromCharacter(d)' = FromCharacter(d) /\ WiresOf(d)' = WiresOf(d)
      BY <1>5, <1>6, <2>3, CmpWires
    <3>2. thread'[d] = thread[d] /\ roundRecords'[d] = roundRecords[d]
      BY <1>1, <1>2, <1>3, <2>3 DEF CmpTypes
    <3> QED BY <1>2, <1>3, <3>1, <3>2 DEF InRound
  <2>4. CASE d = c
    <3>1. /\ FromCharacter(d)' = Append(FromCharacter(d), e)
          /\ Cardinality(WiresOf(d)') = Cardinality(WiresOf(d)) + 1
      BY <1>5, <1>6, <2>4, CmpWires
    <3>2. /\ \A k \in 1 .. Cardinality(WiresOf(d)) : FromCharacter(d)'[k] = FromCharacter(d)[k]
          /\ FromCharacter(d)'[Cardinality(WiresOf(d)) + 1] = e
      BY <2>2, <3>1, <1>5, AppendProperties
    <3>3. thread'[d] = "over"
      BY <1>2, <1>3, <2>4 DEF CmpTypes
    <3>4. CASE cmpPhase = "round"
      <4>1. Cardinality(WiresOf(d)) = cmpRound
        BY <1>2, <1>3, <2>4, <3>4 DEF InRound
      <4>2. roundRecords'[d] = [agent |-> d, round |-> cmpRound, delta |-> e.kind = "DELTA"]
        BY <1>1, <1>3, <1>4, <2>4, <3>4 DEF CmpTypes
      <4>3. Cardinality(WiresOf(d)') = cmpRound + 1 /\ cmpRound <= cmpRound + 1
        BY <2>1, <3>1, <4>1
      <4>4. FromCharacter(d)'[cmpRound + 1] = e
        BY <3>2, <4>1
      <4>5. \A k \in 1 .. cmpRound : FromCharacter(d)'[k] = FromCharacter(d)[k]
        BY <3>2, <4>1
      <4>6. InRound(d)'
        BY <1>2, <3>3, <4>2, <4>3, <4>4 DEF InRound
      <4> QED BY <4>5, <4>6
    <3>5. CASE cmpPhase # "round"
      <4>1. cmpRound <= Cardinality(WiresOf(d)')
        BY <2>1, <3>1
      <4>2. \A k \in 1 .. cmpRound : k \in 1 .. Cardinality(WiresOf(d))
        BY <2>1
      <4>3. InRound(d)'
        BY <1>2, <3>5, <4>1 DEF InRound
      <4> QED BY <3>2, <4>2, <4>3
    <3> QED BY <3>4, <3>5
  <2> QED BY <2>3, <2>4
<1>10. RecordsExact'
  <2>1. ASSUME NEW i \in DOMAIN records
        PROVE  FromCharacter(records[i].agent)'[records[i].round + 1].kind =
                 FromCharacter(records[i].agent)[records[i].round + 1].kind
    <3>1. /\ records[i].agent \in Character /\ records[i].round < cmpRound
          /\ records[i].round \in Nat /\ cmpRound \in Nat
      <4>1. records[i] \in CmpRecord /\ cmpRound \in Nat
        BY <1>3, ElementOfSeq, LenProperties, ComparisonAssumption DEF CmpTypes
      <4> QED BY <4>1, ComparisonAssumption DEF CmpInv, CmpRecord
    <3>2. PICK a \in Character : a = records[i].agent
      BY <3>1
    <3>3. FromCharacter(a)'[records[i].round + 1] = FromCharacter(a)[records[i].round + 1]
      BY <1>9, <3>1
    <3> QED BY <1>2, <3>2, <3>3
  <2> QED BY <1>2, <2>1 DEF CmpInv, RecordsExact
<1>11. ReportsExact'
  BY <1>2 DEF CmpInv, ReportsExact, PerAgent, PerRound, DeltaMsgs
<1>12. \A i \in DOMAIN records' : records'[i].agent \in Character /\ records'[i].round < cmpRound'
  BY <1>2 DEF CmpInv
<1> QED BY <1>7, <1>8, <1>9, <1>10, <1>11, <1>12 DEF CmpInv

LEMMA CmpWaits ==
  ASSUME CmpInv, NEW c \in Character, StartCall(c) \/ CallFails(c) \/ PoolDrained
  PROVE  CmpInv'
<1>1. /\ UNCHANGED <<useDeepseek, cmpRound, roundRecords, prev, seq, wires, records>>
      /\ \/ thread[c] # "over" /\ thread' = [thread EXCEPT ![c] = "calling"] /\ cmpPhase' = cmpPhase
         \/ thread' \in {thread, [thread EXCEPT ![c] = "over"]} /\ cmpPhase' \in {"failing", "failed"}
  BY DEF StartCall, CallFails, PoolDrained
<1>2. CmpTypes /\ \A d \in Character : Drifts(d) /\ InRound(d)
  BY DEF CmpInv
<1>3. CmpTypes'
  BY <1>1, <1>2 DEF CmpTypes
<1>4. ASSUME NEW d \in Character PROVE Drifts(d)' /\ InRound(d)'
  <2>1. /\ WiresOf(d)' = WiresOf(d) /\ FromCharacter(d)' = FromCharacter(d)
        /\ View(d)' = View(d) /\ Unsent(d)' = Unsent(d) /\ Carriers(d)' = Carriers(d)
    BY <1>1 DEF WiresOf, FromCharacter, View, Unsent, Carriers
  <2>2. Drifts(d)'
    BY <1>1, <1>2, <2>1 DEF Drifts
  <2>3. cmpPhase' = "round" => cmpPhase = "round" /\ (thread'[d] = "over" <=> thread[d] = "over")
    BY <1>1, <1>2 DEF CmpTypes
  <2> QED BY <1>1, <1>2, <2>1, <2>2, <2>3 DEF InRound
<1>5. RecordsExact' /\ ReportsExact'
  <2>1. \A d : FromCharacter(d)' = FromCharacter(d)
    BY <1>1 DEF WiresOf, FromCharacter
  <2>2. RecordsExact'
    BY <1>1, <2>1 DEF CmpInv, RecordsExact
  <2> QED BY <1>1, <2>2 DEF CmpInv, ReportsExact, PerAgent, PerRound, DeltaMsgs
<1>6. \A i \in DOMAIN records' : records'[i].agent \in Character /\ records'[i].round < cmpRound'
  BY <1>1 DEF CmpInv
<1> QED BY <1>3, <1>4, <1>5, <1>6 DEF CmpInv

LEMMA CmpRounded ==
  ASSUME CmpInv, EndRound
  PROVE  CmpInv'
<1>1. /\ cmpPhase = "round" /\ (\A d \in Character : thread[d] = "over") /\ cmpRound < CmpRounds
      /\ records' = records \o roundRecords
      /\ roundRecords' = [d \in Character |-> NoRecord]
      /\ thread' = [d \in Character |-> "queued"] /\ cmpRound' = cmpRound + 1
      /\ UNCHANGED <<useDeepseek, cmpPhase, prev, seq, wires>>
  BY DEF EndRound, AllOver
<1>2. /\ CmpTypes /\ RecordsExact /\ ReportsExact
      /\ \A d \in Character : Drifts(d) /\ InRound(d)
      /\ \A i \in DOMAIN records : records[i].agent \in Character /\ records[i].round < cmpRound
  BY DEF CmpInv
<1>0. /\ Characters \in Nat \ {0} /\ CmpRounds \in Nat /\ cmpRound \in Nat
      /\ cmpRound + 1 \in 0 .. CmpRounds /\ cmpRound * Characters \in Nat
      /\ (cmpRound + 1) * Characters = cmpRound * Characters + Characters
  <2>1. /\ Characters \in Nat \ {0} /\ CmpRounds \in Nat /\ cmpRound \in Nat
        /\ cmpRound + 1 \in 0 .. CmpRounds /\ 1 \in 1 .. Characters
    BY <1>1, <1>2, ComparisonAssumption DEF CmpTypes
  <2> QED BY <2>1, CmpPlaces
<1> PICK n \in Nat : n = cmpRound * Characters
  BY <1>0
<1>3. /\ Characters \in Nat \ {0} /\ CmpRounds \in Nat /\ cmpRound \in Nat
      /\ cmpRound + 1 \in 0 .. CmpRounds
      /\ n \in Nat /\ (cmpRound + 1) * Characters = n + Characters
  BY <1>0
<1>4. /\ roundRecords \in Seq(CmpRecord) /\ Len(roundRecords) = Characters
  <2>1. roundRecords \in [1 .. Characters -> CmpRecord]
    BY <1>2 DEF CmpTypes, Character
  <2>2. roundRecords \in Seq(CmpRecord) /\ DOMAIN roundRecords = 1 .. Characters
    BY <2>1, <1>3
  <2> QED BY <2>2, <1>3, LenProperties
<1>5. /\ records \in Seq(CmpRecord) /\ Len(records) = n /\ DOMAIN records = 1 .. n
  BY <1>2, LenProperties DEF CmpTypes, RecordsExact
<1>6. /\ records' \in Seq(CmpRecord) /\ Len(records') = n + Characters
      /\ DOMAIN records' = 1 .. n + Characters
      /\ \A i \in 1 .. n + Characters :
           records'[i] = IF i <= n THEN records[i] ELSE roundRecords[i - n]
  <2>1. /\ records' \in Seq(CmpRecord) /\ Len(records') = Len(records) + Len(roundRecords)
        /\ \A i \in 1 .. Len(records) + Len(roundRecords) :
             records'[i] = IF i <= Len(records) THEN records[i] ELSE roundRecords[i - Len(records)]
    BY <1>1, <1>4, <1>5, ConcatProperties
  <2>2. DOMAIN records' = 1 .. Len(records')
    BY <2>1, LenProperties
  <2> QED BY <2>1, <2>2, <1>4, <1>5
<1>7. ASSUME NEW i \in n + 1 .. n + Characters
      PROVE  /\ i \in 1 .. n + Characters /\ i \notin 1 .. n /\ i - n \in Character
             /\ records'[i].agent = i - n /\ records'[i].round = cmpRound
             /\ records'[i].delta <=> FromCharacter(i - n)[cmpRound + 1].kind = "DELTA"
  <2>1. i \in 1 .. n + Characters /\ ~ i <= n /\ i - n \in Character
    BY <1>3 DEF Character
  <2>2. PICK d \in Character : d = i - n
    BY <2>1
  <2>3. records'[i] = roundRecords[d]
    BY <2>1, <2>2, <1>6
  <2>4. roundRecords[d] = [agent |-> d, round |-> cmpRound,
                           delta |-> FromCharacter(d)[cmpRound + 1].kind = "DELTA"]
    BY <1>1, <1>2 DEF InRound
  <2>5. /\ records'[i].agent = d /\ records'[i].round = cmpRound
        /\ records'[i].delta <=> FromCharacter(d)[cmpRound + 1].kind = "DELTA"
    <3>1. PICK b \in BOOLEAN : b <=> FromCharacter(d)[cmpRound + 1].kind = "DELTA"
      OBVIOUS
    <3>2. b = (FromCharacter(d)[cmpRound + 1].kind = "DELTA")
      BY <3>1
    <3>3. records'[i] = [agent |-> d, round |-> cmpRound, delta |-> b]
      BY <2>3, <2>4, <3>2, Zenon
    <3>4. records'[i].agent = d /\ records'[i].round = cmpRound /\ records'[i].delta = b
      BY <3>3
    <3> QED BY <3>1, <3>4
  <2> QED BY <2>1, <2>2, <2>5
<1>8. /\ \A i \in 1 .. n + Characters : i \in 1 .. n \/ i \in n + 1 .. n + Characters
      /\ \A i \in 1 .. n : /\ i \in 1 .. n + Characters /\ records'[i] = records[i]
                          /\ records[i].round < cmpRound /\ records[i].round \in Nat
                          /\ records[i].agent \in Character
  <2>1. ASSUME NEW i \in 1 .. n PROVE records[i] \in CmpRecord
    BY <1>5, ElementOfSeq
  <2>2. ASSUME NEW i \in 1 .. n PROVE records[i].round \in Nat
    BY <2>1, <1>3 DEF CmpRecord
  <2> QED BY <2>2, <1>2, <1>3, <1>5, <1>6
<1>9. CmpTypes'
  BY <1>1, <1>2, <1>3, <1>6 DEF CmpTypes, CmpRecord, NoRecord
<1>10. \A d : FromCharacter(d)' = FromCharacter(d) /\ WiresOf(d)' = WiresOf(d)
  BY <1>1 DEF WiresOf, FromCharacter
<1>11. ASSUME NEW d \in Character PROVE Drifts(d)' /\ InRound(d)'
  <2>1. View(d)' = View(d) /\ Unsent(d)' = Unsent(d) /\ Carriers(d)' = Carriers(d)
    BY <1>1 DEF WiresOf, View, Unsent, Carriers
  <2>2. Drifts(d)'
    BY <1>1, <1>2, <2>1 DEF Drifts
  <2>3. Cardinality(WiresOf(d)) = cmpRound + 1
    BY <1>1, <1>2 DEF InRound
  <2>4. InRound(d)'
    BY <1>1, <1>3, <1>10, <2>3 DEF InRound
  <2> QED BY <2>2, <2>4
<1>12. \A i \in DOMAIN records' : records'[i].agent \in Character /\ records'[i].round < cmpRound'
  <2> SUFFICES ASSUME NEW i \in 1 .. n + Characters
               PROVE  records'[i].agent \in Character /\ records'[i].round < cmpRound + 1
    BY <1>1, <1>6
  <2>1. CASE i \in 1 .. n
    BY <2>1, <1>3, <1>8
  <2>2. CASE i \in n + 1 .. n + Characters
    BY <2>2, <1>3, <1>7
  <2> QED BY <2>1, <2>2, <1>8
<1>13. RecordsExact'
  <2>1. ASSUME NEW i \in 1 .. n + Characters
        PROVE  /\ records'[i].agent = ((i - 1) % Characters) + 1
               /\ records'[i].round = (i - 1) \div Characters
               /\ records'[i].delta <=>
                    FromCharacter(records'[i].agent)[records'[i].round + 1].kind = "DELTA"
    <3>1. CASE i \in 1 .. n
      BY <3>1, <1>2, <1>5, <1>8 DEF RecordsExact
    <3>2. CASE i \in n + 1 .. n + Characters
      <4>1. PICK d \in 1 .. Characters : d = i - n
        BY <3>2, <1>7 DEF Character
      <4>2. i = cmpRound * Characters + d
        BY <4>1, <3>2, <1>3
      <4>3. (i - 1) % Characters = d - 1 /\ (i - 1) \div Characters = cmpRound
        BY <4>2, <1>3, CmpPlaces
      <4>4. (d - 1) + 1 = d
        BY <1>3
      <4> QED BY <4>1, <4>3, <4>4, <3>2, <1>7
    <3> QED BY <3>1, <3>2, <1>8
  <2>2. Len(records') = cmpRound' * Characters
    BY <1>1, <1>3, <1>6
  <2> QED BY <2>1, <2>2, <1>6, <1>10 DEF RecordsExact
<1>14. ASSUME NEW d \in Character PROVE PerAgent(d)' = cmpRound'
  <2>1. PICK I : I = {i \in 1 .. n : records[i].agent = d}
    OBVIOUS
  <2>2. n + d \in n + 1 .. n + Characters
    BY <1>3 DEF Character
  <2>3. {i \in DOMAIN records' : records'[i].agent = d} = I \cup {n + d}
    <3>1. ASSUME NEW i \in 1 .. n + Characters
          PROVE  records'[i].agent = d <=> i \in I \/ i = n + d
      <4>1. CASE i \in 1 .. n
        BY <4>1, <2>1, <1>3, <1>8 DEF Character
      <4>2. CASE i \in n + 1 .. n + Characters
        <5>1. i - n = d <=> i = n + d
          BY <4>2, <1>3 DEF Character
        <5> QED BY <5>1, <4>2, <2>1, <1>7
      <4> QED BY <4>1, <4>2, <1>8
    <3> QED BY <3>1, <2>1, <2>2, <1>6, <1>7, <1>8
  <2>4. IsFiniteSet(I) /\ n + d \notin I
    <3>1. IsFiniteSet(1 .. n) /\ I \in SUBSET (1 .. n)
      BY <2>1, FS_Interval
    <3>2. IsFiniteSet(I)
      BY <3>1, FS_Subset
    <3> QED BY <3>1, <3>2, <2>2, <1>7
  <2>5. Cardinality(I) = cmpRound
    BY <2>1, <1>2, <1>5 DEF ReportsExact, PerAgent
  <2>6. Cardinality(I \cup {n + d}) = cmpRound + 1
    BY <2>4, <2>5, FS_AddElement
  <2> QED BY <2>3, <2>6, <1>1 DEF PerAgent
<1>15. ASSUME NEW m \in 0 .. cmpRound' - 1 PROVE PerRound(m)' = Characters
  <2>1. CASE m < cmpRound
    <3>1. ASSUME NEW i \in 1 .. n + Characters
          PROVE  records'[i].round = m <=> i \in 1 .. n /\ records[i].round = m
      <4>1. CASE i \in 1 .. n
        BY <4>1, <1>8
      <4>2. CASE i \in n + 1 .. n + Characters
        BY <4>2, <1>3, <1>7, <2>1
      <4> QED BY <4>1, <4>2, <1>8
    <3>2. {i \in DOMAIN records' : records'[i].round = m} = {i \in DOMAIN records : records[i].round = m}
      BY <3>1, <1>5, <1>6, <1>8
    <3>3. m \in 0 .. cmpRound - 1
      BY <1>1, <1>3, <2>1
    <3> QED BY <3>2, <3>3, <1>2 DEF PerRound, ReportsExact
  <2>2. CASE m = cmpRound
    <3>1. ASSUME NEW i \in 1 .. n + Characters
          PROVE  records'[i].round = m <=> i \in n + 1 .. n + Characters
      <4>1. CASE i \in 1 .. n
        <5>1. records'[i].round # m /\ i \notin n + 1 .. n + Characters
          BY <4>1, <1>3, <1>7, <1>8, <2>2
        <5> QED BY <5>1
      <4>2. CASE i \in n + 1 .. n + Characters
        BY <4>2, <1>7, <2>2
      <4> QED BY <4>1, <4>2, <1>8
    <3>2. {i \in DOMAIN records' : records'[i].round = m} = n + 1 .. n + Characters
      BY <3>1, <1>6, <1>7
    <3>3. Cardinality(n + 1 .. n + Characters) = Characters
      <4>1. /\ n + 1 \in Int /\ n + Characters \in Int /\ ~ n + 1 > n + Characters
            /\ (n + Characters) - (n + 1) + 1 = Characters
        BY <1>3
      <4> QED BY <4>1, FS_Interval
    <3> QED BY <3>2, <3>3 DEF PerRound
  <2> QED BY <1>1, <1>3, <2>1, <2>2
<1>16. DeltaMsgs' <= Len(records')
  <2>1. PICK I : I = {i \in DOMAIN records' : records'[i].delta}
    OBVIOUS
  <2>2. I \in SUBSET (1 .. n + Characters)
    BY <2>1, <1>6
  <2>3. IsFiniteSet(1 .. n + Characters) /\ Cardinality(1 .. n + Characters) = n + Characters
    <3>1. /\ 1 \in Int /\ n + Characters \in Int /\ ~ 1 > n + Characters
          /\ (n + Characters) - 1 + 1 = n + Characters
      BY <1>3
    <3> QED BY <3>1, FS_Interval
  <2>4. Cardinality(I) <= n + Characters
    <3>1. Cardinality(I) <= Cardinality(1 .. n + Characters)
      BY <2>2, <2>3, FS_Subset
    <3> QED BY <2>3, <3>1
  <2> QED BY <2>1, <2>4, <1>6 DEF DeltaMsgs
<1>17. ReportsExact'
  BY <1>14, <1>15, <1>16 DEF ReportsExact
<1> QED BY <1>9, <1>11, <1>12, <1>13, <1>17 DEF CmpInv

LEMMA CmpInductive ==
  ASSUME CmpInv, [ComparisonNext]_cmpVars
  PROVE  CmpInv'
<1>1. CASE UNCHANGED cmpVars
  <2>1. /\ \A d : /\ WiresOf(d)' = WiresOf(d) /\ FromCharacter(d)' = FromCharacter(d)
                   /\ View(d)' = View(d) /\ Unsent(d)' = Unsent(d) /\ Carriers(d)' = Carriers(d)
                   /\ PerAgent(d)' = PerAgent(d) /\ PerRound(d)' = PerRound(d)
        /\ DeltaMsgs' = DeltaMsgs
    BY <1>1 DEF cmpVars, View, Unsent, Carriers, FromCharacter, WiresOf, PerAgent, PerRound, DeltaMsgs
  <2>2. CmpTypes' /\ \A d \in Character : Drifts(d)' /\ InRound(d)'
    BY <1>1, <2>1 DEF CmpInv, cmpVars, CmpTypes, Drifts, InRound
  <2>3. RecordsExact' /\ ReportsExact'
    BY <1>1, <2>1 DEF CmpInv, cmpVars, RecordsExact, ReportsExact
  <2>4. \A i \in DOMAIN records' : records'[i].agent \in Character /\ records'[i].round < cmpRound'
    BY <1>1 DEF CmpInv, cmpVars
  <2> QED BY <2>2, <2>3, <2>4 DEF CmpInv
<1>2. ASSUME NEW c \in Character, StartCall(c) \/ Process(c) \/ CallFails(c) PROVE CmpInv'
  BY <1>2, CmpWaits, CmpProcessed
<1>3. CASE PoolDrained
  <2>1. 1 \in Character
    BY ComparisonAssumption DEF Character
  <2> QED BY <1>3, <2>1, CmpWaits
<1>4. CASE EndRound
  BY <1>4, CmpRounded
<1> QED BY <1>1, <1>2, <1>3, <1>4 DEF ComparisonNext

LEMMA CmpInvSafe == CmpInv => ComparisonTypeOK /\ ComparisonSound
<1> SUFFICES ASSUME CmpInv PROVE ComparisonTypeOK /\ ComparisonSound
  OBVIOUS
<1>1. ComparisonTypeOK
  BY DEF CmpInv, CmpTypes, CmpRecord, ComparisonTypeOK
<1>2. ComparisonSound
  BY DEF CmpInv, Drifts, ComparisonSound, DriftBounded
<1> QED BY <1>1, <1>2

-----------------------------------------------------------------------------
(***************************************************************************)
(* The debate of consciencia_vs_english.py.                                *)
(***************************************************************************)
VsTurn ==
  [agent : Speaker, round : 1 .. VsRounds, intent : {"ASSERT", "DELTA"}, says : Nat,
   hears : Nat, summary : Nat]

Provoked(t) == t.agent = 1 /\ t.round \in Provocations

\* The n-th turn of a phase has its place in the rounds, and answers the turn
\* before unless it answers the moderator.
TurnFits(s, n, u) ==
  /\ n = (s[n].round - 1) * Speakers + s[n].agent
  /\ s[n].says \in 2 .. u /\ \A k \in 1 .. n - 1 : s[k].says < s[n].says
  /\ IF Provoked(s[n])
     THEN s[n].hears # Stimulus /\ \A k \in 1 .. n - 1 : s[k].says # s[n].hears
     ELSE s[n].hears = IF n = 1 THEN Stimulus ELSE s[n - 1].says

Phase(s, u) == \A n \in DOMAIN s : TurnFits(s, n, u)

LastSaid(s) == IF s = <<>> THEN Stimulus ELSE s[Len(s)].says

\* What the next to speak will hear.
Upcoming(s) ==
  /\ Len(s) = (vsRound - 1) * Speakers + (IF vsTurn = 0 THEN 0 ELSE vsTurn - 1)
  /\ vsTurn # 0 => vsRound <= VsRounds
  /\ vsTurn = 0 => prevTexts[Speakers] = LastSaid(s)
  /\ vsTurn = 1 =>
       IF vsRound \in Provocations
       THEN /\ prevTexts[Speakers] # Stimulus
            /\ \A k \in DOMAIN s : s[k].says # prevTexts[Speakers]
       ELSE prevTexts[Speakers] = LastSaid(s)
  /\ vsTurn > 1 => s # <<>> /\ prevTexts[vsTurn - 1] = LastSaid(s)

VsTypes ==
  /\ mode \in Modes \cup {"done", "raised"}
  /\ vsRound \in 1 .. VsRounds + 1 /\ vsTurn \in 0 .. Speakers /\ utterances \in Nat \ {0}
  /\ prevTexts \in [Speaker -> 1 .. utterances] /\ prevCogons \in [Speaker -> 1 .. utterances]
  /\ vsHistory \in [Modes -> [Speaker -> Seq(1 .. utterances)]]
  /\ turns \in [Modes -> Seq(VsTurn)]

\* An agent holds less than its turns against it.
Held(a) ==
  IF vsHistory["1337"][a] = <<>> THEN DeltaTurns(a) = {}
  ELSE Influenced(a) < Len(vsHistory["1337"][a])

VsInv ==
  /\ VsTypes
  /\ \A m \in Modes : Phase(turns[m], utterances)
  /\ Len(turns["english"]) <= Len(turns["1337"])
  /\ mode \in Modes => Upcoming(turns[mode])
  /\ mode = "1337" => prevCogons = prevTexts /\ turns["english"] = <<>>
  /\ mode = "english" => Len(turns["1337"]) = VsRounds * Speakers
  /\ SummaryOfText
  /\ \A a \in Speaker : Held(a)

LEMMA VsPlaces ==
  ASSUME NEW r \in Nat \ {0}, NEW q \in Nat \ {0}, NEW a \in Speaker, NEW b \in Speaker,
         (r - 1) * Speakers + a = (q - 1) * Speakers + b
  PROVE  r = q /\ a = b
<1>1. /\ r - 1 \in Nat /\ q - 1 \in Nat /\ Speakers \in Nat \ {0}
      /\ a \in 1 .. Speakers /\ b \in 1 .. Speakers
  BY VersusAssumption DEF Speaker
<1>2. /\ (((r - 1) * Speakers + a) - 1) % Speakers = a - 1
      /\ (((r - 1) * Speakers + a) - 1) \div Speakers = r - 1
  BY <1>1, CmpPlaces
<1>3. /\ (((q - 1) * Speakers + b) - 1) % Speakers = b - 1
      /\ (((q - 1) * Speakers + b) - 1) \div Speakers = q - 1
  BY <1>1, CmpPlaces
<1> QED BY <1>1, <1>2, <1>3

LEMMA VsBefore ==
  ASSUME NEW r \in 1 .. VsRounds, NEW a \in Speaker
  PROVE  /\ (r - 1) * Speakers \in Nat /\ (r - 1) * Speakers + a <= VsRounds * Speakers
         /\ (r - 1) * Speakers + Speakers = r * Speakers
         /\ (r - 1) * Speakers + a = 1 <=> r = 1 /\ a = 1
<1>1. /\ Speakers \in Nat \ {0} /\ VsRounds \in Nat /\ a \in 1 .. Speakers
      /\ r - 1 \in Nat /\ VsRounds - r \in Nat /\ (r - 1) + 1 = r
  BY VersusAssumption DEF Speaker
<1>2. PICK x \in Nat : x = r - 1
  BY <1>1
<1>3. PICK d \in Nat : d = VsRounds - r
  BY <1>1
<1>4. /\ x * Speakers \in Nat /\ (x + 1) * Speakers = x * Speakers + Speakers
  BY <1>1, <1>2, CmpPlaces
<1>5. d * Speakers \in Nat
  BY <1>1, <1>3, CmpPlaces
<1>6. VsRounds * Speakers = (x + 1) * Speakers + d * Speakers
  <2>1. VsRounds = (x + 1) + d
    BY <1>1, <1>2, <1>3
  <2> QED BY <2>1, <1>1
<1>7. x * Speakers + a <= VsRounds * Speakers
  <2>1. PICK y \in Nat : y = x * Speakers
    BY <1>4
  <2>2. PICK z \in Nat : z = d * Speakers
    BY <1>5
  <2>3. VsRounds * Speakers = y + Speakers + z
    BY <1>4, <1>6, <2>1, <2>2
  <2> QED BY <2>1, <2>3, <1>1
<1>8. x * Speakers + a = 1 <=> x = 0 /\ a = 1
  <2>1. x # 0 => x * Speakers >= 1
    BY <1>1
  <2>2. x = 0 => x * Speakers = 0
    BY <1>1
  <2>3. PICK y \in Nat : y = x * Speakers
    BY <1>4
  <2> QED BY <1>1, <2>1, <2>2, <2>3
<1> QED BY <1>1, <1>2, <1>4, <1>7, <1>8

\* The turn e in which w is said comes after the turns s.
NextSaid(s, u, w, e) ==
  /\ s \in Seq(VsTurn) /\ u \in Nat /\ w \in Nat /\ e \in VsTurn /\ Phase(s, u)
  /\ u < w /\ 1 < w /\ e.says = w /\ Len(s) + 1 = (e.round - 1) * Speakers + e.agent
  /\ IF Provoked(e) THEN e.hears # Stimulus /\ \A k \in DOMAIN s : s[k].says # e.hears
                    ELSE e.hears = LastSaid(s)

LEMMA PhaseGrows ==
  ASSUME NEW s, NEW u, NEW w, NEW e, NextSaid(s, u, w, e)
  PROVE  /\ Phase(Append(s, e), w) /\ Append(s, e) \in Seq(VsTurn)
         /\ Len(Append(s, e)) = Len(s) + 1 /\ LastSaid(Append(s, e)) = w
         /\ Append(s, e) # <<>>
<1> /\ s \in Seq(VsTurn) /\ u \in Nat /\ w \in Nat /\ e \in VsTurn /\ Phase(s, u)
    /\ u < w /\ 1 < w /\ e.says = w /\ Len(s) + 1 = (e.round - 1) * Speakers + e.agent
    /\ IF Provoked(e) THEN e.hears # Stimulus /\ \A k \in DOMAIN s : s[k].says # e.hears
                      ELSE e.hears = LastSaid(s)
  BY DEF NextSaid
<1>1. PICK z : z = Append(s, e)
  OBVIOUS
<1>2. /\ z \in Seq(VsTurn) /\ Len(z) = Len(s) + 1 /\ Len(s) \in Nat
      /\ DOMAIN z = 1 .. Len(s) + 1 /\ DOMAIN s = 1 .. Len(s)
      /\ z[Len(s) + 1] = e /\ \A i \in 1 .. Len(s) : z[i] = s[i]
  BY <1>1, AppendProperties, LenProperties
<1>3. z # <<>>
  BY <1>2, EmptySeq
<1>4. \A i \in 1 .. Len(s) : s[i].says \in 2 .. u
  BY <1>2 DEF Phase, TurnFits
<1>5. ASSUME NEW n \in 1 .. Len(s) PROVE TurnFits(z, n, w)
  <2>1. TurnFits(s, n, u)
    BY <1>2 DEF Phase
  <2>2. /\ z[n] = s[n] /\ \A k \in 1 .. n - 1 : z[k] = s[k]
        /\ n # 1 => z[n - 1] = s[n - 1]
    BY <1>2
  <2>3. s[n].says \in 2 .. w
    BY <1>4
  <2> QED BY <2>1, <2>2, <2>3 DEF TurnFits
<1>6. ASSUME NEW n, n = Len(s) + 1 PROVE TurnFits(z, n, w)
  <2>1. /\ z[n] = e /\ n \in Nat \ {0} /\ n - 1 = Len(s) /\ \A k \in 1 .. n - 1 : z[k] = s[k]
    BY <1>2, <1>6
  <2>2. n = (z[n].round - 1) * Speakers + z[n].agent
    BY <1>6, <2>1
  <2>3. z[n].says \in 2 .. w /\ \A k \in 1 .. n - 1 : z[k].says < z[n].says
    BY <1>4, <2>1
  <2>4. CASE Provoked(e)
    BY <2>1, <2>2, <2>3, <2>4, <1>2 DEF TurnFits
  <2>5. CASE ~ Provoked(e)
    <3>1. z[n].hears = IF n = 1 THEN Stimulus ELSE z[n - 1].says
      <4>1. CASE s = <<>>
        BY <2>1, <2>5, <4>1, EmptySeq, <1>6 DEF LastSaid
      <4>2. CASE s # <<>>
        <5>1. Len(s) # 0
          BY <4>2, EmptySeq
        <5>2. Len(s) \in 1 .. n - 1 /\ n # 1
          BY <5>1, <2>1, <1>2
        <5> QED BY <2>1, <2>5, <4>2, <5>2 DEF LastSaid
      <4> QED BY <4>1, <4>2
    <3> QED BY <2>1, <2>2, <2>3, <2>5, <3>1 DEF TurnFits
  <2> QED BY <2>4, <2>5
<1>7. Phase(z, w)
  <2>1. \A n \in 1 .. Len(s) + 1 : n \in 1 .. Len(s) \/ n = Len(s) + 1
    BY <1>2
  <2> QED BY <1>2, <1>5, <1>6, <2>1 DEF Phase
<1>8. LastSaid(z) = w
  BY <1>2, <1>3 DEF LastSaid
<1> QED BY <1>1, <1>2, <1>3, <1>7, <1>8
LEMMA PhaseLater ==
  ASSUME NEW s \in Seq(VsTurn), NEW u \in Nat, NEW w \in Nat, u <= w, Phase(s, u)
  PROVE  Phase(s, w)
BY DEF Phase, TurnFits

LEMMA VsStarts == VersusInit => VsInv
<1> SUFFICES ASSUME VersusInit PROVE VsInv
  OBVIOUS
<1>1. Speakers \in Nat \ {0} /\ VsRounds \in Nat /\ 0 * Speakers = 0
  BY VersusAssumption
<1>2. \A m \in Modes : turns[m] = <<>> /\ DOMAIN turns[m] = {} /\ Len(turns[m]) = 0
  BY EmptySeq DEF VersusInit
<1>3. "1337" \in Modes /\ "english" \in Modes
  BY DEF Modes
<1>4. VsTypes
  <2>1. turns \in [Modes -> Seq(VsTurn)]
    BY EmptySeq DEF VersusInit
  <2>2. vsHistory \in [Modes -> [Speaker -> Seq(1 .. utterances)]]
    BY EmptySeq DEF VersusInit
  <2> QED BY <1>1, <2>1, <2>2 DEF VersusInit, VsTypes, AllSay, Stimulus, Modes
<1>5. \A m \in Modes : Phase(turns[m], utterances)
  BY <1>2 DEF Phase
<1>6. Upcoming(turns["1337"])
  <2>1. prevTexts[Speakers] = Stimulus
    BY <1>1 DEF VersusInit, AllSay, Speaker
  <2> QED BY <1>1, <1>2, <1>3, <2>1 DEF VersusInit, Upcoming, LastSaid
<1>7. SummaryOfText
  BY <1>2, <1>3 DEF SummaryOfText, Range
<1>8. \A a \in Speaker : Held(a)
  BY <1>2, <1>3 DEF VersusInit, Held, DeltaTurns
<1> QED BY <1>1, <1>2, <1>3, <1>4, <1>5, <1>6, <1>7, <1>8 DEF VersusInit, VsInv

LEMMA VsBegins ==
  ASSUME VsInv, BeginRound
  PROVE  VsInv'
<1>1. /\ mode \in Modes /\ vsTurn = 0 /\ vsRound <= VsRounds /\ vsTurn' = 1
      /\ UNCHANGED <<mode, vsRound, vsHistory, turns>>
      /\ \/ Provoke
         \/ vsRound \notin Provocations /\ UNCHANGED <<utterances, prevTexts, prevCogons>>
  BY DEF BeginRound
<1>2. /\ VsTypes /\ \A m \in Modes : Phase(turns[m], utterances)
      /\ Upcoming(turns[mode]) /\ turns[mode] \in Seq(VsTurn)
      /\ Speakers \in Nat \ {0} /\ Speakers \in Speaker
  <2>1. VsTypes /\ (\A m \in Modes : Phase(turns[m], utterances)) /\ Upcoming(turns[mode])
    BY <1>1 DEF VsInv
  <2>2. turns[mode] \in Seq(VsTurn)
    BY <1>1, <2>1 DEF VsTypes
  <2> QED BY <2>1, <2>2, VersusAssumption DEF Speaker
<1>3. utterances' \in Nat \ {0} /\ utterances <= utterances' /\ (1 .. utterances) \subseteq (1 .. utterances')
  BY <1>1, <1>2 DEF Provoke, VsTypes
<1>4. VsTypes'
  <2>1. vsHistory \in [Modes -> [Speaker -> Seq(1 .. utterances')]]
    <3>1. \A m \in Modes : vsHistory[m] \in [Speaker -> Seq(1 .. utterances')]
      BY <1>2, <1>3 DEF VsTypes
    <3> QED BY <1>2, <3>1 DEF VsTypes
  <2>2. prevTexts' \in [Speaker -> 1 .. utterances'] /\ prevCogons' \in [Speaker -> 1 .. utterances']
    BY <1>1, <1>2, <1>3 DEF Provoke, VsTypes, AllSay
  <2> QED BY <1>1, <1>2, <1>3, <2>1, <2>2 DEF VsTypes
<1>5. \A m \in Modes : Phase(turns'[m], utterances')
  BY <1>1, <1>2, <1>3, PhaseLater DEF VsTypes
<1>6. Upcoming(turns[mode])'
  <2>1. CASE Provoke
    <3>1. prevTexts'[Speakers] = utterances + 1
      BY <1>2, <2>1 DEF Provoke, AllSay
    <3>2. \A k \in DOMAIN turns[mode] : turns[mode][k].says \in 2 .. utterances
      BY <1>1, <1>2 DEF Phase, TurnFits
    <3>3. prevTexts'[Speakers] # Stimulus /\ \A k \in DOMAIN turns[mode] : turns[mode][k].says # prevTexts'[Speakers]
      BY <1>2, <3>1, <3>2 DEF VsTypes, Stimulus
    <3> QED BY <1>1, <1>2, <2>1, <3>3 DEF Upcoming, Provoke
  <2>2. CASE vsRound \notin Provocations /\ UNCHANGED <<utterances, prevTexts, prevCogons>>
    BY <1>1, <1>2, <2>2 DEF Upcoming
  <2> QED BY <1>1, <2>1, <2>2
<1>7. mode' = "1337" => prevCogons' = prevTexts' /\ turns'["english"] = <<>>
  BY <1>1 DEF VsInv, Provoke
<1>8. SummaryOfText' /\ \A a \in Speaker : Held(a)'
  BY <1>1 DEF VsInv, SummaryOfText, Held, DeltaTurns, Influenced
<1> QED BY <1>1, <1>4, <1>5, <1>6, <1>7, <1>8 DEF VsInv

LEMMA VsSpeaks ==
  ASSUME VsInv, NEW i \in {"ASSERT", "DELTA"}, mode \in Modes, vsTurn # 0, Speak(vsTurn, i),
         mode = "1337" /\ i = "DELTA" => vsHistory["1337"][vsTurn] # <<>>
  PROVE  VsInv'
<1> DEFINE s == turns[mode]
           a == vsTurn
           w == utterances + 1
           e == [agent |-> a, round |-> vsRound, intent |-> i, says |-> w,
                 hears |-> prevTexts[Heard(a)], summary |-> prevCogons[Heard(a)]]
<1>1. /\ utterances' = w /\ mode' = mode
      /\ vsHistory' = [vsHistory EXCEPT ![mode][a] = Append(@, w)]
      /\ turns' = [turns EXCEPT ![mode] = Append(@, e)]
      /\ prevTexts' = [prevTexts EXCEPT ![a] = w] /\ prevCogons' = [prevCogons EXCEPT ![a] = w]
      /\ IF a < Speakers THEN vsTurn' = a + 1 /\ vsRound' = vsRound
                         ELSE vsTurn' = 0 /\ vsRound' = vsRound + 1
  BY DEF Speak, EndTurn
<1>2. /\ VsTypes /\ (\A m \in Modes : Phase(turns[m], utterances))
      /\ Upcoming(s) /\ s \in Seq(VsTurn)
      /\ Speakers \in Nat \ {0} /\ VsRounds \in Nat /\ Speakers \in Speaker
      /\ a \in Speaker /\ vsRound \in 1 .. VsRounds /\ utterances \in Nat \ {0}
  <2>1. VsTypes /\ (\A m \in Modes : Phase(turns[m], utterances)) /\ Upcoming(s)
    BY DEF VsInv
  <2>2. s \in Seq(VsTurn)
    BY <2>1 DEF VsTypes
  <2>3. /\ Speakers \in Nat \ {0} /\ VsRounds \in Nat /\ Speakers \in Speaker
        /\ a \in Speaker /\ utterances \in Nat \ {0}
    BY <2>1, VersusAssumption DEF VsTypes, Speaker
  <2>4. vsRound \in 1 .. VsRounds
    BY <2>1, <2>3 DEF VsTypes, Upcoming
  <2> QED BY <2>1, <2>2, <2>3, <2>4
<1>3. Heard(a) \in Speaker /\ (a = 1 => Heard(a) = Speakers) /\ (a > 1 => Heard(a) = a - 1)
  BY <1>2 DEF Heard, Speaker
<1>4. e \in VsTurn
  <2>1. prevTexts[Heard(a)] \in Nat /\ prevCogons[Heard(a)] \in Nat /\ w \in Nat
    BY <1>2, <1>3 DEF VsTypes
  <2> QED BY <1>2, <2>1 DEF VsTurn
<1>5. /\ Phase(Append(s, e), w) /\ Append(s, e) \in Seq(VsTurn)
      /\ Len(Append(s, e)) = Len(s) + 1 /\ LastSaid(Append(s, e)) = w
      /\ Append(s, e) # <<>>
  <2>1. PICK d : d = e
    OBVIOUS
  <2>2. /\ d \in VsTurn /\ d.says = w /\ d.round = vsRound /\ d.agent = a
        /\ d.hears = prevTexts[Heard(a)]
    BY <1>4, <2>1
  <2>3. Len(s) + 1 = (d.round - 1) * Speakers + d.agent
    <3>1. PICK y \in Nat : y = (vsRound - 1) * Speakers
      BY <1>2, VsBefore
    <3>2. Len(s) = y + (a - 1)
      BY <1>2, <3>1 DEF Upcoming
    <3>3. Len(s) + 1 = y + a
      BY <1>2, <3>2 DEF Speaker
    <3> QED BY <2>2, <3>1, <3>3
  <2>4. Provoked(d) <=> a = 1 /\ vsRound \in Provocations
    BY <2>2 DEF Provoked
  <2>5. IF Provoked(d) THEN d.hears # Stimulus /\ \A k \in DOMAIN s : s[k].says # d.hears
                       ELSE d.hears = LastSaid(s)
    <3>1. CASE a = 1
      BY <1>2, <1>3, <2>2, <2>4, <3>1 DEF Upcoming
    <3>2. CASE a > 1
      BY <1>2, <1>3, <2>2, <2>4, <3>2 DEF Upcoming
    <3> QED BY <1>2, <3>1, <3>2 DEF Speaker
  <2>6. Phase(s, utterances) /\ utterances \in Nat /\ w \in Nat /\ utterances < w /\ 1 < w
    BY <1>2
  <2>8. s \in Seq(VsTurn)
    BY <1>2
  <2> HIDE DEF s, a, w, e
  <2>7. /\ Phase(Append(s, d), w) /\ Append(s, d) \in Seq(VsTurn)
        /\ Len(Append(s, d)) = Len(s) + 1 /\ LastSaid(Append(s, d)) = w
        /\ Append(s, d) # <<>>
    <3>1. NextSaid(s, utterances, w, d)
      BY <2>2, <2>3, <2>5, <2>6, <2>8 DEF NextSaid
    <3> QED BY <3>1, PhaseGrows
  <2> QED BY <2>1, <2>7
<1>6. /\ turns'[mode] = Append(s, e) /\ \A m \in Modes : m # mode => turns'[m] = turns[m]
      /\ DOMAIN turns' = Modes
  BY <1>1, <1>2 DEF VsTypes
<1>7. VsTypes'
  <2>1. turns' \in [Modes -> Seq(VsTurn)]
    BY <1>2, <1>1, <1>5 DEF VsTypes
  <2>2. (1 .. utterances) \subseteq (1 .. w) /\ w \in 1 .. w /\ w \in Nat \ {0}
    BY <1>2
  <2>3. vsHistory' \in [Modes -> [Speaker -> Seq(1 .. w)]]
    <3>1. \A m \in Modes : \A b \in Speaker : vsHistory[m][b] \in Seq(1 .. w)
      BY <1>2, <2>2 DEF VsTypes
    <3>2. Append(vsHistory[mode][a], w) \in Seq(1 .. w)
      BY <3>1, <1>2, <2>2, AppendProperties
    <3>3. vsHistory \in [Modes -> [Speaker -> Seq(1 .. w)]]
      BY <3>1, <1>2 DEF VsTypes
    <3> HIDE DEF w, a
    <3> QED BY <1>1, <3>2, <3>3
  <2>4. prevTexts' \in [Speaker -> 1 .. w] /\ prevCogons' \in [Speaker -> 1 .. w]
    BY <1>1, <1>2, <2>2 DEF VsTypes
  <2>5. vsRound' \in 1 .. VsRounds + 1 /\ vsTurn' \in 0 .. Speakers
    BY <1>1, <1>2 DEF Speaker
  <2> QED BY <1>1, <1>2, <2>1, <2>2, <2>3, <2>4, <2>5 DEF VsTypes
<1>8. \A m \in Modes : Phase(turns'[m], utterances')
  <2>1. ASSUME NEW m \in Modes, m # mode PROVE Phase(turns[m], w)
    <3>1. turns[m] \in Seq(VsTurn) /\ Phase(turns[m], utterances)
      BY <1>2 DEF VsTypes
    <3> QED BY <1>2, <3>1, PhaseLater
  <2> HIDE DEF s, w, e
  <2> QED BY <1>1, <1>5, <1>6, <2>1
<1>9. Upcoming(turns[mode])'
  <2>1. PICK y \in Nat : y = (vsRound - 1) * Speakers
    BY <1>2, VsBefore
  <2>2. Len(s) = y + (a - 1) /\ y + Speakers = vsRound * Speakers
    BY <1>2, <2>1, VsBefore DEF Upcoming
  <2>3. prevTexts'[a] = w
    BY <1>1, <1>2 DEF VsTypes
  <2>4. PICK z : z = Append(s, e)
    OBVIOUS
  <2>5. z # <<>> /\ Len(z) = Len(s) + 1 /\ LastSaid(z) = w /\ turns'[mode'] = z
    BY <1>1, <1>5, <1>6, <2>4
  <2>6. CASE a < Speakers
    <3>1. vsTurn' = a + 1 /\ vsRound' = vsRound /\ vsTurn' # 0 /\ vsTurn' > 1 /\ vsTurn' - 1 = a
      BY <1>1, <1>2, <2>6 DEF Speaker
    <3>2. Len(z) = (vsRound' - 1) * Speakers + (vsTurn' - 1)
      BY <1>2, <2>1, <2>2, <2>5, <3>1 DEF Speaker
    <3> HIDE DEF a, w
    <3>3. Upcoming(z)'
      BY <1>2, <2>3, <2>5, <3>1, <3>2 DEF Upcoming
    <3> QED BY <2>5, <3>3
  <2>7. CASE ~ a < Speakers
    <3>1. vsTurn' = 0 /\ vsRound' = vsRound + 1 /\ a = Speakers /\ vsRound' - 1 = vsRound
      BY <1>1, <1>2, <2>7 DEF Speaker
    <3>2. Len(z) = (vsRound' - 1) * Speakers
      <4>1. Len(z) = y + Speakers
        BY <1>2, <2>1, <2>2, <2>5, <3>1
      <4> QED BY <2>2, <3>1, <4>1
    <3>3. (vsRound' - 1) * Speakers + 0 = (vsRound' - 1) * Speakers
      <4>1. y + Speakers \in Nat
        BY <2>1, <1>2
      <4> QED BY <4>1, <2>2, <3>1
    <3> HIDE DEF a, w
    <3>4. Upcoming(z)'
      BY <2>3, <2>5, <3>1, <3>2, <3>3 DEF Upcoming
    <3> QED BY <2>5, <3>4
  <2> QED BY <2>6, <2>7
<1>10. Len(turns'["english"]) <= Len(turns'["1337"])
  <2>1. Len(turns["1337"]) \in Nat /\ Len(turns["english"]) \in Nat /\ Len(turns["english"]) <= Len(turns["1337"])
    BY <1>2, LenProperties DEF VsInv, VsTypes, Modes
  <2>2. CASE mode = "1337"
    BY <1>5, <1>6, <2>1, <2>2 DEF Modes
  <2>3. CASE mode = "english"
    <3>1. PICK y \in Nat : y = (vsRound - 1) * Speakers
      BY <1>2, VsBefore
    <3>2. Len(s) = y + (a - 1) /\ y + a <= VsRounds * Speakers
      BY <1>2, <3>1, VsBefore DEF Upcoming
    <3>3. Len(turns["1337"]) = VsRounds * Speakers
      BY <2>3 DEF VsInv
    <3>4. Len(turns'["english"]) = y + a
      <4>1. turns'["english"] = Append(s, e) /\ Len(Append(s, e)) = Len(s) + 1
        BY <1>5, <1>6, <2>3
      <4>2. a \in Nat
        BY <1>2 DEF Speaker
      <4>3. y + (a - 1) + 1 = y + a
        BY <4>2
      <4> QED BY <3>2, <4>1, <4>3
    <3> QED BY <1>6, <2>3, <3>2, <3>3, <3>4 DEF Modes
  <2> QED BY <2>2, <2>3 DEF Modes
<1>11. /\ mode' = "1337" => prevCogons' = prevTexts' /\ turns'["english"] = <<>>
       /\ mode' = "english" => Len(turns'["1337"]) = VsRounds * Speakers
  BY <1>1, <1>6 DEF VsInv, Modes
<1>12. SummaryOfText'
  <2>1. CASE mode = "english"
    BY <1>6, <2>1 DEF VsInv, SummaryOfText, Modes
  <2>2. CASE mode = "1337"
    <3>1. e.hears = e.summary
      BY <2>2 DEF VsInv
    <3>2. PICK z : z = Append(s, e)
      OBVIOUS
    <3>3. /\ DOMAIN z = 1 .. Len(s) + 1 /\ Len(s) \in Nat /\ DOMAIN s = 1 .. Len(s)
          /\ z[Len(s) + 1] = e /\ \A k \in 1 .. Len(s) : z[k] = s[k]
      BY <1>2, <1>4, <3>2, AppendProperties, LenProperties
    <3>4. \A k \in 1 .. Len(s) : s[k].hears = s[k].summary
      BY <2>2, <3>3 DEF VsInv, SummaryOfText, Range
    <3>5. \A k \in 1 .. Len(s) + 1 : k \in 1 .. Len(s) \/ k = Len(s) + 1
      BY <3>3
    <3>6. \A k \in DOMAIN z : z[k].hears = z[k].summary
      BY <3>1, <3>3, <3>4, <3>5
    <3>7. turns'["1337"] = z
      BY <1>6, <2>2, <3>2
    <3> QED BY <3>6, <3>7 DEF SummaryOfText, Range
  <2> QED BY <2>1, <2>2 DEF Modes
<1>13. ASSUME NEW b \in Speaker PROVE Held(b)'
  <2>1. Held(b)
    BY DEF VsInv
  <2>2. CASE mode = "english"
    <3>1. turns'["1337"] = turns["1337"]
      BY <1>6, <2>2 DEF Modes
    <3>2. vsHistory'["1337"] = vsHistory["1337"]
      BY <1>1, <1>2, <2>2 DEF VsTypes, Modes
    <3> QED BY <2>1, <3>1, <3>2 DEF Held, Influenced, DeltaTurns
  <2>3. CASE mode = "1337"
    <3>1. PICK z : z = Append(s, e)
      OBVIOUS
    <3>2. PICK n \in Nat : n = Len(s)
      BY <1>2, LenProperties
    <3>3. /\ DOMAIN z = 1 .. n + 1 /\ DOMAIN s = 1 .. n
          /\ z[n + 1] = e /\ \A k \in 1 .. n : z[k] = s[k]
      BY <1>2, <1>4, <3>1, <3>2, AppendProperties, LenProperties
    <3>4. turns'["1337"] = z /\ turns["1337"] = s
      BY <1>6, <2>3, <3>1
    <3>5. PICK I : I = DeltaTurns(b)
      OBVIOUS
    <3>6. I \in SUBSET (1 .. n) /\ I = {k \in 1 .. n : s[k].agent = b /\ s[k].intent = "DELTA"}
      BY <3>3, <3>4, <3>5 DEF DeltaTurns
    <3>7. IsFiniteSet(I) /\ Cardinality(I) \in Nat /\ n + 1 \notin I
      <4>1. IsFiniteSet(1 .. n)
        BY FS_Interval
      <4>2. IsFiniteSet(I)
        BY <3>6, <4>1, FS_Subset
      <4> QED BY <3>6, <4>2, FS_CardinalityType
    <3>8. e.agent = a /\ e.intent = i
      OBVIOUS
    <3>9. DeltaTurns(b)' = IF b = a /\ i = "DELTA" THEN I \cup {n + 1} ELSE I
      <4>1. DeltaTurns(b)' = {k \in 1 .. n + 1 : z[k].agent = b /\ z[k].intent = "DELTA"}
        BY <3>3, <3>4 DEF DeltaTurns
      <4>2. \A k \in 1 .. n + 1 : k \in 1 .. n \/ k = n + 1
        OBVIOUS
      <4>3. n + 1 \in 1 .. n + 1 /\ n + 1 \notin 1 .. n /\ \A k \in 1 .. n : k \in 1 .. n + 1
        OBVIOUS
      <4> HIDE DEF e, a
      <4> QED BY <4>1, <4>2, <4>3, <3>3, <3>6, <3>8
    <3>10. /\ vsHistory["1337"][b] \in Seq(1 .. utterances)
           /\ vsHistory'["1337"][b] =
                IF b = a THEN Append(vsHistory["1337"][b], w) ELSE vsHistory["1337"][b]
      BY <1>1, <1>2, <2>3 DEF VsTypes, Modes
    <3>11. PICK h : h = vsHistory["1337"][b]
      OBVIOUS
    <3>12. h \in Seq(1 .. w) /\ w \in 1 .. w /\ Len(h) \in Nat
      <4>1. (1 .. utterances) \subseteq (1 .. w)
        BY <1>2
      <4> QED BY <3>10, <3>11, <4>1, <1>2, LenProperties
    <3>13. Append(h, w) # <<>> /\ Len(Append(h, w)) = Len(h) + 1
      BY <3>12, AppendProperties, EmptySeq
    <3>14. (h = <<>> => I = {}) /\ (h # <<>> => Cardinality(I) < Len(h))
      BY <2>1, <3>5, <3>11 DEF Held, Influenced
    <3>15. Cardinality(I) <= Len(h) /\ (h = <<>> => Cardinality(I) = 0)
      BY <3>7, <3>12, <3>14, FS_EmptySet
    <3>16. CASE b # a
      BY <3>5, <3>9, <3>10, <3>11, <3>14, <3>16 DEF Held, Influenced
    <3>17. CASE b = a /\ i = "DELTA"
      <4>1. h # <<>>
        BY <2>3, <3>11, <3>17
      <4>2. Cardinality(I \cup {n + 1}) = Cardinality(I) + 1
        BY <3>7, FS_AddElement
      <4>3. Influenced(b)' < Len(vsHistory'["1337"][b]) /\ vsHistory'["1337"][b] # <<>>
        BY <3>7, <3>9, <3>10, <3>11, <3>12, <3>13, <3>14, <3>17, <4>1, <4>2 DEF Influenced
      <4> QED BY <4>3 DEF Held
    <3>18. CASE b = a /\ i # "DELTA"
      <4>1. Influenced(b)' < Len(vsHistory'["1337"][b]) /\ vsHistory'["1337"][b] # <<>>
        BY <3>7, <3>9, <3>10, <3>11, <3>12, <3>13, <3>15, <3>18 DEF Influenced
      <4> QED BY <4>1 DEF Held
    <3> QED BY <3>16, <3>17, <3>18
  <2> QED BY <2>2, <2>3 DEF Modes
<1> QED BY <1>1, <1>7, <1>8, <1>9, <1>10, <1>11, <1>12, <1>13 DEF VsInv

LEMMA VsEnds ==
  ASSUME VsInv, ChatRaises \/ DebateOver
  PROVE  VsInv'
<1>1. /\ mode' \in {"raised", "done"}
      /\ UNCHANGED <<vsRound, vsTurn, utterances, prevTexts, prevCogons, vsHistory, turns>>
  BY DEF ChatRaises, DebateOver
<1>2. mode' \notin Modes /\ mode' # "1337" /\ mode' # "english"
  BY <1>1 DEF Modes
<1>3. VsTypes'
  BY <1>1 DEF VsInv, VsTypes
<1>4. SummaryOfText' /\ \A a \in Speaker : Held(a)'
  BY <1>1 DEF VsInv, SummaryOfText, Held, DeltaTurns, Influenced
<1> QED BY <1>1, <1>2, <1>3, <1>4 DEF VsInv

LEMMA VsAgain ==
  ASSUME VsInv, SecondPhase
  PROVE  VsInv'
<1>1. /\ mode = "1337" /\ vsTurn = 0 /\ vsRound > VsRounds /\ mode' = "english" /\ vsRound' = 1
      /\ prevTexts' = AllSay(Stimulus) /\ prevCogons' = AllSay(Stimulus)
      /\ UNCHANGED <<vsTurn, utterances, vsHistory, turns>>
  BY DEF SecondPhase, Again
<1>2. /\ VsTypes /\ Upcoming(turns["1337"]) /\ turns["english"] = <<>>
      /\ Speakers \in Nat \ {0} /\ VsRounds \in Nat /\ 0 * Speakers = 0
  BY <1>1, VersusAssumption DEF VsInv, Modes
<1>3. vsRound - 1 = VsRounds /\ VsRounds * Speakers \in Nat
  BY <1>1, <1>2 DEF VsTypes
<1>4. Len(turns["1337"]) = VsRounds * Speakers
  BY <1>1, <1>2, <1>3 DEF Upcoming
<1>5. VsTypes'
  <2>1. AllSay(Stimulus) \in [Speaker -> 1 .. utterances]
    BY <1>2 DEF VsTypes, AllSay, Stimulus
  <2>2. 1 \in 1 .. VsRounds + 1
    BY <1>2
  <2> QED BY <1>1, <1>2, <2>1, <2>2 DEF VsTypes, Modes
<1>6. Upcoming(turns["english"])'
  <2>1. prevTexts'[Speakers] = Stimulus /\ turns'["english"] = <<>> /\ Len(turns'["english"]) = 0
    BY <1>1, <1>2, EmptySeq DEF AllSay, Speaker
  <2> QED BY <1>1, <1>2, <2>1 DEF Upcoming, LastSaid
<1>7. SummaryOfText' /\ \A a \in Speaker : Held(a)'
  BY <1>1 DEF VsInv, SummaryOfText, Held, DeltaTurns, Influenced
<1> QED BY <1>1, <1>4, <1>5, <1>6, <1>7 DEF VsInv

LEMMA VsInductive ==
  ASSUME VsInv, [VersusNext]_vsVars
  PROVE  VsInv'
<1>1. CASE UNCHANGED vsVars
  <2>1. VsTypes' /\ SummaryOfText' /\ (\A a \in Speaker : Held(a)') /\ \A s : Upcoming(s)' <=> Upcoming(s)
    BY <1>1 DEF VsInv, vsVars, VsTypes, SummaryOfText, Held, DeltaTurns, Influenced, Upcoming
  <2> QED BY <1>1, <2>1 DEF VsInv, vsVars
<1>2. CASE BeginRound
  BY <1>2, VsBegins
<1>3. CASE Turn1337
  <2>1. PICK few \in BOOLEAN : Speak(vsTurn, Intent1337(vsTurn, few))
    BY <1>3 DEF Turn1337
  <2>2. PICK i : i = Intent1337(vsTurn, few)
    OBVIOUS
  <2>3. i \in {"ASSERT", "DELTA"} /\ (i = "DELTA" => vsHistory["1337"][vsTurn] # <<>>)
    BY <2>2 DEF Intent1337
  <2> QED BY <1>3, <2>1, <2>2, <2>3, VsSpeaks DEF Turn1337, Modes
<1>4. CASE TurnEnglish
  <2>1. Speak(vsTurn, "ASSERT") /\ mode = "english" /\ vsTurn # 0
    BY <1>4 DEF TurnEnglish, IntentEnglish
  <2> QED BY <2>1, VsSpeaks DEF Modes
<1>5. CASE ChatRaises \/ DebateOver
  BY <1>5, VsEnds
<1>6. CASE SecondPhase
  BY <1>6, VsAgain
<1> QED BY <1>1, <1>2, <1>3, <1>4, <1>5, <1>6 DEF VersusNext

\* Whom a turn answers.
LEMMA VsSource ==
  ASSUME VsInv, NEW m \in Modes, NEW n \in DOMAIN turns[m]
  PROVE  /\ n \in Nat \ {0} /\ turns[m][n] \in VsTurn /\ TurnFits(turns[m], n, utterances)
         /\ \A k \in 1 .. n : k \in DOMAIN turns[m]
         /\ n = 1 <=> turns[m][n].agent = 1 /\ turns[m][n].round = 1
         /\ Source(m, n) = IF n = 1 \/ Provoked(turns[m][n]) THEN 0 ELSE n - 1
         /\ turns[m][n].hears = Stimulus <=> n = 1 /\ ~ Provoked(turns[m][n])
<1>1. PICK s : s = turns[m]
  OBVIOUS
<1>2. s \in Seq(VsTurn) /\ Phase(s, utterances) /\ utterances \in Nat
  BY <1>1 DEF VsInv, VsTypes
<1>3. /\ DOMAIN s = 1 .. Len(s) /\ Len(s) \in Nat /\ n \in 1 .. Len(s) /\ n \in Nat \ {0}
      /\ s[n] \in VsTurn
  BY <1>1, <1>2, LenProperties, ElementOfSeq
<1>4. \A k \in 1 .. n : k \in DOMAIN s /\ TurnFits(s, k, utterances)
  BY <1>2, <1>3 DEF Phase
<1>5. TurnFits(s, n, utterances)
  BY <1>3, <1>4
<1>6. n = 1 <=> s[n].agent = 1 /\ s[n].round = 1
  BY <1>3, <1>5, VsBefore DEF TurnFits, VsTurn
<1>7. Source(m, n) = IF {k \in 1 .. n - 1 : s[k].says = s[n].hears} = {} THEN 0
                     ELSE CHOOSE k \in {j \in 1 .. n - 1 : s[j].says = s[n].hears} : TRUE
  BY <1>1 DEF Source
<1>8. CASE n = 1
  <2>1. {k \in 1 .. n - 1 : s[k].says = s[n].hears} = {}
    BY <1>8
  <2>2. s[n].hears = Stimulus <=> ~ Provoked(s[n])
    BY <1>5, <1>8 DEF TurnFits
  <2> QED BY <1>1, <1>3, <1>4, <1>5, <1>6, <1>7, <1>8, <2>1, <2>2
<1>9. CASE n # 1 /\ Provoked(s[n])
  <2>1. {k \in 1 .. n - 1 : s[k].says = s[n].hears} = {} /\ s[n].hears # Stimulus
    BY <1>5, <1>9 DEF TurnFits
  <2> QED BY <1>1, <1>3, <1>4, <1>5, <1>6, <1>7, <1>9, <2>1
<1>10. CASE n # 1 /\ ~ Provoked(s[n])
  <2>1. n - 1 \in 1 .. n /\ n - 1 \in 1 .. n - 1 /\ s[n].hears = s[n - 1].says
    BY <1>3, <1>5, <1>10 DEF TurnFits
  <2>2. TurnFits(s, n - 1, utterances)
    BY <1>4, <2>1
  <2>3. s[n - 1].says \in 2 .. utterances /\ \A k \in 1 .. (n - 1) - 1 : s[k].says < s[n - 1].says
    BY <2>2 DEF TurnFits
  <2>4. s[n].hears # Stimulus
    BY <2>1, <2>3 DEF Stimulus
  <2>5. \A k \in 1 .. n - 1 : s[k].says = s[n].hears => k = n - 1
    BY <2>1, <2>3, <1>3
  <2>6. {k \in 1 .. n - 1 : s[k].says = s[n].hears} = {n - 1}
    BY <2>1, <2>5
  <2>7. Source(m, n) = n - 1
    BY <1>7, <2>6
  <2> QED BY <1>1, <1>3, <1>4, <1>5, <1>6, <1>10, <2>4, <2>7
<1> QED BY <1>8, <1>9, <1>10

LEMMA VsInvSafe == VsInv => VersusTypeOK /\ VersusSound
<1> SUFFICES ASSUME VsInv PROVE VersusTypeOK /\ VersusSound
  OBVIOUS
<1>1. VersusTypeOK
  <2>1. ASSUME NEW m \in Modes, NEW t \in Range(turns[m])
        PROVE  t.agent \in Speaker /\ t.intent \in {"ASSERT", "DELTA"}
    <3>1. PICK n \in DOMAIN turns[m] : t = turns[m][n]
      BY DEF Range
    <3> QED BY <3>1, VsSource DEF VsTurn
  <2> QED BY <2>1 DEF VsInv, VsTypes, VersusTypeOK
<1>2. Comparable
  <2> SUFFICES ASSUME NEW n \in DOMAIN turns["english"]
               PROVE  /\ turns["1337"][n].agent = turns["english"][n].agent
                      /\ turns["1337"][n].round = turns["english"][n].round
                      /\ Source("1337", n) = Source("english", n)
                      /\ turns["1337"][n].hears = Stimulus <=> turns["english"][n].hears = Stimulus
    BY DEF Comparable
  <2>1. n \in DOMAIN turns["1337"]
    <3>1. turns["1337"] \in Seq(VsTurn) /\ turns["english"] \in Seq(VsTurn)
      BY DEF VsInv, VsTypes, Modes
    <3>2. Len(turns["english"]) <= Len(turns["1337"])
      BY DEF VsInv
    <3> QED BY <3>1, <3>2, LenProperties
  <2>2. PICK t \in VsTurn : t = turns["1337"][n]
    BY <2>1, VsSource DEF Modes
  <2>3. PICK u \in VsTurn : u = turns["english"][n]
    BY VsSource DEF Modes
  <2>4. n = (t.round - 1) * Speakers + t.agent /\ n = (u.round - 1) * Speakers + u.agent
    BY <2>1, <2>2, <2>3, VsSource DEF Modes, TurnFits
  <2>5. t.round \in Nat \ {0} /\ u.round \in Nat \ {0} /\ t.agent \in Speaker /\ u.agent \in Speaker
    BY VersusAssumption DEF VsTurn
  <2>6. t.round = u.round /\ t.agent = u.agent
    BY <2>4, <2>5, VsPlaces
  <2>7. Provoked(t) <=> Provoked(u)
    BY <2>6 DEF Provoked
  <2>8. Source("1337", n) = Source("english", n) /\ (t.hears = Stimulus <=> u.hears = Stimulus)
    BY <2>1, <2>2, <2>3, <2>7, VsSource DEF Modes
  <2> QED BY <2>2, <2>3, <2>6, <2>8
<1>3. SummaryOfText
  BY DEF VsInv
<1>4. AnswersThisRound
  <2> SUFFICES ASSUME NEW m \in Modes, NEW n \in DOMAIN turns[m], turns[m][n].agent # 1
               PROVE  turns[m][n].hears = turns[m][n - 1].says
    BY DEF AnswersThisRound
  <2>1. TurnFits(turns[m], n, utterances) /\ n # 1 /\ ~ Provoked(turns[m][n])
    BY VsSource DEF Provoked
  <2> QED BY <2>1 DEF TurnFits
<1>5. OneHearsProvocation
  <2> SUFFICES ASSUME NEW m \in Modes, NEW n \in DOMAIN turns[m], turns[m][n].agent = 1
               PROVE  Source(m, n) = 0 <=> turns[m][n].round \in Provocations \cup {1}
    BY DEF OneHearsProvocation
  <2>1. /\ n \in Nat \ {0} /\ n = 1 <=> turns[m][n].round = 1
        /\ Source(m, n) = IF n = 1 \/ Provoked(turns[m][n]) THEN 0 ELSE n - 1
    BY VsSource
  <2> QED BY <2>1 DEF Provoked
<1>6. InfluenceBounded
  BY DEF VsInv, Held, InfluenceBounded
<1> QED BY <1>1, <1>2, <1>3, <1>4, <1>5, <1>6 DEF VersusSound

-----------------------------------------------------------------------------
(***************************************************************************)
(* Sequences put together: FlattenSeq, and the turns of one agent in it.   *)
(***************************************************************************)
JoinOf(s, n, g) == g = [i \in 1 .. n |-> IF i = 1 THEN s[i] ELSE g[i - 1] \o s[i]]

LEMMA Joins ==
  ASSUME NEW s, NEW n \in Nat
  PROVE  \E g : JoinOf(s, n, g)
<1> DEFINE Bad == {i \in Nat : ~ \E g : JoinOf(s, i, g)}
<1>1. ASSUME Bad # {} PROVE FALSE
  <2>1. PICK m \in Bad : \A i \in Bad : m <= i
    <3>1. Bad \in SUBSET Nat
      OBVIOUS
    <3> HIDE DEF Bad
    <3> QED BY <1>1, <3>1, NatLeast
  <2>2. m \in Nat /\ ~ \E g : JoinOf(s, m, g)
    BY <2>1
  <2>3. CASE m = 0
    <3>1. PICK h : h = [i \in 1 .. 0 |-> s[i]]
      OBVIOUS
    <3>2. h = [i \in 1 .. 0 |-> IF i = 1 THEN s[i] ELSE h[i - 1] \o s[i]]
      BY <3>1
    <3> QED BY <2>2, <2>3, <3>2 DEF JoinOf
  <2>4. CASE m > 0
    <3>1. PICK k \in Nat : m = k + 1
      BY <2>2, <2>4
    <3>2. k \notin Bad
      BY <2>1, <3>1
    <3>3. PICK g : JoinOf(s, k, g)
      BY <3>2
    <3>4. PICK next : next = IF m = 1 THEN s[m] ELSE g[k] \o s[m]
      OBVIOUS
    <3>5. PICK h : h = [i \in 1 .. m |-> IF i = m THEN next ELSE g[i]]
      OBVIOUS
    <3>6. ASSUME NEW i \in 1 .. m
          PROVE  h[i] = IF i = 1 THEN s[i] ELSE h[i - 1] \o s[i]
      <4>1. CASE i = m
        <5>1. i # 1 => i - 1 = k /\ k \in 1 .. m /\ k # m
          BY <3>1, <4>1
        <5>2. h[i] = next /\ (i # 1 => h[i - 1] = g[k])
          BY <3>5, <4>1, <5>1
        <5> QED BY <3>4, <4>1, <5>1, <5>2
      <4>2. CASE i # m
        <5>1. i \in 1 .. k /\ (i # 1 => i - 1 \in 1 .. m /\ i - 1 # m)
          BY <3>1, <4>2
        <5>2. h[i] = g[i] /\ (i # 1 => h[i - 1] = g[i - 1])
          BY <3>5, <4>2, <5>1
        <5>3. g[i] = IF i = 1 THEN s[i] ELSE g[i - 1] \o s[i]
          BY <3>3, <5>1 DEF JoinOf
        <5> QED BY <5>2, <5>3
      <4> QED BY <4>1, <4>2
    <3>7. h = [i \in 1 .. m |-> IF i = 1 THEN s[i] ELSE h[i - 1] \o s[i]]
      <4>1. h = [i \in 1 .. m |-> h[i]]
        BY <3>5
      <4> QED BY <3>6, <4>1
    <3> QED BY <2>2, <3>7 DEF JoinOf
  <2> QED BY <2>2, <2>3, <2>4
<1> QED BY <1>1

LEMMA Flattened ==
  ASSUME NEW S, NEW s \in Seq(S), s # <<>>
  PROVE  \E g : JoinOf(s, Len(s), g) /\ FlattenSeq(s) = g[Len(s)] /\ Len(s) \in Nat \ {0}
<1>1. PICK n \in Nat : n = Len(s)
  BY LenProperties
<1>2. n # 0
  BY <1>1, EmptySeq
<1>3. \E g : JoinOf(s, n, g)
  BY Joins
<1>4. PICK g : g = CHOOSE f : JoinOf(s, n, f)
  OBVIOUS
<1>5. JoinOf(s, n, g)
  BY <1>3, <1>4
<1>6. FlattenSeq(s) = g[n]
  BY <1>1, <1>2, <1>4, Zenon DEF FlattenSeq, JoinOf
<1> QED BY <1>1, <1>2, <1>5, <1>6

\* What is put together of members of a set closed under \o is one of them.
LEMMA JoinedIn ==
  ASSUME NEW R, <<>> \in R, \A x, y \in R : x \o y \in R, NEW s \in Seq(R)
  PROVE  FlattenSeq(s) \in R
<1>1. CASE s = <<>>
  <2>1. Len(s) = 0
    BY <1>1, EmptySeq
  <2> QED BY <1>1, <2>1 DEF FlattenSeq
<1>2. CASE s # <<>>
  <2>1. PICK g : JoinOf(s, Len(s), g) /\ FlattenSeq(s) = g[Len(s)] /\ Len(s) \in Nat \ {0}
    BY <1>2, Flattened
  <2>2. PICK n \in Nat \ {0} : n = Len(s)
    BY <2>1
  <2>3. \A i \in 1 .. n : g[i] = IF i = 1 THEN s[i] ELSE g[i - 1] \o s[i]
    BY <2>1, <2>2 DEF JoinOf
  <2>4. \A i \in 1 .. n : s[i] \in R
    BY <2>2, ElementOfSeq
  <2> DEFINE Bad == {i \in 1 .. n : g[i] \notin R}
  <2>5. ASSUME Bad # {} PROVE FALSE
    <3>1. PICK m \in Bad : \A i \in Bad : m <= i
      <4>1. Bad \in SUBSET Nat
        OBVIOUS
      <4> HIDE DEF Bad
      <4> QED BY <2>5, <4>1, NatLeast
    <3>2. m \in 1 .. n /\ g[m] \notin R /\ m # 1
      BY <2>3, <2>4, <3>1
    <3>3. m - 1 \in 1 .. n /\ m - 1 \notin Bad
      BY <3>1, <3>2
    <3>4. g[m - 1] \in R /\ s[m] \in R
      BY <2>4, <3>2, <3>3
    <3>5. g[m] = g[m - 1] \o s[m]
      BY <2>3, <3>2
    <3>6. PICK x \in R : x = g[m - 1]
      BY <3>4
    <3>7. PICK y \in R : y = s[m]
      BY <3>4
    <3>8. x \o y \in R
      OBVIOUS
    <3> QED BY <3>2, <3>5, <3>6, <3>7, <3>8
  <2>6. g[n] \in R
    BY <2>5
  <2> QED BY <2>1, <2>2, <2>6
<1> QED BY <1>1, <1>2

\* The positions of a sequence of turns that are those of a.
TurnsOf(x, a) == {k \in DOMAIN x : x[k].who = a}

LEMMA TurnsBoth ==
  ASSUME NEW S, NEW x \in Seq(S), NEW y \in Seq(S), NEW a
  PROVE  /\ Cardinality(TurnsOf(x, a)) \in Nat /\ Cardinality(TurnsOf(y, a)) \in Nat
         /\ Cardinality(TurnsOf(x \o y, a)) =
              Cardinality(TurnsOf(x, a)) + Cardinality(TurnsOf(y, a))
<1>1. PICK n \in Nat : n = Len(x)
  BY LenProperties
<1>2. PICK m \in Nat : m = Len(y)
  BY LenProperties
<1>3. PICK z : z = x \o y
  OBVIOUS
<1>4. /\ DOMAIN x = 1 .. n /\ DOMAIN y = 1 .. m /\ DOMAIN z = 1 .. n + m
      /\ \A i \in 1 .. n + m : z[i] = IF i <= n THEN x[i] ELSE y[i - n]
  BY <1>1, <1>2, <1>3, ConcatProperties, LenProperties
<1>5. PICK I : I = TurnsOf(x, a)
  OBVIOUS
<1>6. PICK J : J = TurnsOf(y, a)
  OBVIOUS
<1>7. PICK K : K = {i \in n + 1 .. n + m : y[i - n].who = a}
  OBVIOUS
<1>8. I \in SUBSET (1 .. n) /\ J \in SUBSET (1 .. m) /\ K \in SUBSET (n + 1 .. n + m)
  BY <1>4, <1>5, <1>6, <1>7 DEF TurnsOf
<1>9. IsFiniteSet(I) /\ IsFiniteSet(J) /\ IsFiniteSet(K)
  <2>1. IsFiniteSet(1 .. n) /\ IsFiniteSet(1 .. m) /\ IsFiniteSet(n + 1 .. n + m)
    BY FS_Interval
  <2> QED BY <1>8, <2>1, FS_Subset
<1>10. TurnsOf(z, a) = I \cup K
  <2>1. ASSUME NEW i \in 1 .. n + m PROVE z[i].who = a <=> i \in I \/ i \in K
    <3>1. CASE i <= n
      <4>1. i \in 1 .. n /\ i \notin K /\ z[i] = x[i]
        BY <1>4, <1>8, <3>1
      <4> QED BY <4>1, <1>4, <1>5 DEF TurnsOf
    <3>2. CASE ~ i <= n
      <4>1. i \in n + 1 .. n + m /\ i \notin I /\ z[i] = y[i - n]
        BY <1>4, <1>8, <3>2
      <4> QED BY <4>1, <1>7
    <3> QED BY <3>1, <3>2
  <2>2. I \cup K \subseteq 1 .. n + m
    BY <1>8
  <2> QED BY <2>1, <2>2, <1>4 DEF TurnsOf
<1>11. I \cap K = {}
  BY <1>8
<1>12. Cardinality(K) = Cardinality(J)
  <2>1. PICK f : f = [j \in J |-> j + n]
    OBVIOUS
  <2>2. \A j \in J : j \in 1 .. m /\ y[j].who = a /\ j \in Int
    BY <1>4, <1>6, <1>8 DEF TurnsOf
  <2>3. \A j \in J : j + n \in K
    <3> TAKE j \in J
    <3>1. j + n \in n + 1 .. n + m /\ (j + n) - n = j
      BY <2>2
    <3> QED BY <3>1, <2>2, <1>7
  <2>4. \A k \in K : k - n \in J /\ (k - n) + n = k
    <3> TAKE k \in K
    <3>1. k \in n + 1 .. n + m /\ y[k - n].who = a
      BY <1>7
    <3>2. k - n \in 1 .. m /\ (k - n) + n = k
      BY <3>1
    <3> QED BY <3>1, <3>2, <1>4, <1>6 DEF TurnsOf
  <2>5. f \in Bijection(J, K)
    <3>1. f \in [J -> K]
      BY <2>1, <2>3
    <3>2. \A i, j \in J : f[i] = f[j] => i = j
      BY <2>1, <2>2
    <3>3. \A k \in K : \E j \in J : f[j] = k
      BY <2>1, <2>4
    <3> QED BY <3>1, <3>2, <3>3 DEF Bijection, Injection, IsInjective, Surjection
  <2> QED BY <1>9, <2>5, FS_Bijection DEF ExistsBijection
<1>13. Cardinality(I \cup K) = Cardinality(I) + Cardinality(K)
  <2>1. Cardinality(I \cap K) = 0
    BY <1>11, FS_EmptySet
  <2>2. Cardinality(I) \in Nat /\ Cardinality(K) \in Nat
    BY <1>9, FS_CardinalityType
  <2>3. Cardinality(I \cup K) = Cardinality(I) + Cardinality(K) - Cardinality(I \cap K)
    BY <1>9, FS_Union
  <2> QED BY <2>1, <2>2, <2>3
<1>14. Cardinality(I) \in Nat /\ Cardinality(J) \in Nat
  BY <1>9, FS_CardinalityType
<1> QED BY <1>3, <1>5, <1>6, <1>10, <1>12, <1>13, <1>14
LEMMA NoTurns ==
  ASSUME NEW a
  PROVE  Cardinality(TurnsOf(<<>>, a)) = 0
<1>1. TurnsOf(<<>>, a) = {}
  BY DEF TurnsOf
<1> QED BY <1>1, FS_EmptySet

Product(m, n) == m * n

\* n sequences, those at J with m turns of a each and the others with none.
TurnShares(s, n, S, a, m, J) ==
  /\ n \in Nat /\ m \in Nat /\ J \in SUBSET (1 .. n) /\ s \in [1 .. n -> Seq(S)]
  /\ \A i \in J : Cardinality(TurnsOf(s[i], a)) = m
  /\ \A i \in 1 .. n : i \notin J => Cardinality(TurnsOf(s[i], a)) = 0

LEMMA JoinedCounts ==
  ASSUME NEW s, NEW n, NEW S, NEW a, NEW m, NEW J, TurnShares(s, n, S, a, m, J)
  PROVE  Cardinality(TurnsOf(FlattenSeq(s), a)) = Product(m, Cardinality(J))
<1>0. /\ n \in Nat /\ m \in Nat /\ J \in SUBSET (1 .. n) /\ s \in [1 .. n -> Seq(S)]
      /\ \A i \in J : Cardinality(TurnsOf(s[i], a)) = m
      /\ \A i \in 1 .. n : i \notin J => Cardinality(TurnsOf(s[i], a)) = 0
  BY DEF TurnShares
<1>1. n = Len(s) /\ s \in Seq(Seq(S)) /\ DOMAIN s = 1 .. n
  <2>1. PICK T : T = Seq(S)
    OBVIOUS
  <2>2. s \in [1 .. n -> T]
    BY <1>0, <2>1
  <2>3. s \in Seq(T) /\ Len(s) = n
    BY <1>0, <2>2
  <2> QED BY <1>0, <2>1, <2>3
<1>2. /\ n \in Nat /\ m \in Nat /\ J \in SUBSET (1 .. n) /\ \A i \in 1 .. n : s[i] \in Seq(S)
      /\ \A i \in 1 .. n : Cardinality(TurnsOf(s[i], a)) = IF i \in J THEN m ELSE 0
  BY <1>0
<1> DEFINE c(i) == Cardinality(UpTo(J, i))
<1>3. /\ \A i : c(i) \in Nat
      /\ c(0) = 0 /\ c(n) = Cardinality(J)
      /\ \A i \in 1 .. n : c(i) = IF i \in J THEN c(i - 1) + 1 ELSE c(i - 1)
  <2>1. n \in Nat /\ J \in SUBSET (1 .. n)
    BY <1>2
  <2>2. UpTo(J, n) = J
    BY ONLY <2>1, UpToCounts
  <2> QED BY ONLY <2>1, <2>2, UpToCounts
<1> HIDE DEF c
<1>4. CASE s = <<>>
  <2>1. n = 0
    BY <1>1, <1>4, EmptySeq
  <2>2. FlattenSeq(s) = <<>>
    BY <1>1, <2>1, <1>4 DEF FlattenSeq
  <2>3. Cardinality(J) = 0
    BY <1>3, <2>1
  <2>4. m * 0 = 0
    BY <1>2
  <2> QED BY <2>2, <2>3, <2>4, NoTurns DEF Product
<1>5. CASE s # <<>>
  <2>1. PICK g : JoinOf(s, Len(s), g) /\ FlattenSeq(s) = g[Len(s)] /\ Len(s) \in Nat \ {0}
    BY ONLY <1>1, <1>5, Flattened
  <2>2. n \in Nat \ {0} /\ FlattenSeq(s) = g[n]
    BY <1>1, <2>1
  <2>3. \A i \in 1 .. n : g[i] = IF i = 1 THEN s[i] ELSE g[i - 1] \o s[i]
    BY <1>1, <2>1 DEF JoinOf
  <2> DEFINE Good(i) == g[i] \in Seq(S) /\ Cardinality(TurnsOf(g[i], a)) = m * c(i)
             Bad == {i \in 1 .. n : ~ Good(i)}
  <2>4. ASSUME Bad # {} PROVE FALSE
    <3>1. PICK k \in Bad : \A i \in Bad : k <= i
      <4>1. Bad \in SUBSET Nat
        OBVIOUS
      <4> HIDE DEF Bad
      <4> QED BY <2>4, <4>1, NatLeast
    <3>2. k \in 1 .. n /\ ~ Good(k)
      BY <3>1
    <3>3. s[k] \in Seq(S) /\ Cardinality(TurnsOf(s[k], a)) = IF k \in J THEN m ELSE 0
      BY <1>2, <3>2
    <3>4. CASE k = 1
      <4>1. g[k] = s[k]
        BY <2>3, <3>2, <3>4
      <4>2. c(k) = IF k \in J THEN 1 ELSE 0
        BY <1>3, <3>2, <3>4
      <4>3. m * 1 = m /\ m * 0 = 0
        BY <1>2
      <4> QED BY <3>2, <3>3, <4>1, <4>2, <4>3
    <3>5. CASE k # 1
      <4>1. PICK l \in 1 .. n : k = l + 1 /\ l = k - 1
        <5>1. k - 1 \in 1 .. n /\ k = (k - 1) + 1
          BY <1>2, <3>2, <3>5
        <5> QED BY ONLY <5>1
      <4>2. Good(l)
        <5>1. l \notin Bad
          BY <3>1, <3>2, <4>1
        <5> QED BY <5>1
      <4>3. g[k] = g[l] \o s[k]
        BY <2>3, <3>2, <3>5, <4>1
      <4>4. PICK x \in Seq(S) : x = g[l]
        BY <4>2
      <4>5. PICK y \in Seq(S) : y = s[k]
        BY <3>3
      <4>6. /\ x \o y \in Seq(S)
            /\ Cardinality(TurnsOf(x \o y, a)) =
                 Cardinality(TurnsOf(x, a)) + Cardinality(TurnsOf(y, a))
        BY ConcatProperties, TurnsBoth
      <4>7. PICK p \in Nat : p = c(l)
        BY <1>3
      <4>8. c(k) = IF k \in J THEN p + 1 ELSE p
        BY <1>3, <3>2, <4>1, <4>7
      <4>9. m * (p + 1) = m * p + m /\ m * p \in Nat
        BY <1>2
      <4>10. Cardinality(TurnsOf(g[k], a)) = m * c(k)
        <5>1. PICK q \in Nat : q = m * p
          BY <4>9
        <5>2. Cardinality(TurnsOf(x, a)) = q
          BY <4>2, <4>4, <4>7, <5>1
        <5>3. Cardinality(TurnsOf(y, a)) = IF k \in J THEN m ELSE 0
          BY <3>3, <4>5
        <5>4. m * c(k) = IF k \in J THEN q + m ELSE q
          BY <1>2, <4>8, <4>9, <5>1
        <5>5. g[k] = x \o y
          BY <4>3, <4>4, <4>5
        <5> QED BY <1>2, <4>6, <5>2, <5>3, <5>4, <5>5
      <4>11. g[k] \in Seq(S)
        BY <4>3, <4>4, <4>5, <4>6
      <4> QED BY <3>2, <4>10, <4>11
    <3> QED BY <3>4, <3>5
  <2>5. n \in 1 .. n /\ n \notin Bad
    BY <2>2, <2>4
  <2>6. Good(n)
    BY <2>5
  <2> QED BY <1>3, <2>2, <2>6 DEF Product
<1> QED BY <1>4, <1>5

\* One turn for each of the agents, who are different.
LEMMA CountOnce ==
  ASSUME NEW agents, \A i, j \in DOMAIN agents : agents[i] = agents[j] => i = j,
         NEW x, DOMAIN x = DOMAIN agents, \A i \in DOMAIN x : x[i].who = agents[i], NEW a
  PROVE  Cardinality(TurnsOf(x, a)) = IF a \in Range(agents) THEN 1 ELSE 0
<1>1. CASE a \in Range(agents)
  <2>1. PICK i \in DOMAIN agents : agents[i] = a
    BY <1>1 DEF Range
  <2>2. TurnsOf(x, a) = {i}
    BY <2>1 DEF TurnsOf
  <2> QED BY <1>1, <2>2, FS_Singleton
<1>2. CASE a \notin Range(agents)
  <2>1. TurnsOf(x, a) = {}
    BY <1>2 DEF TurnsOf, Range
  <2> QED BY <1>2, <2>1, FS_EmptySet
<1> QED BY <1>1, <1>2

(***************************************************************************)
(* Agendas: who is in them, and that everybody they answer has spoken.     *)
(***************************************************************************)
Books == {"none", "plato", "pinocchio"}

AnyBook(A) == A \X Books

\* The turns of the agents A, with the books B allows them.
TurnsOn(A, B) ==
  {t \in [who : A \cup {Human}, hears : A \cup {Human}, to : Nat, logged : BOOLEAN, book : Books] :
     t.who # Human => t.hears # t.who /\ <<t.who, t.book>> \in B}

\* Whom a turn answers has spoken, if it is one of done, or has a turn before.
ReadyAfter(x, done) ==
  \A k \in DOMAIN x : x[k].who # Human =>
     x[k].hears \in done \/ \E l \in 1 .. k - 1 : x[l].who = x[k].hears

LEMMA ItemsGrow ==
  ASSUME NEW A, NEW B, NEW C, NEW D, A \subseteq C, B \subseteq D, NEW x \in Seq(TurnsOn(A, B))
  PROVE  x \in Seq(TurnsOn(C, D))
<1>1. TurnsOn(A, B) \subseteq TurnsOn(C, D)
  BY DEF TurnsOn
<1> QED BY <1>1, SeqMonotonic

LEMMA SpeechFits ==
  ASSUME NEW A, NEW B, NEW t \in Nat, NEW l \in BOOLEAN
  PROVE  /\ Speech(t, l) \in Seq(TurnsOn(A, B)) /\ Len(Speech(t, l)) = 1
         /\ Speech(t, l)[1].who = Human
         /\ \A a : a # Human => Cardinality(TurnsOf(Speech(t, l), a)) = 0
<1>1. PICK e : e = [who |-> Human, hears |-> Human, to |-> t, logged |-> l, book |-> "none"]
  OBVIOUS
<1>2. e \in TurnsOn(A, B) /\ e.who = Human
  BY <1>1 DEF TurnsOn, Books
<1>3. Speech(t, l) = <<e>>
  BY <1>1 DEF Speech
<1>4. /\ Speech(t, l) \in Seq(TurnsOn(A, B)) /\ Len(Speech(t, l)) = 1
      /\ Speech(t, l)[1].who = Human /\ DOMAIN Speech(t, l) = {1}
  BY <1>2, <1>3
<1>5. ASSUME NEW a, a # Human PROVE Cardinality(TurnsOf(Speech(t, l), a)) = 0
  <2>1. TurnsOf(Speech(t, l), a) = {}
    BY <1>4, <1>5 DEF TurnsOf
  <2> QED BY <2>1, FS_EmptySet
<1> QED BY <1>4, <1>5

\* The answers that agents A may give.
AnswersFit(A, B) ==
  \A a \in A, h \in A \cup {Human}, b \in Books : h # a /\ <<a, b>> \in B =>
    /\ Answer(a, h, b) \in TurnsOn(A, B)
    /\ Answer(a, h, b).who = a /\ Answer(a, h, b).hears = h

LEMMA AnswerFits ==
  ASSUME NEW A \in SUBSET Nat, 0 \notin A, NEW B
  PROVE  AnswersFit(A, B)
BY DebateAssumption DEF AnswersFit, Answer, TurnsOn, Human, Everybody

\* A turn for each of the agents: a round.
RoundOf(x, agents, A, B) ==
  /\ x \in Seq(TurnsOn(A, B)) /\ DOMAIN x = DOMAIN agents
  /\ \A i \in DOMAIN x : x[i].who = agents[i]

LEMMA RoundFits ==
  ASSUME NEW A \in SUBSET Nat, 0 \notin A, NEW B, NEW agents \in Seq(A), NEW x,
         x = [i \in DOMAIN agents |-> x[i]],
         \A i \in DOMAIN agents : \E h \in A \cup {Human}, b \in Books :
            x[i] = Answer(agents[i], h, b) /\ h # agents[i] /\ <<agents[i], b>> \in B
  PROVE  RoundOf(x, agents, A, B)
<1>0. \A a \in A, h \in A \cup {Human}, b \in Books : h # a /\ <<a, b>> \in B =>
        Answer(a, h, b) \in TurnsOn(A, B) /\ Answer(a, h, b).who = a
  <2>1. AnswersFit(A, B)
    BY AnswerFits
  <2> QED BY <2>1 DEF AnswersFit
<1>1. PICK n \in Nat : n = Len(agents)
  BY LenProperties
<1>2. DOMAIN agents = 1 .. n /\ \A i \in 1 .. n : agents[i] \in A
  BY <1>1, LenProperties, ElementOfSeq
<1>3. \A i \in 1 .. n : x[i] \in TurnsOn(A, B) /\ x[i].who = agents[i]
  <2> TAKE i \in 1 .. n
  <2>1. PICK h \in A \cup {Human}, b \in Books :
          x[i] = Answer(agents[i], h, b) /\ h # agents[i] /\ <<agents[i], b>> \in B
    BY <1>2
  <2>2. PICK c \in A : c = agents[i]
    BY <1>2
  <2>3. x[i] = Answer(c, h, b) /\ h # c /\ <<c, b>> \in B
    BY <2>1, <2>2
  <2>4. Answer(c, h, b) \in TurnsOn(A, B) /\ Answer(c, h, b).who = c
    BY ONLY <1>0, <2>3, Zenon
  <2> QED BY ONLY <2>2, <2>3, <2>4, Zenon
<1>4. x = [i \in 1 .. n |-> x[i]] /\ DOMAIN x = 1 .. n
  BY <1>2
<1>5. x \in Seq(TurnsOn(A, B))
  <2>1. x \in [1 .. n -> TurnsOn(A, B)]
    <3>1. PICK S : S = TurnsOn(A, B)
      OBVIOUS
    <3>2. \A i \in 1 .. n : x[i] \in S
      BY <1>3, <3>1
    <3>3. x \in [1 .. n -> S]
      BY ONLY <1>4, <3>2
    <3> QED BY <3>1, <3>3
  <2> QED BY <1>1, <2>1
<1> QED BY <1>2, <1>3, <1>4, <1>5 DEF RoundOf

\* Rounds one after the other.
LEMMA RoundsJoined ==
  ASSUME NEW A, NEW B, NEW s \in Seq(Seq(TurnsOn(A, B)))
  PROVE  FlattenSeq(s) \in Seq(TurnsOn(A, B))
<1> DEFINE R == Seq(TurnsOn(A, B))
<1>1. <<>> \in R
  BY EmptySeq
<1>2. \A x, y \in R : x \o y \in R
  BY ConcatProperties
<1> HIDE DEF R
<1>3. s \in Seq(R)
  BY DEF R
<1>4. FlattenSeq(s) \in R
  BY <1>1, <1>2, <1>3, JoinedIn
<1> QED BY <1>4 DEF R

\* r rounds, with m turns of a each.
LEMMA RoundsCount ==
  ASSUME NEW A, NEW B, NEW r \in Nat, NEW s \in [1 .. r -> Seq(TurnsOn(A, B))],
         NEW a, NEW m \in Nat, \A i \in 1 .. r : Cardinality(TurnsOf(s[i], a)) = m
  PROVE  /\ FlattenSeq(s) \in Seq(TurnsOn(A, B))
         /\ Cardinality(TurnsOf(FlattenSeq(s), a)) = Product(m, r)
<1>1. PICK S : S = TurnsOn(A, B)
  OBVIOUS
<1>2. s \in [1 .. r -> Seq(S)]
  BY <1>1
<1>3. FlattenSeq(s) \in Seq(TurnsOn(A, B))
  <2>1. PICK T : T = Seq(S)
    OBVIOUS
  <2>2. s \in [1 .. r -> T]
    BY <1>2, <2>1
  <2>3. s \in Seq(T)
    BY <2>2
  <2> QED BY <1>1, <2>1, <2>3, RoundsJoined
<1>4. PICK J : J = 1 .. r
  OBVIOUS
<1>5. Cardinality(J) = r
  BY <1>4, FS_Interval
<1>6. TurnShares(s, r, S, a, m, J)
  BY <1>2, <1>4 DEF TurnShares
<1>7. Cardinality(TurnsOf(FlattenSeq(s), a)) = Product(m, Cardinality(J))
  BY ONLY <1>6, JoinedCounts
<1> QED BY <1>3, <1>5, <1>7

Opener == Speech(Everybody, TRUE)

\* The human speaks, everybody answers, and then the rounds are of the same
\* agents: whom they answer has spoken.
LEMMA Opening ==
  ASSUME NEW A \in SUBSET Nat, 0 \notin A, NEW B,
         NEW agents \in Seq(A), \A i, j \in DOMAIN agents : agents[i] = agents[j] => i = j,
         NEW sp, sp = Opener,
         NEW opening, RoundOf(opening, agents, A, B), \A i \in DOMAIN opening : opening[i].hears = Human,
         NEW rest \in Seq(TurnsOn(Range(agents), B))
  PROVE  /\ sp \o opening \o rest \in Seq(TurnsOn(A, B))
         /\ ReadyAfter(sp \o opening \o rest, {})
         /\ \A a \in A : Cardinality(TurnsOf(sp \o opening \o rest, a)) =
              (IF a \in Range(agents) THEN 1 ELSE 0) + Cardinality(TurnsOf(rest, a))
<1>1. PICK n \in Nat : n = Len(agents)
  BY LenProperties
<1>2. DOMAIN agents = 1 .. n /\ \A i \in 1 .. n : agents[i] \in A
  BY <1>1, LenProperties, ElementOfSeq
<1>3. Range(agents) \subseteq A /\ Range(agents) = {agents[i] : i \in 1 .. n}
  BY <1>2 DEF Range
<1>4. opening \in Seq(TurnsOn(A, B)) /\ DOMAIN opening = 1 .. n /\ Len(opening) = n
      /\ \A i \in 1 .. n : opening[i].who = agents[i]
  <2>1. opening \in Seq(TurnsOn(A, B)) /\ DOMAIN opening = 1 .. n /\ \A i \in 1 .. n : opening[i].who = agents[i]
    BY <1>2 DEF RoundOf
  <2>2. DOMAIN opening = 1 .. Len(opening) /\ Len(opening) \in Nat
    BY <2>1, LenProperties
  <2> QED BY <2>1, <2>2
<1>5. rest \in Seq(TurnsOn(A, B))
  BY <1>3, ItemsGrow
<1>6. /\ sp \in Seq(TurnsOn(A, B)) /\ Len(sp) = 1 /\ sp[1].who = Human
      /\ \A a : a # Human => Cardinality(TurnsOf(sp, a)) = 0
  <2>1. Everybody \in Nat /\ TRUE \in BOOLEAN
    BY DebateAssumption DEF Everybody
  <2> QED BY <2>1, SpeechFits, Zenon DEF Opener
<1>7. sp \in Seq(TurnsOn(A, B)) /\ Len(sp) = 1 /\ sp[1].who = Human
  BY <1>6
<1>8. PICK y : y = sp \o opening
  OBVIOUS
<1>9. /\ y \in Seq(TurnsOn(A, B)) /\ Len(y) = 1 + n
      /\ \A i \in 1 .. 1 + n : y[i] = IF i <= 1 THEN sp[i] ELSE opening[i - 1]
  <2>1. PICK S : S = TurnsOn(A, B)
    OBVIOUS
  <2>2. sp \in Seq(S) /\ opening \in Seq(S)
    BY <1>4, <1>7, <2>1
  <2>3. /\ sp \o opening \in Seq(S) /\ Len(sp \o opening) = Len(sp) + Len(opening)
        /\ \A i \in 1 .. Len(sp) + Len(opening) :
             (sp \o opening)[i] = IF i <= Len(sp) THEN sp[i] ELSE opening[i - Len(sp)]
    BY <2>2, ConcatProperties
  <2> QED BY <1>4, <1>7, <1>8, <2>1, <2>3
<1>10. PICK m \in Nat : m = Len(rest)
  BY LenProperties
<1>11. PICK z : z = y \o rest
  OBVIOUS
<1>12. /\ z \in Seq(TurnsOn(A, B)) /\ Len(z) = 1 + n + m /\ DOMAIN z = 1 .. 1 + n + m
       /\ \A i \in 1 .. 1 + n + m : z[i] = IF i <= 1 + n THEN y[i] ELSE rest[i - (1 + n)]
  <2>1. PICK S : S = TurnsOn(A, B)
    OBVIOUS
  <2>2. y \in Seq(S) /\ rest \in Seq(S)
    BY <1>5, <1>9, <2>1
  <2>3. /\ y \o rest \in Seq(S) /\ Len(y \o rest) = Len(y) + Len(rest)
        /\ \A i \in 1 .. Len(y) + Len(rest) :
             (y \o rest)[i] = IF i <= Len(y) THEN y[i] ELSE rest[i - Len(y)]
    BY <2>2, ConcatProperties
  <2>4. z \in Seq(S) /\ DOMAIN z = 1 .. Len(z)
    BY <1>11, <2>3, LenProperties
  <2> QED BY <1>9, <1>10, <1>11, <2>1, <2>3, <2>4
<1>13. z[1].who = Human
  BY <1>7, <1>9, <1>12
<1>14. \A i \in 1 .. n : z[i + 1].who = agents[i] /\ z[i + 1].hears = Human
  <2> TAKE i \in 1 .. n
  <2>1. i + 1 \in 1 .. 1 + n + m /\ i + 1 \in 1 .. 1 + n /\ i + 1 <= 1 + n /\ ~ (i + 1 <= 1) /\ (i + 1) - 1 = i
    OBVIOUS
  <2>2. z[i + 1] = opening[i]
    BY <2>1, <1>9, <1>12
  <2> QED BY <2>2, <1>4
<1>15. ReadyAfter(z, {})
  <2> SUFFICES ASSUME NEW k \in 1 .. 1 + n + m, z[k].who # Human
               PROVE  \E j \in 1 .. k - 1 : z[j].who = z[k].hears
    BY <1>12 DEF ReadyAfter
  <2>1. k # 1 /\ 1 \in 1 .. k - 1
    BY <1>13
  <2>2. CASE z[k].hears = Human
    BY <1>13, <2>1, <2>2
  <2>3. CASE k <= 1 + n
    <3>1. PICK i \in 1 .. n : i = k - 1 /\ i + 1 = k
      BY <2>1, <2>3
    <3> QED BY <1>14, <3>1, <2>2
  <2>4. CASE ~ (k <= 1 + n) /\ z[k].hears # Human
    <3>1. k - (1 + n) \in 1 .. m /\ z[k] = rest[k - (1 + n)]
      BY <1>12, <2>4
    <3>2. z[k] \in TurnsOn(Range(agents), B)
      BY <1>10, <3>1, ElementOfSeq
    <3>3. z[k].hears \in Range(agents)
      BY <3>2, <2>4 DEF TurnsOn
    <3>4. PICK i \in 1 .. n : agents[i] = z[k].hears
      BY <1>3, <3>3
    <3>5. i + 1 \in 1 .. k - 1
      BY <2>4
    <3> QED BY <1>14, <3>4, <3>5
  <2> QED BY <2>2, <2>3, <2>4
<1>16. ASSUME NEW a \in A
       PROVE  Cardinality(TurnsOf(z, a)) =
                (IF a \in Range(agents) THEN 1 ELSE 0) + Cardinality(TurnsOf(rest, a))
  <2>1. Cardinality(TurnsOf(sp, a)) = 0
    <3>1. a # Human
      BY DEF Human
    <3> QED BY <1>6, <3>1, Zenon
  <2>2. Cardinality(TurnsOf(opening, a)) = IF a \in Range(agents) THEN 1 ELSE 0
    <3>1. DOMAIN opening = DOMAIN agents /\ \A i \in DOMAIN opening : opening[i].who = agents[i]
      BY <1>2, <1>4
    <3>2. \A i, j \in DOMAIN agents : agents[i] = agents[j] => i = j
      OBVIOUS
    <3> QED BY ONLY <3>1, <3>2, CountOnce
  <2>3. Cardinality(TurnsOf(y, a)) = Cardinality(TurnsOf(sp, a)) + Cardinality(TurnsOf(opening, a))
    BY <1>4, <1>7, <1>8, TurnsBoth
  <2>4. /\ Cardinality(TurnsOf(z, a)) = Cardinality(TurnsOf(y, a)) + Cardinality(TurnsOf(rest, a))
        /\ Cardinality(TurnsOf(rest, a)) \in Nat
    BY <1>5, <1>9, <1>11, TurnsBoth
  <2> QED BY <2>1, <2>2, <2>3, <2>4
<1> QED BY <1>8, <1>11, <1>12, <1>15, <1>16

(***************************************************************************)
(* The agendas of the programs.                                            *)
(***************************************************************************)
\* Different agents, none of them the human.
Team(agents) ==
  /\ agents \in Seq(Nat \ {0})
  /\ \A i, j \in DOMAIN agents : agents[i] = agents[j] => i = j

LEMMA TeamIs ==
  ASSUME NEW agents, Team(agents)
  PROVE  /\ Range(agents) \in SUBSET Nat /\ 0 \notin Range(agents)
         /\ agents \in Seq(Range(agents)) /\ Len(agents) \in Nat
         /\ DOMAIN agents = 1 .. Len(agents)
         /\ \A i, j \in DOMAIN agents : agents[i] = agents[j] => i = j
<1>1. PICK n \in Nat : n = Len(agents)
  BY LenProperties DEF Team
<1>2. DOMAIN agents = 1 .. n /\ \A i \in 1 .. n : agents[i] \in Nat \ {0}
  BY <1>1, LenProperties, ElementOfSeq DEF Team
<1>3. agents = [i \in 1 .. n |-> agents[i]]
  <2>1. agents \in [1 .. n -> Nat \ {0}]
    BY <1>1, LenProperties DEF Team
  <2> QED BY <2>1
<1>4. PICK R : R = Range(agents)
  OBVIOUS
<1>5. \A i \in 1 .. n : agents[i] \in R
  BY <1>2, <1>4 DEF Range
<1>6. agents \in [1 .. n -> R]
  BY ONLY <1>3, <1>5
<1>7. agents \in Seq(R)
  BY <1>1, <1>6
<1>8. R \in SUBSET Nat /\ 0 \notin R
  BY <1>2, <1>4 DEF Range
<1> QED BY <1>1, <1>2, <1>4, <1>7, <1>8 DEF Team

LEMMA AllHearFits ==
  ASSUME NEW agents, Team(agents), NEW A, A = Range(agents)
  PROVE  /\ RoundOf(AllHear(agents), agents, A, AnyBook(A))
         /\ \A i \in DOMAIN AllHear(agents) : AllHear(agents)[i].hears = Human
<1>1. /\ A \in SUBSET Nat /\ 0 \notin A /\ agents \in Seq(A)
      /\ \A i \in DOMAIN agents : agents[i] \in A
  <2>1. \A i \in DOMAIN agents : agents[i] \in A
    BY DEF Range
  <2> QED BY <2>1, TeamIs
<1>2. PICK x : x = AllHear(agents)
  OBVIOUS
<1>3. x = [i \in DOMAIN agents |-> x[i]] /\ \A i \in DOMAIN agents : x[i] = Answer(agents[i], Human, "none")
  BY <1>2 DEF AllHear
<1>4. \A i \in DOMAIN agents : Human # agents[i] /\ <<agents[i], "none">> \in AnyBook(A)
  BY <1>1 DEF Human, Books, AnyBook
<1>5. Human \in A \cup {Human} /\ "none" \in Books
  BY DEF Books
<1>6. RoundOf(x, agents, A, AnyBook(A))
  <2>1. \A i \in DOMAIN agents : \E h \in A \cup {Human}, b \in Books :
            x[i] = Answer(agents[i], h, b) /\ h # agents[i] /\ <<agents[i], b>> \in AnyBook(A)
    BY <1>3, <1>4, <1>5
  <2>2. PICK B : B = AnyBook(A)
    OBVIOUS
  <2>3. \A i \in DOMAIN agents : \E h \in A \cup {Human}, b \in Books :
            x[i] = Answer(agents[i], h, b) /\ h # agents[i] /\ <<agents[i], b>> \in B
    BY <2>1, <2>2
  <2>4. x = [i \in DOMAIN agents |-> x[i]]
    BY <1>3
  <2>5. RoundOf(x, agents, A, B)
    BY ONLY <1>1, <2>3, <2>4, RoundFits
  <2> QED BY <2>2, <2>5
<1>7. \A i \in DOMAIN x : x[i].hears = Human
  BY <1>3 DEF Answer
<1> QED BY <1>2, <1>6, <1>7

\* A round in which each hears another one.
HeardBy(h, agents) ==
  \A i \in DOMAIN agents : h[i] \in Range(agents) \cup {Human} /\ h[i] # agents[i]
Ring(agents, h) == [i \in DOMAIN agents |-> Answer(agents[i], h[i], "none")]

LEMMA RingFits ==
  ASSUME NEW agents, Team(agents), NEW A, A = Range(agents), NEW x, NEW h,
         x = Ring(agents, h), HeardBy(h, agents)
  PROVE  /\ RoundOf(x, agents, A, AnyBook(A))
         /\ x \in Seq(TurnsOn(A, AnyBook(A)))
         /\ \A a : Cardinality(TurnsOf(x, a)) = IF a \in A THEN 1 ELSE 0
<1>1. /\ A \in SUBSET Nat /\ 0 \notin A /\ agents \in Seq(A)
      /\ \A i \in DOMAIN agents : agents[i] \in A
      /\ \A i, j \in DOMAIN agents : agents[i] = agents[j] => i = j
  <2>1. \A i \in DOMAIN agents : agents[i] \in A
    BY DEF Range
  <2> QED BY <2>1, TeamIs
<1>2. x = [i \in DOMAIN agents |-> x[i]] /\ \A i \in DOMAIN agents : x[i] = Answer(agents[i], h[i], "none")
  BY DEF Ring
<1>3. "none" \in Books
  BY DEF Books
<1>4. RoundOf(x, agents, A, AnyBook(A))
  <2>1. \A i \in DOMAIN agents : \E g \in A \cup {Human}, b \in Books :
            x[i] = Answer(agents[i], g, b) /\ g # agents[i] /\ <<agents[i], b>> \in AnyBook(A)
    BY <1>1, <1>2, <1>3 DEF HeardBy, AnyBook
  <2>2. PICK B : B = AnyBook(A)
    OBVIOUS
  <2>3. \A i \in DOMAIN agents : \E g \in A \cup {Human}, b \in Books :
            x[i] = Answer(agents[i], g, b) /\ g # agents[i] /\ <<agents[i], b>> \in B
    BY <2>1, <2>2
  <2>4. x = [i \in DOMAIN agents |-> x[i]]
    BY <1>2
  <2>5. RoundOf(x, agents, A, B)
    BY ONLY <1>1, <2>3, <2>4, RoundFits
  <2> QED BY <2>2, <2>5
<1>5. ASSUME NEW a PROVE Cardinality(TurnsOf(x, a)) = IF a \in A THEN 1 ELSE 0
  <2>1. DOMAIN x = DOMAIN agents /\ \A i \in DOMAIN x : x[i].who = agents[i]
    BY <1>4 DEF RoundOf
  <2>2. Cardinality(TurnsOf(x, a)) = IF a \in Range(agents) THEN 1 ELSE 0
    BY ONLY <1>1, <2>1, CountOnce
  <2> QED BY <2>2
<1> QED BY <1>4, <1>5 DEF RoundOf

LEMMA PlatoRound ==
  ASSUME NEW agents, Team(agents), 2 <= Len(agents), NEW A, A = Range(agents)
  PROVE  /\ RoundOf(RoundOfPlato(agents), agents, A, AnyBook(A))
         /\ RoundOfPlato(agents) \in Seq(TurnsOn(A, AnyBook(A)))
         /\ \A a : Cardinality(TurnsOf(RoundOfPlato(agents), a)) = IF a \in A THEN 1 ELSE 0
<1>1. PICK n \in Nat : n = Len(agents)
  BY TeamIs
<1>2. DOMAIN agents = 1 .. n /\ 2 <= n /\ \A i, j \in 1 .. n : agents[i] = agents[j] => i = j
  BY <1>1, TeamIs
<1>3. PICK h : h = [i \in 1 .. n |-> Before(agents, i)]
  OBVIOUS
<1>4. \A i \in 1 .. n : h[i] \in A /\ h[i] # agents[i]
  <2> TAKE i \in 1 .. n
  <2>1. PICK j \in 1 .. n : j = IF i = 1 THEN n ELSE i - 1
    BY <1>2
  <2>2. h[i] = agents[j] /\ i # j
    BY <1>1, <1>2, <1>3, <2>1 DEF Before
  <2>3. agents[j] \in A
    BY <1>2 DEF Range
  <2> QED BY <1>2, <2>2, <2>3
<1>5. RoundOfPlato(agents) = Ring(agents, h)
  BY <1>2, <1>3 DEF RoundOfPlato, Ring
<1>6. PICK x : x = RoundOfPlato(agents)
  OBVIOUS
<1>7. /\ x = Ring(agents, h)
      /\ HeardBy(h, agents) /\ Team(agents) /\ A = Range(agents)
  BY <1>2, <1>4, <1>5, <1>6 DEF HeardBy
<1>8. /\ RoundOf(x, agents, A, AnyBook(A)) /\ x \in Seq(TurnsOn(A, AnyBook(A)))
      /\ \A a : Cardinality(TurnsOf(x, a)) = IF a \in A THEN 1 ELSE 0
  BY ONLY <1>7, RingFits
<1> QED BY <1>6, <1>8

LEMMA ChatRound ==
  ASSUME Team(roster), 2 <= Len(roster), NEW A, A = Range(roster)
  PROVE  RoundOfChat \in Seq(TurnsOn(A, AnyBook(A)))
<1>1. PICK n \in Nat : n = Len(roster)
  BY TeamIs
<1>2. DOMAIN roster = 1 .. n /\ 2 <= n /\ \A i, j \in 1 .. n : roster[i] = roster[j] => i = j
  BY <1>1, TeamIs
<1>3. PICK h : h = [i \in 1 .. n |-> roster[(i % n) + 1]]
  OBVIOUS
<1>4. \A i \in 1 .. n : h[i] \in A /\ h[i] # roster[i]
  <2> TAKE i \in 1 .. n
  <2>1. i % n = IF i = n THEN 0 ELSE i
    BY <1>2
  <2>2. PICK j \in 1 .. n : j = (i % n) + 1 /\ i # j
    <3>1. PICK m \in Nat : m = i % n
      BY <2>1
    <3>2. m + 1 \in 1 .. n /\ i # m + 1
      BY <1>2, <2>1, <3>1
    <3> QED BY <3>1, <3>2
  <2>3. h[i] = roster[j]
    BY <1>3, <2>2
  <2>4. roster[j] \in A
    BY <1>2 DEF Range
  <2> QED BY <1>2, <2>2, <2>3, <2>4
<1>5. RoundOfChat = Ring(roster, h)
  BY <1>1, <1>2, <1>3 DEF RoundOfChat, Ring
<1>6. HeardBy(h, roster)
  BY <1>2, <1>4 DEF HeardBy
<1> QED BY <1>5, <1>6, RingFits

\* An agenda of the agents A that a script can follow to the end, with m turns
\* for each of them.
Course(x, A, B, m) ==
  /\ x \in Seq(TurnsOn(A, B)) /\ ReadyAfter(x, {})
  /\ \A a \in A : Cardinality(TurnsOf(x, a)) = m

\* Rounds in which each of the agents A has one turn.
FairRounds(s, A, B) ==
  /\ s \in [1 .. Rounds -> Seq(TurnsOn(A, B))]
  /\ \A i \in 1 .. Rounds, a \in A : Cardinality(TurnsOf(s[i], a)) = 1

\* The opening of a discussion and its rounds.
LEMMA RoundsFollow ==
  ASSUME NEW agents, Team(agents), NEW A, A = Range(agents), NEW B,
         NEW opening, RoundOf(opening, agents, A, B), \A i \in DOMAIN opening : opening[i].hears = Human,
         NEW s, FairRounds(s, A, B)
  PROVE  Course(Opener \o opening \o FlattenSeq(s), A, B, 1 + Rounds)
<1>1. Rounds \in Nat /\ Everybody \in Nat /\ TRUE \in BOOLEAN
  BY DebateAssumption DEF Everybody
<1>2. /\ A \in SUBSET Nat /\ 0 \notin A /\ agents \in Seq(A)
      /\ \A i, j \in DOMAIN agents : agents[i] = agents[j] => i = j
  BY TeamIs
<1>3. PICK rest : rest = FlattenSeq(s)
  OBVIOUS
<1>6. /\ s \in [1 .. Rounds -> Seq(TurnsOn(A, B))]
      /\ \A i \in 1 .. Rounds, a \in A : Cardinality(TurnsOf(s[i], a)) = 1
  BY DEF FairRounds
<1>7. rest \in Seq(TurnsOn(A, B))
  <2>1. PICK S : S = Seq(TurnsOn(A, B))
    OBVIOUS
  <2>2. s \in [1 .. Rounds -> S]
    BY <1>6, <2>1
  <2>3. s \in Seq(S)
    BY <1>1, <2>2
  <2> QED BY <1>3, <2>1, <2>3, RoundsJoined
<1>8. ASSUME NEW a \in A PROVE Cardinality(TurnsOf(rest, a)) = Rounds
  <2>1. \A i \in 1 .. Rounds : Cardinality(TurnsOf(s[i], a)) = 1
    BY <1>6
  <2>2. 1 \in Nat /\ Rounds \in Nat /\ Product(1, Rounds) = Rounds
    BY <1>1 DEF Product
  <2>3. Cardinality(TurnsOf(FlattenSeq(s), a)) = Product(1, Rounds)
    BY ONLY <1>6, <2>1, <2>2, RoundsCount
  <2> QED BY <2>2, <2>3, <1>3
<1>10. PICK sp : sp = Opener
  OBVIOUS
<1>11. /\ sp \o opening \o rest \in Seq(TurnsOn(A, B))
       /\ ReadyAfter(sp \o opening \o rest, {})
       /\ \A a \in A : Cardinality(TurnsOf(sp \o opening \o rest, a)) =
            (IF a \in Range(agents) THEN 1 ELSE 0) + Cardinality(TurnsOf(rest, a))
  <2>1. rest \in Seq(TurnsOn(Range(agents), B))
    BY <1>7
  <2>2. RoundOf(opening, agents, A, B) /\ \A i \in DOMAIN opening : opening[i].hears = Human
    OBVIOUS
  <2> QED BY ONLY <1>2, <1>10, <2>1, <2>2, Opening
<1>12. \A a \in A : Cardinality(TurnsOf(sp \o opening \o rest, a)) = 1 + Rounds
  BY <1>8, <1>11
<1> QED BY <1>3, <1>10, <1>11, <1>12 DEF Course
LEMMA DiscussionFits ==
  ASSUME NEW agents, Team(agents), NEW A, A = Range(agents), NEW B, B = AnyBook(A),
         NEW s, FairRounds(s, A, B)
  PROVE  Course(Opener \o AllHear(agents) \o FlattenSeq(s), A, B, 1 + Rounds)
<1>1. PICK opening : opening = AllHear(agents)
  OBVIOUS
<1>2. RoundOf(opening, agents, A, B) /\ \A i \in DOMAIN opening : opening[i].hears = Human
  BY <1>1, AllHearFits
<1>3. Course(Opener \o opening \o FlattenSeq(s), A, B, 1 + Rounds)
  BY <1>2, RoundsFollow
<1> QED BY <1>1, <1>3

LEMMA PlatoFits ==
  ASSUME NEW agents, Team(agents), 2 <= Len(agents), NEW A, A = Range(agents), NEW B, B = AnyBook(A)
  PROVE  Course(PlatoAgenda(agents), A, B, 1 + Rounds)
<1>1. PICK s : s = [r \in 1 .. Rounds |-> RoundOfPlato(agents)]
  OBVIOUS
<1>2. PICK q : q = RoundOfPlato(agents)
  OBVIOUS
<1>3. q \in Seq(TurnsOn(A, B)) /\ \A a \in A : Cardinality(TurnsOf(q, a)) = 1
  BY <1>2, PlatoRound
<1>4. s \in [1 .. Rounds -> Seq(TurnsOn(A, B))]
  BY <1>1, <1>2, <1>3
<1>5. \A i \in 1 .. Rounds, a \in A : Cardinality(TurnsOf(s[i], a)) = 1
  BY <1>1, <1>2, <1>3
<1>6. PICK x : x = Opener \o AllHear(agents) \o FlattenSeq(s)
  OBVIOUS
<1>7. Course(x, A, B, 1 + Rounds)
  <2>1. FairRounds(s, A, B)
    BY <1>4, <1>5 DEF FairRounds
  <2> QED BY <1>6, <2>1, DiscussionFits
<1>8. x = PlatoAgenda(agents)
  BY <1>1, <1>6, Zenon DEF PlatoAgenda, Opener
<1> QED BY <1>7, <1>8

LEMMA ConscienciaRound ==
  ASSUME NEW agents, Team(agents), 2 <= Len(agents), NEW A, A = Range(agents), NEW B, B = AnyBook(A),
         NEW r \in Nat
  PROVE  /\ RoundOfConsciencia(agents, r) \in Seq(TurnsOn(A, B))
         /\ \A a \in A : Cardinality(TurnsOf(RoundOfConsciencia(agents, r), a)) = 1
<1>1. CASE r % Period # 0
  <2>1. RoundOfConsciencia(agents, r) = RoundOfPlato(agents)
    BY <1>1 DEF RoundOfConsciencia
  <2>2. PICK q : q = RoundOfPlato(agents)
    OBVIOUS
  <2>3. q \in Seq(TurnsOn(A, B)) /\ \A a \in A : Cardinality(TurnsOf(q, a)) = 1
    BY <2>2, PlatoRound
  <2> QED BY <2>1, <2>2, <2>3
<1>2. CASE r % Period = 0
  <2>1. PICK n \in Nat : n = Len(agents)
    BY TeamIs
  <2>2. /\ DOMAIN agents = 1 .. n /\ 1 \in 1 .. n
        /\ \A i, j \in 1 .. n : agents[i] = agents[j] => i = j
        /\ \A i \in 1 .. n : agents[i] # Human /\ agents[i] \in A
    <3>1. \A i \in DOMAIN agents : agents[i] \in A
      BY DEF Range
    <3> QED BY <2>1, <3>1, TeamIs DEF Human
  <2>3. PICK h : h = [i \in 1 .. n |-> IF i = 1 THEN Human ELSE Before(agents, i)]
    OBVIOUS
  <2>4. \A i \in 1 .. n : h[i] \in A \cup {Human} /\ h[i] # agents[i]
    <3> TAKE i \in 1 .. n
    <3>1. CASE i = 1
      BY <2>2, <2>3, <3>1
    <3>2. CASE i # 1
      <4>1. PICK j \in 1 .. n : j = i - 1 /\ i # j
        BY <2>2, <3>2
      <4>2. h[i] = agents[j]
        BY <2>3, <3>2, <4>1 DEF Before
      <4> QED BY <2>2, <4>1, <4>2
    <3> QED BY <3>1, <3>2
  <2>5. PICK q : q = Ring(agents, h)
    OBVIOUS
  <2>6. q \in Seq(TurnsOn(A, B)) /\ \A a : Cardinality(TurnsOf(q, a)) = IF a \in A THEN 1 ELSE 0
    <3>1. HeardBy(h, agents)
      BY <2>2, <2>4 DEF HeardBy
    <3> QED BY <2>5, <3>1, RingFits
  <2>7. q = [RoundOfPlato(agents) EXCEPT ![1] = Answer(agents[1], Human, "none")]
    <3>1. RoundOfPlato(agents) = [i \in 1 .. n |-> Answer(agents[i], Before(agents, i), "none")]
      BY <2>2 DEF RoundOfPlato
    <3>2. q = [i \in 1 .. n |-> Answer(agents[i], h[i], "none")]
      BY <2>2, <2>5 DEF Ring
    <3>3. \A i \in 1 .. n : h[i] = IF i = 1 THEN Human ELSE Before(agents, i)
      BY <2>3
    <3> QED BY <2>2, <3>1, <3>2, <3>3
  <2>8. PICK sp : sp = Speech(Everybody, FALSE)
    OBVIOUS
  <2>9. sp \in Seq(TurnsOn(A, B)) /\ \A a : a # Human => Cardinality(TurnsOf(sp, a)) = 0
    <3>1. Everybody \in Nat /\ FALSE \in BOOLEAN
      BY DebateAssumption DEF Everybody
    <3> QED BY <2>8, <3>1, SpeechFits, Zenon
  <2>10. RoundOfConsciencia(agents, r) = sp \o q
    BY <1>2, <2>7, <2>8, Zenon DEF RoundOfConsciencia
  <2>11. sp \o q \in Seq(TurnsOn(A, B))
    BY ONLY <2>6, <2>9, ConcatProperties
  <2>12. ASSUME NEW a \in A PROVE Cardinality(TurnsOf(sp \o q, a)) = 1
    <3>1. a # Human
      BY TeamIs DEF Human
    <3>2. Cardinality(TurnsOf(sp, a)) = 0 /\ Cardinality(TurnsOf(q, a)) = 1
      BY <2>6, <2>9, <3>1
    <3>3. Cardinality(TurnsOf(sp \o q, a)) = Cardinality(TurnsOf(sp, a)) + Cardinality(TurnsOf(q, a))
      BY ONLY <2>6, <2>9, TurnsBoth
    <3> QED BY <3>2, <3>3
  <2> QED BY <2>10, <2>11, <2>12
<1> QED BY <1>1, <1>2

LEMMA ConscienciaFits ==
  ASSUME NEW agents, Team(agents), 2 <= Len(agents), NEW A, A = Range(agents), NEW B, B = AnyBook(A)
  PROVE  Course(ConscienciaAgenda(agents), A, B, 1 + Rounds)
<1>1. PICK s : s = [r \in 1 .. Rounds |-> RoundOfConsciencia(agents, r)]
  OBVIOUS
<1>2. \A r \in 1 .. Rounds : s[r] \in Seq(TurnsOn(A, B)) /\ \A a \in A : Cardinality(TurnsOf(s[r], a)) = 1
  <2> TAKE r \in 1 .. Rounds
  <2>1. r \in Nat
    OBVIOUS
  <2>2. PICK q : q = RoundOfConsciencia(agents, r)
    OBVIOUS
  <2>3. q \in Seq(TurnsOn(A, B)) /\ \A a \in A : Cardinality(TurnsOf(q, a)) = 1
    BY <2>1, <2>2, ConscienciaRound
  <2>4. s[r] = q
    BY <1>1, <2>2
  <2> QED BY <2>3, <2>4
<1>3. s \in [1 .. Rounds -> Seq(TurnsOn(A, B))]
  <2>1. s = [r \in 1 .. Rounds |-> s[r]]
    BY <1>1
  <2> QED BY <1>2, <2>1
<1>4. \A i \in 1 .. Rounds, a \in A : Cardinality(TurnsOf(s[i], a)) = 1
  BY <1>2
<1>5. PICK x : x = Opener \o AllHear(agents) \o FlattenSeq(s)
  OBVIOUS
<1>6. Course(x, A, B, 1 + Rounds)
  <2>1. FairRounds(s, A, B)
    BY <1>3, <1>4 DEF FairRounds
  <2> QED BY <1>5, <2>1, DiscussionFits
<1>7. x = ConscienciaAgenda(agents)
  BY <1>1, <1>5, Zenon DEF ConscienciaAgenda, Opener
<1> QED BY <1>6, <1>7

\* What the prompt puts on the agenda.
LEMMA CommandsFit ==
  ASSUME Team(roster), NEW A, A = Range(roster), NEW B, B = AnyBook(A)
  PROVE  /\ InjectAgenda \in Seq(TurnsOn(A, B))
         /\ \A a \in A : TalkAgenda(a) \in Seq(TurnsOn(A, B))
         /\ 2 <= Len(roster) => ChatAgenda \in Seq(TurnsOn(A, B))
<1>0. A \in SUBSET Nat /\ 0 \notin A
  BY TeamIs
<1>1. PICK S : S = TurnsOn(A, B)
  OBVIOUS
<1>2. \A x, y \in Seq(S) : x \o y \in Seq(S)
  BY ConcatProperties
<1>3. Opener \in Seq(S)
  <2>1. Everybody \in Nat /\ TRUE \in BOOLEAN
    BY DebateAssumption DEF Everybody
  <2> QED BY <1>1, <2>1, SpeechFits, Zenon DEF Opener
<1>4. InjectAgenda \in Seq(S)
  <2>1. RoundOf(AllHear(roster), roster, A, B)
    BY AllHearFits
  <2>2. AllHear(roster) \in Seq(S)
    BY <1>1, <2>1 DEF RoundOf
  <2>3. InjectAgenda = Opener \o AllHear(roster)
    BY Zenon DEF InjectAgenda, Opener
  <2> QED BY <1>2, <1>3, <2>2, <2>3
<1>5. ASSUME NEW a \in A PROVE TalkAgenda(a) \in Seq(S)
  <2>1. a \in Nat /\ TRUE \in BOOLEAN
    BY <1>0
  <2>2. Speech(a, TRUE) \in Seq(S)
    BY <1>1, <2>1, SpeechFits, Zenon
  <2>3. /\ Human # a /\ Human \in A \cup {Human} /\ "none" \in Books /\ <<a, "none">> \in B
    BY <1>0 DEF Human, Books, AnyBook
  <2>4. Answer(a, Human, "none") \in S
    <3>1. AnswersFit(A, B)
      BY <1>0, AnswerFits
    <3> QED BY <1>1, <2>3, <3>1 DEF AnswersFit
  <2>5. <<Answer(a, Human, "none")>> \in Seq(S)
    BY <2>4
  <2>6. TalkAgenda(a) = Speech(a, TRUE) \o <<Answer(a, Human, "none")>>
    BY Zenon DEF TalkAgenda
  <2> QED BY <1>2, <2>2, <2>5, <2>6, Zenon
<1>6. ASSUME 2 <= Len(roster) PROVE ChatAgenda \in Seq(S)
  <2>1. PICK q : q = RoundOfChat
    OBVIOUS
  <2>2. q \in Seq(S)
    BY <1>1, <1>6, <2>1, ChatRound
  <2>3. PICK T : T = Seq(S)
    OBVIOUS
  <2>4. PICK s : s = [r \in 1 .. Rounds |-> q]
    OBVIOUS
  <2>5. s \in Seq(T)
    <3>1. s \in [1 .. Rounds -> T]
      BY <2>2, <2>3, <2>4
    <3> QED BY <3>1, DebateAssumption
  <2>6. FlattenSeq(s) \in Seq(S)
    BY <1>1, <2>3, <2>5, RoundsJoined
  <2>7. ChatAgenda = FlattenSeq(s)
    BY <2>1, <2>4, Zenon DEF ChatAgenda
  <2> QED BY <2>6, <2>7
<1> QED BY <1>1, <1>4, <1>5, <1>6

(***************************************************************************)
(* The discussions about books.                                            *)
(***************************************************************************)
TopicNames == {"plato", "pinocchio", "both"}

\* Of the agents A, each with the books it has read.
HaveRead(A, named) == {p \in A \X Books : p[2] \in Range(BooksOf(named[p[1]]))}

LEMMA BooksAre ==
  ASSUME NEW i \in Nat
  PROVE  /\ BooksOf(i)[1] \in Range(BooksOf(i))
         /\ Range(BooksOf(i)) \subseteq {"plato", "pinocchio"}
         /\ "plato" \in Range(BooksOf(i)) <=> i % 3 # 2
         /\ "pinocchio" \in Range(BooksOf(i)) <=> i % 3 # 1
<1>1. i % 3 \in 0 .. 2
  OBVIOUS
<1>2. PICK s : s = BooksOf(i)
  OBVIOUS
<1>3. CASE i % 3 = 1
  <2>1. s = <<"plato">>
    BY <1>2, <1>3 DEF BooksOf
  <2>2. Range(s) = {"plato"} /\ s[1] = "plato"
    BY <2>1 DEF Range
  <2> QED BY <1>2, <1>3, <2>2
<1>4. CASE i % 3 = 2
  <2>1. s = <<"pinocchio">>
    BY <1>2, <1>4 DEF BooksOf
  <2>2. Range(s) = {"pinocchio"} /\ s[1] = "pinocchio"
    BY <2>1 DEF Range
  <2> QED BY <1>2, <1>4, <2>2
<1>5. CASE i % 3 = 0
  <2>1. s = <<"plato", "pinocchio">>
    BY <1>2, <1>5 DEF BooksOf
  <2>2. Range(s) = {"plato", "pinocchio"} /\ s[1] = "plato"
    <3>1. DOMAIN s = {1, 2} /\ s[1] = "plato" /\ s[2] = "pinocchio"
      BY <2>1
    <3> QED BY <3>1 DEF Range
  <2> QED BY <1>2, <1>5, <2>2
<1> QED BY <1>1, <1>3, <1>4, <1>5

\* Who takes part has read the book of the topic.
AllRead(agents, topic, named) ==
  /\ topic \in TopicNames
  /\ \A i \in DOMAIN agents : named[agents[i]] \in Nat /\ Reads(agents[i], topic, named)

\* Everybody has somebody to hear.
Company(agents) == \A i \in DOMAIN agents : \E j \in DOMAIN agents : agents[j] # agents[i]

LEMMA BookFits ==
  ASSUME NEW A, NEW a \in A, NEW topic \in TopicNames, NEW named, named[a] \in Nat, Reads(a, topic, named)
  PROVE  BookOf(a, topic, named) \in Books /\ <<a, BookOf(a, topic, named)>> \in HaveRead(A, named)
<1>1. PICK n \in Nat : n = named[a]
  OBVIOUS
<1>2. PICK b : b = BookOf(a, topic, named)
  OBVIOUS
<1>3. /\ BooksOf(n)[1] \in Range(BooksOf(n))
      /\ Range(BooksOf(n)) \subseteq {"plato", "pinocchio"}
  BY BooksAre
<1>4. b \in Range(BooksOf(n))
  <2>1. CASE topic = "both"
    BY <1>1, <1>2, <1>3, <2>1 DEF BookOf
  <2>2. CASE topic # "both"
    BY <1>1, <1>2, <2>2 DEF BookOf, Reads
  <2> QED BY <2>1, <2>2
<1>5. b \in Books
  BY <1>3, <1>4 DEF Books
<1> QED BY <1>1, <1>2, <1>4, <1>5 DEF HaveRead

LEMMA OthersAre ==
  ASSUME NEW agents, Team(agents), NEW a, \E j \in DOMAIN agents : agents[j] # a
  PROVE  /\ Len(Others(agents, a)) \in Nat \ {0} /\ Others(agents, a) # <<>>
         /\ \A k \in 1 .. Len(Others(agents, a)) :
              Others(agents, a)[k] \in Range(agents) /\ Others(agents, a)[k] # a
<1>1. PICK n \in Nat : n = Len(agents)
  BY TeamIs
<1>2. DOMAIN agents = 1 .. n /\ agents \in Seq(Nat \ {0})
  BY <1>1, TeamIs DEF Team
<1>3. PICK I : I = {i \in DOMAIN agents : agents[i] # a}
  OBVIOUS
<1>4. PICK x : x = Others(agents, a)
  OBVIOUS
<1>5. x = Keeping(agents, I)
  BY <1>3, <1>4 DEF Others
<1>6. PICK T : T = {b \in Range(agents) : b # a}
  OBVIOUS
<1>7. I \in SUBSET (DOMAIN agents) /\ \A i \in I : agents[i] \in T
  BY <1>3, <1>6 DEF Range
<1>8. /\ Keeping(agents, I) \in Seq(T) /\ Cardinality(I) \in Nat
      /\ Len(Keeping(agents, I)) = Cardinality(I)
  BY <1>2, <1>7, KeepingIs
<1>9. x \in Seq(T) /\ Len(x) = Cardinality(I) /\ Len(x) \in Nat
  BY <1>5, <1>8
<1>10. Cardinality(I) # 0
  <2>1. IsFiniteSet(1 .. n)
    BY FS_Interval
  <2>2. IsFiniteSet(I)
    BY <1>2, <1>7, <2>1, FS_Subset
  <2>3. I # {}
    BY <1>3
  <2> QED BY <2>2, <2>3, FS_EmptySet
<1>11. \A k \in 1 .. Len(x) : x[k] \in T
  BY <1>9, ElementOfSeq
<1>12. x # <<>>
  BY <1>9, <1>10, EmptySeq
<1> QED BY <1>4, <1>6, <1>9, <1>10, <1>11, <1>12

LEMMA DualRound ==
  ASSUME NEW agents, Team(agents), NEW topic, NEW named, AllRead(agents, topic, named),
         Company(agents), NEW r \in Nat \ {0}, NEW A, A = Range(agents), NEW B, B = HaveRead(A, named),
         NEW x, x = RoundOfDual(agents, topic, r, named)
  PROVE  RoundOf(x, agents, A, B)
<1>1. PICK n \in Nat : n = Len(agents)
  BY TeamIs
<1>2. /\ DOMAIN agents = 1 .. n /\ agents \in Seq(Nat \ {0}) /\ agents \in Seq(A)
      /\ A \in SUBSET Nat /\ 0 \notin A /\ \A i \in 1 .. n : agents[i] \in A
  <2>1. \A i \in DOMAIN agents : agents[i] \in A
    BY DEF Range
  <2> QED BY <1>1, <2>1, TeamIs DEF Team
<1>3. \A i \in 1 .. n : \E j \in DOMAIN agents : agents[j] # agents[i]
  BY <1>2 DEF Company
<1>4. \A i \in 1 .. n : Others(agents, agents[i]) # <<>>
  BY <1>3, OthersAre
<1>5. Keeping(agents, {i \in DOMAIN agents : Others(agents, agents[i]) # <<>>}) = agents
  <2>1. {i \in DOMAIN agents : Others(agents, agents[i]) # <<>>} = DOMAIN agents
    BY <1>2, <1>4
  <2>2. Keeping(agents, DOMAIN agents) = agents
    BY <1>2, KeepingAll
  <2> QED BY <2>1, <2>2
<1> DEFINE Hears(i) == Others(agents, agents[i])[((r - 1) % Len(Others(agents, agents[i]))) + 1]
<1>6. x = [i \in DOMAIN agents |-> Answer(agents[i], Hears(i), BookOf(agents[i], topic, named))]
  BY <1>5 DEF RoundOfDual
<1>7. \A i \in 1 .. n : Hears(i) \in A /\ Hears(i) # agents[i]
  <2> TAKE i \in 1 .. n
  <2>1. PICK o : o = Others(agents, agents[i])
    OBVIOUS
  <2>2. Len(o) \in Nat \ {0} /\ \A k \in 1 .. Len(o) : o[k] \in Range(agents) /\ o[k] # agents[i]
    BY <1>3, <2>1, OthersAre
  <2>3. PICK m \in Nat \ {0} : m = Len(o)
    BY <2>2
  <2>4. ((r - 1) % m) + 1 \in 1 .. m
    <3>1. PICK d \in Nat : d = r - 1
      OBVIOUS
    <3>2. d % m \in 0 .. m - 1
      OBVIOUS
    <3> QED BY <3>1, <3>2
  <2>5. Hears(i) = o[((r - 1) % m) + 1]
    BY <2>1, <2>3
  <2> HIDE DEF Hears
  <2> QED BY <2>2, <2>3, <2>4, <2>5
<1> HIDE DEF Hears
<1>8. \A i \in 1 .. n : /\ BookOf(agents[i], topic, named) \in Books
                        /\ <<agents[i], BookOf(agents[i], topic, named)>> \in B
  <2> TAKE i \in 1 .. n
  <2>1. PICK a \in A : a = agents[i]
    BY <1>2
  <2>2. topic \in TopicNames /\ named[a] \in Nat /\ Reads(a, topic, named)
    BY <1>2, <2>1 DEF AllRead
  <2>3. BookOf(a, topic, named) \in Books /\ <<a, BookOf(a, topic, named)>> \in HaveRead(A, named)
    BY <2>2, BookFits
  <2> QED BY <2>1, <2>3
<1>9. x = [i \in DOMAIN agents |-> x[i]]
  BY <1>6
<1>10. \A i \in DOMAIN agents : \E h \in A \cup {Human}, b \in Books :
         x[i] = Answer(agents[i], h, b) /\ h # agents[i] /\ <<agents[i], b>> \in B
  <2> TAKE i \in DOMAIN agents
  <2>1. Hears(i) \in A \cup {Human} /\ Hears(i) # agents[i]
    BY <1>2, <1>7
  <2>2. /\ BookOf(agents[i], topic, named) \in Books
        /\ <<agents[i], BookOf(agents[i], topic, named)>> \in B
    BY <1>2, <1>8
  <2>3. x[i] = Answer(agents[i], Hears(i), BookOf(agents[i], topic, named))
    BY <1>6
  <2> QED BY ONLY <2>1, <2>2, <2>3
<1>11. A \in SUBSET Nat /\ 0 \notin A /\ agents \in Seq(A)
  BY <1>2
<1> QED BY ONLY <1>9, <1>10, <1>11, RoundFits

LEMMA TopicOpening ==
  ASSUME NEW agents, Team(agents), NEW topic, NEW named, AllRead(agents, topic, named),
         NEW A, A = Range(agents), NEW B, B = HaveRead(A, named),
         NEW x, x = [i \in DOMAIN agents |-> Answer(agents[i], Human, BookOf(agents[i], topic, named))]
  PROVE  RoundOf(x, agents, A, B) /\ \A i \in DOMAIN x : x[i].hears = Human
<1>1. /\ agents \in Seq(A) /\ A \in SUBSET Nat /\ 0 \notin A
      /\ \A i \in DOMAIN agents : agents[i] \in A
  <2>1. \A i \in DOMAIN agents : agents[i] \in A
    BY DEF Range
  <2> QED BY <2>1, TeamIs
<1>2. \A i \in DOMAIN agents : /\ BookOf(agents[i], topic, named) \in Books
                               /\ <<agents[i], BookOf(agents[i], topic, named)>> \in B
  <2> TAKE i \in DOMAIN agents
  <2>1. PICK a \in A : a = agents[i]
    BY <1>1
  <2>2. topic \in TopicNames /\ named[a] \in Nat /\ Reads(a, topic, named)
    BY <2>1 DEF AllRead
  <2>3. BookOf(a, topic, named) \in Books /\ <<a, BookOf(a, topic, named)>> \in HaveRead(A, named)
    BY <2>2, BookFits
  <2> QED BY <2>1, <2>3
<1>3. x = [i \in DOMAIN agents |-> x[i]]
  OBVIOUS
<1>4. \A i \in DOMAIN agents : \E h \in A \cup {Human}, b \in Books :
         x[i] = Answer(agents[i], h, b) /\ h # agents[i] /\ <<agents[i], b>> \in B
  <2> TAKE i \in DOMAIN agents
  <2>1. Human \in A \cup {Human} /\ Human # agents[i]
    BY <1>1 DEF Human
  <2>2. x[i] = Answer(agents[i], Human, BookOf(agents[i], topic, named))
    OBVIOUS
  <2>3. /\ BookOf(agents[i], topic, named) \in Books
        /\ <<agents[i], BookOf(agents[i], topic, named)>> \in B
    BY <1>2
  <2> QED BY ONLY <2>1, <2>2, <2>3
<1>5. RoundOf(x, agents, A, B)
  BY ONLY <1>1, <1>3, <1>4, RoundFits
<1>6. \A i \in DOMAIN x : x[i].hears = Human
  BY DEF Answer
<1> QED BY <1>5, <1>6

LEMMA TopicFits ==
  ASSUME NEW agents, Team(agents), NEW topic, NEW named, AllRead(agents, topic, named),
         Company(agents), NEW A, A = Range(agents), NEW B, B = HaveRead(A, named)
  PROVE  Course(TopicAgenda(agents, topic, named), A, B, 1 + Rounds)
<1>1. /\ A \in SUBSET Nat /\ 0 \notin A /\ agents \in Seq(A)
      /\ \A i, j \in DOMAIN agents : agents[i] = agents[j] => i = j
  BY TeamIs
<1>2. PICK s : s = [r \in 1 .. Rounds |-> RoundOfDual(agents, topic, r, named)]
  OBVIOUS
<1>3. \A r \in 1 .. Rounds : s[r] \in Seq(TurnsOn(A, B)) /\ \A a \in A : Cardinality(TurnsOf(s[r], a)) = 1
  <2> TAKE r \in 1 .. Rounds
  <2>1. r \in Nat \ {0}
    OBVIOUS
  <2>2. PICK q : q = RoundOfDual(agents, topic, r, named)
    OBVIOUS
  <2>3. RoundOf(q, agents, A, B)
    BY <2>1, <2>2, DualRound
  <2>4. \A a \in A : Cardinality(TurnsOf(q, a)) = 1
    <3>1. DOMAIN q = DOMAIN agents /\ \A i \in DOMAIN q : q[i].who = agents[i]
      BY <2>3 DEF RoundOf
    <3>2. \A i, j \in DOMAIN agents : agents[i] = agents[j] => i = j
      BY <1>1
    <3>3. \A a : Cardinality(TurnsOf(q, a)) = IF a \in Range(agents) THEN 1 ELSE 0
      BY ONLY <3>1, <3>2, CountOnce
    <3> QED BY <3>3
  <2>5. s[r] = q
    BY <1>2, <2>2
  <2> QED BY <2>3, <2>4, <2>5 DEF RoundOf
<1>4. FairRounds(s, A, B)
  <2>1. s = [r \in 1 .. Rounds |-> s[r]]
    BY <1>2
  <2>2. s \in [1 .. Rounds -> Seq(TurnsOn(A, B))]
    BY <1>3, <2>1
  <2> QED BY <1>3, <2>2 DEF FairRounds
<1>5. PICK opening : opening = [i \in DOMAIN agents |-> Answer(agents[i], Human, BookOf(agents[i], topic, named))]
  OBVIOUS
<1>6. RoundOf(opening, agents, A, B) /\ \A i \in DOMAIN opening : opening[i].hears = Human
  BY <1>5, TopicOpening
<1>7. PICK x : x = Opener \o opening \o FlattenSeq(s)
  OBVIOUS
<1>8. x = TopicAgenda(agents, topic, named)
  BY <1>2, <1>5, <1>7, Zenon DEF TopicAgenda, Opener
<1>9. Course(x, A, B, 1 + Rounds)
  BY <1>4, <1>6, <1>7, RoundsFollow
<1> QED BY <1>8, <1>9

\* The agents and the names of a scenario.
FirstMade(n) == [i \in 1 .. n |-> i]

LEMMA TakesPart ==
  ASSUME NEW n \in Nat, NEW x, x = FirstMade(n), NEW topic \in TopicNames,
         n >= (IF topic = "both" THEN 2 ELSE 3), NEW p, p = Participating(x, topic, x)
  PROVE  /\ Team(p) /\ AllRead(p, topic, x) /\ Company(p)
         /\ Range(p) = {a \in 1 .. n : Reads(a, topic, x)}
<1>1. /\ DOMAIN x = 1 .. n /\ \A i \in 1 .. n : x[i] = i
      /\ x \in Seq(Nat \ {0}) /\ Len(x) = n
  <2>1. x \in [1 .. n -> Nat \ {0}]
    BY DEF FirstMade
  <2> QED BY <2>1 DEF FirstMade
<1>2. PICK I : I = {i \in 1 .. n : Reads(i, topic, x)}
  OBVIOUS
<1>3. p = Keeping(x, I)
  <2>1. {i \in DOMAIN x : Reads(x[i], topic, x)} = I
    BY <1>1, <1>2
  <2> QED BY <2>1 DEF Participating
<1>4. I \in SUBSET (1 .. n) /\ I \in SUBSET (DOMAIN x) /\ \A i \in I : x[i] \in Nat \ {0}
  BY <1>1, <1>2
<1>5. PICK c : c = Cardinality(I)
  OBVIOUS
<1>6. /\ Keeping(x, I) \in Seq(Nat \ {0}) /\ Cardinality(I) \in Nat
      /\ Len(Keeping(x, I)) = Cardinality(I) /\ DOMAIN Keeping(x, I) = 1 .. Cardinality(I)
      /\ \A k \in 1 .. Cardinality(I) : Nth(I, k) \in I /\ Keeping(x, I)[k] = x[Nth(I, k)]
      /\ \A k, l \in 1 .. Cardinality(I) : k < l => Nth(I, k) < Nth(I, l)
  <2>1. PICK S : S = Nat \ {0}
    OBVIOUS
  <2>2. x \in Seq(S) /\ I \in SUBSET (DOMAIN x) /\ \A i \in I : x[i] \in S
    BY <1>1, <1>4, <2>1
  <2>3. /\ Keeping(x, I) \in Seq(S) /\ Cardinality(I) \in Nat
        /\ Len(Keeping(x, I)) = Cardinality(I) /\ DOMAIN Keeping(x, I) = 1 .. Cardinality(I)
        /\ \A k \in 1 .. Cardinality(I) : Nth(I, k) \in I /\ Keeping(x, I)[k] = x[Nth(I, k)]
        /\ \A k, l \in 1 .. Cardinality(I) : k < l => Nth(I, k) < Nth(I, l)
    BY ONLY <2>2, KeepingIs
  <2> QED BY <2>1, <2>3
<1>7. /\ p \in Seq(Nat \ {0}) /\ c \in Nat /\ DOMAIN p = 1 .. c
      /\ \A k \in 1 .. c : p[k] \in I
      /\ \A k, l \in 1 .. c : k < l => p[k] < p[l]
  <2>1. \A k \in 1 .. c : p[k] = Nth(I, k) /\ Nth(I, k) \in I
    <3> TAKE k \in 1 .. c
    <3>1. Nth(I, k) \in I /\ p[k] = x[Nth(I, k)]
      BY <1>3, <1>5, <1>6
    <3> QED BY <1>1, <1>4, <3>1
  <2> QED BY <1>3, <1>5, <1>6, <2>1
<1>8. \A i \in I : \E k \in 1 .. c : p[k] = i
  <2> TAKE i \in I
  <2>1. PICK k : k = Cardinality(UpTo(I, i))
    OBVIOUS
  <2>2. k \in 1 .. Cardinality(I) /\ Nth(I, k) = i
    BY <1>4, <2>1, NthOrder
  <2>3. p[k] = x[i]
    BY <1>3, <1>6, <2>2
  <2> QED BY <1>1, <1>4, <1>5, <2>2, <2>3
<1>9. Team(p)
  <2>1. \A k, l \in 1 .. c : p[k] = p[l] => k = l
    <3> SUFFICES ASSUME NEW k \in 1 .. c, NEW l \in 1 .. c, p[k] = p[l], k # l PROVE FALSE
      OBVIOUS
    <3>1. p[k] \in 1 .. n /\ p[l] \in 1 .. n
      BY <1>4, <1>7
    <3>2. k < l \/ l < k
      OBVIOUS
    <3> QED BY <1>7, <3>1, <3>2
  <2> QED BY <1>7, <2>1 DEF Team
<1>10. Range(p) = I
  BY <1>7, <1>8 DEF Range
<1>11. AllRead(p, topic, x)
  <2>1. \A k \in 1 .. c : x[p[k]] \in Nat /\ Reads(p[k], topic, x)
    BY <1>1, <1>2, <1>7
  <2> QED BY <1>7, <2>1 DEF AllRead
<1>12. Company(p)
  <2>1. \E i, j \in I : i # j
    <3>1. /\ 1 % 3 = 1 /\ 2 % 3 = 2 /\ 3 % 3 = 0
          /\ 1 \in Nat /\ 2 \in Nat /\ 3 \in Nat
      OBVIOUS
    <3>2. CASE topic = "both"
      <4>1. 1 \in 1 .. n /\ 2 \in 1 .. n
        BY <3>2
      <4>2. 1 \in I /\ 2 \in I
        BY <1>2, <3>2, <4>1 DEF Reads
      <4> QED BY <4>2
    <3>3. CASE topic = "plato"
      <4>1. 1 \in 1 .. n /\ 3 \in 1 .. n
        BY <3>3
      <4>2. "plato" \in Range(BooksOf(1)) /\ "plato" \in Range(BooksOf(3))
        BY <3>1, BooksAre
      <4>3. x[1] = 1 /\ x[3] = 3
        BY <1>1, <4>1
      <4>4. 1 \in I /\ 3 \in I
        BY <1>2, <3>3, <4>1, <4>2, <4>3 DEF Reads
      <4> QED BY <4>4
    <3>4. CASE topic = "pinocchio"
      <4>1. 2 \in 1 .. n /\ 3 \in 1 .. n
        BY <3>4
      <4>2. "pinocchio" \in Range(BooksOf(2)) /\ "pinocchio" \in Range(BooksOf(3))
        BY <3>1, BooksAre
      <4>3. x[2] = 2 /\ x[3] = 3
        BY <1>1, <4>1
      <4>4. 2 \in I /\ 3 \in I
        BY <1>2, <3>4, <4>1, <4>2, <4>3 DEF Reads
      <4> QED BY <4>4
    <3> QED BY <3>2, <3>3, <3>4 DEF TopicNames
  <2>2. PICK i \in I, j \in I : i # j
    BY <2>1
  <2>3. PICK k \in 1 .. c : p[k] = i
    BY <1>8
  <2>4. PICK l \in 1 .. c : p[l] = j
    BY <1>8
  <2>5. \A m \in DOMAIN p : p[k] # p[m] \/ p[l] # p[m]
    BY <2>2, <2>3, <2>4
  <2> QED BY <1>7, <2>5 DEF Company
<1> QED BY <1>2, <1>9, <1>10, <1>11, <1>12

\* Who is not one of the agents has no turns.
LEMMA NoTurnsOutside ==
  ASSUME NEW A, NEW B, NEW x \in Seq(TurnsOn(A, B)), NEW a, a \notin A, a # Human
  PROVE  Cardinality(TurnsOf(x, a)) = 0
<1>1. \A k \in DOMAIN x : x[k] \in TurnsOn(A, B)
  BY LenProperties, ElementOfSeq
<1>2. \A k \in DOMAIN x : x[k].who # a
  BY <1>1 DEF TurnsOn
<1>3. TurnsOf(x, a) = {}
  BY <1>2 DEF TurnsOf
<1> QED BY <1>3, FS_EmptySet

\* Two courses one after the other.
LEMMA ReadyJoined ==
  ASSUME NEW S, NEW x \in Seq(S), NEW y \in Seq(S), ReadyAfter(x, {}), ReadyAfter(y, {})
  PROVE  x \o y \in Seq(S) /\ ReadyAfter(x \o y, {})
<1>1. PICK n \in Nat : n = Len(x)
  BY LenProperties
<1>2. PICK m \in Nat : m = Len(y)
  BY LenProperties
<1>3. PICK z : z = x \o y
  OBVIOUS
<1>4. /\ DOMAIN x = 1 .. n /\ DOMAIN y = 1 .. m /\ DOMAIN z = 1 .. n + m /\ z \in Seq(S)
      /\ \A i \in 1 .. n + m : z[i] = IF i <= n THEN x[i] ELSE y[i - n]
  BY <1>1, <1>2, <1>3, ConcatProperties, LenProperties
<1>5. ASSUME NEW k \in 1 .. n + m, z[k].who # Human
      PROVE  \E l \in 1 .. k - 1 : z[l].who = z[k].hears
  <2>1. CASE k <= n
    <3>1. k \in 1 .. n /\ z[k] = x[k]
      BY <1>4, <2>1
    <3>2. PICK l \in 1 .. k - 1 : x[l].who = x[k].hears
      BY <1>4, <1>5, <3>1 DEF ReadyAfter
    <3>3. l \in 1 .. n + m /\ l <= n
      BY <2>1
    <3>4. z[l] = x[l]
      BY <1>4, <3>3
    <3> QED BY <3>1, <3>2, <3>4
  <2>2. CASE ~ (k <= n)
    <3>1. PICK j \in 1 .. m : j = k - n /\ k = j + n
      BY <2>2
    <3>2. z[k] = y[j]
      BY <1>4, <2>2, <3>1
    <3>3. PICK l \in 1 .. j - 1 : y[l].who = y[j].hears
      BY <1>4, <1>5, <3>1, <3>2 DEF ReadyAfter
    <3>4. l + n \in 1 .. n + m /\ ~ (l + n <= n) /\ (l + n) - n = l /\ l + n \in 1 .. k - 1
      BY <3>1
    <3>5. z[l + n] = y[l]
      BY <1>4, <3>4
    <3> QED BY <3>2, <3>3, <3>4, <3>5
  <2> QED BY <2>1, <2>2
<1>6. ReadyAfter(z, {})
  BY <1>4, <1>5 DEF ReadyAfter
<1> QED BY <1>3, <1>4, <1>6

\* The topics an agent takes part in.
TopicsRead(a, named) == {t \in DOMAIN Topics : Reads(a, Topics[t], named)}

\* The course of the dual scenario with its n agents.
DualCourse(n, x, A, B, d) ==
  /\ n \in Nat /\ n = ScenarioSize /\ x = FirstMade(n)
  /\ A = 1 .. n /\ B = HaveRead(A, x) /\ d = DualAgenda(x, x)

LEMMA DualFits ==
  ASSUME NEW n, NEW x, NEW A, NEW B, NEW d, DualCourse(n, x, A, B, d)
  PROVE  /\ d \in Seq(TurnsOn(A, B)) /\ ReadyAfter(d, {})
         /\ \A a \in A : Cardinality(TurnsOf(d, a)) =
              Product(1 + Rounds, Cardinality(TopicsRead(a, x)))
<1> n \in Nat /\ n = ScenarioSize /\ x = FirstMade(n) /\ A = 1 .. n /\ B = HaveRead(A, x) /\ d = DualAgenda(x, x)
  BY DEF DualCourse
<1>1. PICK m \in Nat : m = Len(Topics)
  BY DebateAssumption, LenProperties
<1>2. DOMAIN Topics = 1 .. m /\ \A t \in 1 .. m : Topics[t] \in TopicNames
  BY <1>1, DebateAssumption, LenProperties, ElementOfSeq DEF TopicNames
<1>3. \A t \in 1 .. m : n >= (IF Topics[t] = "both" THEN 2 ELSE 3)
  BY <1>2, DebateAssumption
<1>4. PICK S : S = TurnsOn(A, B)
  OBVIOUS
<1>5. PICK s : s = [t \in DOMAIN Topics |-> TopicAgenda(Participating(x, Topics[t], x), Topics[t], x)]
  OBVIOUS
<1>6. ASSUME NEW t \in 1 .. m
      PROVE  /\ s[t] \in Seq(S) /\ ReadyAfter(s[t], {})
             /\ \A a \in A : Cardinality(TurnsOf(s[t], a)) =
                               IF Reads(a, Topics[t], x) THEN 1 + Rounds ELSE 0
  <2>1. PICK topic \in TopicNames : topic = Topics[t]
    BY <1>2
  <2>2. PICK p : p = Participating(x, topic, x)
    OBVIOUS
  <2>3. n >= (IF topic = "both" THEN 2 ELSE 3)
    BY <1>3, <2>1
  <2>4. /\ Team(p) /\ AllRead(p, topic, x) /\ Company(p)
        /\ Range(p) = {a \in 1 .. n : Reads(a, topic, x)}
    BY <2>2, <2>3, TakesPart
  <2>5. PICK P : P = Range(p)
    OBVIOUS
  <2>6. PICK Q : Q = HaveRead(P, x)
    OBVIOUS
  <2>7. PICK q : q = TopicAgenda(p, topic, x)
    OBVIOUS
  <2>8. Course(q, P, Q, 1 + Rounds)
    BY <2>4, <2>5, <2>6, <2>7, TopicFits
  <2>9. P \subseteq A /\ Q \subseteq B
    BY <2>4, <2>5, <2>6 DEF HaveRead
  <2>10. q \in Seq(TurnsOn(P, Q)) /\ ReadyAfter(q, {}) /\ \A a \in P : Cardinality(TurnsOf(q, a)) = 1 + Rounds
    BY <2>8 DEF Course
  <2>11. q \in Seq(S)
    BY <1>4, <2>9, <2>10, ItemsGrow
  <2>12. s[t] = q
    BY <1>2, <1>5, <2>1, <2>2, <2>7
  <2>13. ASSUME NEW a \in A
         PROVE  Cardinality(TurnsOf(q, a)) = IF Reads(a, topic, x) THEN 1 + Rounds ELSE 0
    <3>1. CASE Reads(a, topic, x)
      <4>1. a \in P
        BY <2>4, <2>5, <3>1
      <4> QED BY <2>10, <3>1, <4>1
    <3>2. CASE ~ Reads(a, topic, x)
      <4>1. a \notin P /\ a # Human
        BY <2>4, <2>5, <3>2 DEF Human
      <4>2. Cardinality(TurnsOf(q, a)) = 0
        BY <2>10, <4>1, NoTurnsOutside
      <4> QED BY <3>2, <4>2
    <3> QED BY <3>1, <3>2
  <2> QED BY <2>1, <2>10, <2>11, <2>12, <2>13
<1>7. d = FlattenSeq(s)
  BY <1>5, Zenon DEF DualAgenda
<1>8. d \in Seq(S) /\ ReadyAfter(d, {})
  <2>1. PICK R : R = {q \in Seq(S) : ReadyAfter(q, {})}
    OBVIOUS
  <2>2. <<>> \in R
    <3>1. <<>> \in Seq(S)
      BY EmptySeq
    <3>2. ReadyAfter(<<>>, {})
      BY DEF ReadyAfter
    <3> QED BY <2>1, <3>1, <3>2
  <2>3. \A y, z \in R : y \o z \in R
    BY <2>1, ReadyJoined
  <2>4. s \in Seq(R)
    <3>1. s = [t \in 1 .. m |-> s[t]]
      BY <1>2, <1>5
    <3>2. \A t \in 1 .. m : s[t] \in R
      BY <1>6, <2>1
    <3>3. s \in [1 .. m -> R]
      BY ONLY <3>1, <3>2
    <3> QED BY <3>3
  <2>5. FlattenSeq(s) \in R
    BY ONLY <2>2, <2>3, <2>4, JoinedIn
  <2> QED BY <1>7, <2>1, <2>5
<1>9. ASSUME NEW a \in A
      PROVE  Cardinality(TurnsOf(d, a)) =
               Product(1 + Rounds, Cardinality({t \in DOMAIN Topics : Reads(a, Topics[t], x)}))
  <2>1. PICK J : J = {t \in DOMAIN Topics : Reads(a, Topics[t], x)}
    OBVIOUS
  <2>2. PICK k \in Nat : k = 1 + Rounds
    BY DebateAssumption
  <2>3. TurnShares(s, m, S, a, k, J)
    <3>1. s \in [1 .. m -> Seq(S)]
      <4>1. s = [t \in 1 .. m |-> s[t]]
        BY <1>2, <1>5
      <4>2. PICK T : T = Seq(S)
        OBVIOUS
      <4>3. \A t \in 1 .. m : s[t] \in T
        BY <1>6, <4>2
      <4>4. s \in [1 .. m -> T]
        BY ONLY <4>1, <4>3
      <4> QED BY <4>2, <4>4
    <3>2. J \in SUBSET (1 .. m)
      BY <1>2, <2>1
    <3>3. \A t \in J : Cardinality(TurnsOf(s[t], a)) = k
      BY <1>2, <1>6, <2>1, <2>2
    <3>4. \A t \in 1 .. m : t \notin J => Cardinality(TurnsOf(s[t], a)) = 0
      BY <1>2, <1>6, <2>1
    <3> QED BY <3>1, <3>2, <3>3, <3>4 DEF TurnShares
  <2>4. Cardinality(TurnsOf(FlattenSeq(s), a)) = Product(k, Cardinality(J))
    BY ONLY <2>3, JoinedCounts
  <2> QED BY <1>7, <2>1, <2>2, <2>4
<1> QED BY <1>4, <1>8, <1>9 DEF TopicsRead

(***************************************************************************)
(* What an agent said.                                                     *)
(***************************************************************************)
Talk(n) == [from : 0 .. n, to : Nat, intent : {"ASSERT", "DELTA"}, answers : Nat]

PlacesOf(s, a) == {i \in DOMAIN s : s[i].from = a}
By(s, a) == Keeping([i \in DOMAIN s |-> i], PlacesOf(s, a))
LastOf(s, a) == IF By(s, a) = <<>> THEN 0 ELSE Last(By(s, a))

LEMMA SaidIsBy ==
  /\ \A a : SaidBy(a) = By(said, a) /\ LastMessage(a) = LastOf(said, a)
  /\ \A a : SaidBy(a)' = By(said', a)
BY DEF SaidBy, LastMessage, By, LastOf, PlacesOf

LEMMA SaidIs ==
  ASSUME NEW S, NEW s \in Seq(S), NEW a
  PROVE  /\ By(s, a) \in Seq(1 .. Len(s)) /\ Len(By(s, a)) \in Nat /\ DOMAIN By(s, a) = 1 .. Len(By(s, a))
         /\ \A k \in 1 .. Len(By(s, a)) : By(s, a)[k] \in PlacesOf(s, a)
         /\ PlacesOf(s, a) = {} => By(s, a) = <<>> /\ LastOf(s, a) = 0
         /\ PlacesOf(s, a) # {} => /\ By(s, a) # <<>> /\ LastOf(s, a) # 0
                                   /\ LastOf(s, a) \in PlacesOf(s, a)
                                   /\ \A i \in PlacesOf(s, a) : i <= LastOf(s, a)
<1>1. PICK n \in Nat : n = Len(s)
  BY LenProperties
<1>2. DOMAIN s = 1 .. n
  BY <1>1, LenProperties
<1>3. PICK I : I = PlacesOf(s, a)
  OBVIOUS
<1>4. PICK f : f = [i \in 1 .. n |-> i]
  OBVIOUS
<1>5. PICK x : x = By(s, a)
  OBVIOUS
<1>6. x = Keeping(f, I)
  BY <1>2, <1>3, <1>4, <1>5 DEF By
<1>7. I \in SUBSET (1 .. n)
  BY <1>2, <1>3 DEF PlacesOf
<1>8. PICK T : T = 1 .. n
  OBVIOUS
<1>9. f \in Seq(T) /\ I \in SUBSET (DOMAIN f) /\ \A i \in I : f[i] \in I
  BY <1>4, <1>7, <1>8
<1>10. PICK c : c = Cardinality(I)
  OBVIOUS
<1>11. /\ Keeping(f, I) \in Seq(I) /\ Cardinality(I) \in Nat
       /\ Len(Keeping(f, I)) = Cardinality(I) /\ DOMAIN Keeping(f, I) = 1 .. Cardinality(I)
       /\ \A k \in 1 .. Cardinality(I) : Nth(I, k) \in I /\ Keeping(f, I)[k] = f[Nth(I, k)]
       /\ \A k, l \in 1 .. Cardinality(I) : k < l => Nth(I, k) < Nth(I, l)
  BY ONLY <1>9, KeepingIs
<1>12. /\ x \in Seq(I) /\ c \in Nat /\ Len(x) = c /\ DOMAIN x = 1 .. c
       /\ \A k \in 1 .. c : x[k] = Nth(I, k) /\ x[k] \in I
  <2>1. \A k \in 1 .. c : x[k] = Nth(I, k) /\ x[k] \in I
    <3> TAKE k \in 1 .. c
    <3>1. Nth(I, k) \in I /\ x[k] = f[Nth(I, k)]
      BY <1>6, <1>10, <1>11
    <3> QED BY <1>4, <1>7, <3>1
  <2> QED BY <1>6, <1>10, <1>11, <2>1
<1>13. x \in Seq(1 .. n)
  BY <1>7, <1>12, SeqMonotonic
<1>14. IsFiniteSet(I)
  <2>1. IsFiniteSet(1 .. n)
    BY FS_Interval
  <2> QED BY <1>7, <2>1, FS_Subset
<1>15. PICK l : l = LastOf(s, a)
  OBVIOUS
<1>16. l = IF x = <<>> THEN 0 ELSE x[c]
  BY <1>5, <1>12, <1>15 DEF LastOf, Last
<1>17. CASE I = {}
  <2>1. c = 0
    BY <1>10, <1>17, FS_EmptySet
  <2>2. x = <<>>
    BY <1>12, <2>1, EmptySeq
  <2> QED BY <1>1, <1>3, <1>5, <1>12, <1>13, <1>15, <1>16, <1>17, <2>2
<1>18. CASE I # {}
  <2>1. c # 0
    BY <1>10, <1>14, <1>18, FS_EmptySet
  <2>2. x # <<>>
    BY <1>12, <2>1, EmptySeq
  <2>3. c \in 1 .. c /\ l = Nth(I, c) /\ l \in I
    BY <1>12, <1>16, <2>1, <2>2
  <2>4. ASSUME NEW i \in I PROVE i <= l
    <3>1. PICK k : k = Cardinality(UpTo(I, i))
      OBVIOUS
    <3>2. k \in 1 .. Cardinality(I) /\ Nth(I, k) = i
      BY <1>7, <3>1, NthOrder
    <3>3. k = c \/ k < c
      BY <1>10, <1>12, <3>2
    <3>4. k < c => Nth(I, k) < Nth(I, c)
      BY <1>10, <1>11, <2>3, <3>2
    <3>5. i \in 1 .. n /\ l \in 1 .. n
      BY <1>7, <2>3
    <3> QED BY <2>3, <3>2, <3>3, <3>4, <3>5
  <2>5. l # 0
    BY <1>7, <2>3
  <2> QED BY <1>1, <1>3, <1>5, <1>12, <1>13, <1>15, <1>18, <2>2, <2>3, <2>4, <2>5
<1> QED BY <1>17, <1>18

\* r is s and the message m of S after it.
Longer(r, s, m, S) == s \in Seq(S) /\ m \in S /\ r = Append(s, m)

LEMMA SaidMore ==
  ASSUME NEW S, NEW s, NEW m, NEW a, NEW r, Longer(r, s, m, S)
  PROVE  By(r, a) = IF m.from = a THEN Append(By(s, a), Len(s) + 1) ELSE By(s, a)
<1> s \in Seq(S) /\ m \in S /\ r = Append(s, m)
  BY DEF Longer
<1>1. PICK n \in Nat : n = Len(s)
  BY LenProperties
<1>2. /\ DOMAIN s = 1 .. n /\ DOMAIN r = 1 .. n + 1
      /\ \A i \in 1 .. n : r[i] = s[i]
      /\ r[n + 1] = m
  BY <1>1, LenProperties
<1>3. PICK I : I = PlacesOf(s, a)
  OBVIOUS
<1>4. I \in SUBSET (1 .. n)
  BY <1>2, <1>3 DEF PlacesOf
<1>5. PICK f : f = [i \in 1 .. n |-> i]
  OBVIOUS
<1>6. PICK g : g = [i \in 1 .. n + 1 |-> i]
  OBVIOUS
<1>7. f \in Seq(Nat) /\ Len(f) = n /\ n + 1 \in Nat /\ I \in SUBSET (DOMAIN f) /\ g = Append(f, n + 1)
  BY <1>4, <1>5, <1>6
<1>8. /\ Keeping(Append(f, n + 1), I) = Keeping(f, I)
      /\ Keeping(Append(f, n + 1), I \cup {Len(f) + 1}) = Append(Keeping(f, I), n + 1)
  <2>1. PICK e \in Nat : e = n + 1
    BY <1>7
  <2>2. /\ Keeping(Append(f, e), I) = Keeping(f, I)
        /\ Keeping(Append(f, e), I \cup {Len(f) + 1}) = Append(Keeping(f, I), e)
    <3>1. PICK K : K = Nat
      OBVIOUS
    <3>2. e \in K /\ f \in Seq(K) /\ I \in SUBSET (DOMAIN f)
      BY <1>7, <2>1, <3>1
    <3> QED BY ONLY <3>2, KeepingAppend
  <2> QED BY <2>1, <2>2
<1>9. By(s, a) = Keeping(f, I)
  BY <1>2, <1>3, <1>5 DEF By
<1>10. By(r, a) = Keeping(g, PlacesOf(r, a))
  BY <1>2, <1>6 DEF By
<1>11. PlacesOf(r, a) = IF m.from = a THEN I \cup {n + 1} ELSE I
  <2>1. \A i \in 1 .. n + 1 : i \in PlacesOf(r, a) <=> r[i].from = a
    BY <1>2 DEF PlacesOf
  <2>2. \A i \in 1 .. n : i \in I <=> s[i].from = a
    BY <1>2, <1>3 DEF PlacesOf
  <2>3. PlacesOf(r, a) \subseteq 1 .. n + 1
    BY <1>2 DEF PlacesOf
  <2>4. \A i \in 1 .. n + 1 : i = n + 1 \/ i \in 1 .. n
    OBVIOUS
  <2>5. PICK P : P = PlacesOf(r, a)
    OBVIOUS
  <2>6. \A i \in 1 .. n + 1 : i \in P <=> (i \in I \/ (i = n + 1 /\ m.from = a))
    <3> TAKE i \in 1 .. n + 1
    <3>1. CASE i = n + 1
      <4>1. i \notin I
        BY <1>4, <3>1
      <4> QED BY <1>2, <2>1, <2>5, <3>1, <4>1
    <3>2. CASE i # n + 1
      <4>1. i \in 1 .. n /\ r[i] = s[i]
        BY <1>2, <2>4, <3>2
      <4> QED BY <2>1, <2>2, <2>5, <3>2, <4>1
    <3> QED BY <3>1, <3>2
  <2>7. P \subseteq 1 .. n + 1 /\ I \subseteq 1 .. n + 1 /\ n + 1 \in 1 .. n + 1
    BY <1>4, <2>3, <2>5
  <2>8. P = IF m.from = a THEN I \cup {n + 1} ELSE I
    BY ONLY <2>6, <2>7
  <2> QED BY <2>5, <2>8
<1> QED BY <1>1, <1>7, <1>8, <1>9, <1>10, <1>11

(***************************************************************************)
(* The discussions.                                                        *)
(***************************************************************************)
DebateCount == [messages : Nat, deltas : Nat, books : Seq(Books)]

DebTypes ==
  /\ script \in Scripts \cup {"prompt"} /\ running \in {"new", "on", "dead"}
  /\ names \in Seq(Nat) /\ Len(names) <= MaxMade
  /\ Team(roster) /\ Len(roster) <= AgentLimit
  /\ Range(roster) \subseteq everyone /\ everyone \subseteq 1 .. Len(names)
  /\ said \in Seq(Talk(Len(names)))
  /\ heard \in [Made -> Seq(1 .. Len(said))]
  /\ netLog \in Seq([who : 0 .. Len(names), what : 0 .. Len(said)])
  /\ monitor \in [{Human} \cup Made -> DebateCount]

\* An agenda is about those who are there, and about books they have read.
Allowed(A) == IF script \in {"dual", "dualDelta"} THEN HaveRead(A, names) ELSE AnyBook(A)
Planned == agenda \in Seq(TurnsOn(Range(roster), Allowed(Range(roster))))

\* Before a script starts there is nothing.
NoCount == [messages |-> 0, deltas |-> 0, books |-> <<>>]
Fresh ==
  script \in Scripts /\ running = "new" =>
    /\ roster = <<>> /\ names = <<>> /\ said = <<>>
    /\ \A a \in Made : monitor[a] = NoCount

\* A script goes on to the end: whom a turn answers has spoken by then, and
\* what was said and what is still to say are the turns of an agent.
Spoken == {a \in 0 .. Len(names) : LastMessage(a) # 0}
TurnsLeft(a) == Cardinality(TurnsOf(agenda, a))
Going ==
  script \in Scripts /\ running = "on" =>
    /\ ReadyAfter(agenda, Spoken)
    /\ \A a \in Range(roster) : TurnsLeft(a) + Len(SaidBy(a)) = Took(a)

DebInv ==
  /\ DebTypes /\ Planned /\ Fresh /\ Going
  /\ NobodyAnswersItself /\ Paired /\ MonitorExact /\ Newest

LEMMA DebInvSafe ==
  ASSUME DebInv
  PROVE  DebateTypeOK /\ DebateSound
<1>1. DebTypes /\ Planned /\ Going
  BY DEF DebInv
<1>2. PICK n \in Nat : n = Len(names)
  BY <1>1, LenProperties DEF DebTypes
<1>3. DOMAIN names = 1 .. n /\ DOMAIN said = 1 .. Len(said)
  BY <1>1, <1>2, LenProperties DEF DebTypes
<1>4. PICK A : A = Range(roster)
  OBVIOUS
<1>5. A \subseteq everyone /\ everyone \subseteq 1 .. n
  BY <1>1, <1>2, <1>4 DEF DebTypes
<1>6. EveryoneAnswers
  <2> SUFFICES ASSUME script \in Scripts, running = "on", agenda = <<>>, NEW a \in A
               PROVE  Len(SaidBy(a)) = Took(a)
    BY <1>4 DEF EveryoneAnswers
  <2>1. TurnsLeft(a) + Len(SaidBy(a)) = Took(a)
    BY <1>1, <1>4 DEF Going
  <2>2. TurnsLeft(a) = 0
    BY NoTurns DEF TurnsLeft
  <2>3. Len(SaidBy(a)) \in Nat
    <3>1. said \in Seq(Talk(n))
      BY <1>1, <1>2 DEF DebTypes
    <3>2. Len(By(said, a)) \in Nat
      BY <3>1, SaidIs
    <3> QED BY <3>2, SaidIsBy
  <2> QED BY <2>1, <2>2, <2>3
<1>7. DebateTypeOK
  <2>1. \A t \in Range(agenda) : t.who \in everyone \cup {Human}
    <3>1. PICK S : S = TurnsOn(A, Allowed(A))
      OBVIOUS
    <3>2. agenda \in Seq(S)
      BY <1>1, <1>4, <3>1 DEF Planned
    <3>3. \A k \in DOMAIN agenda : agenda[k] \in S
      BY <3>2, LenProperties, ElementOfSeq
    <3>4. \A t \in S : t.who \in A \cup {Human}
      BY <3>1 DEF TurnsOn
    <3> QED BY <1>5, <3>3, <3>4 DEF Range
  <2>2. \A m \in Range(said) : m.from \in everyone \cup {Human} \cup DOMAIN names
    <3>1. said \in Seq(Talk(n))
      BY <1>1, <1>2 DEF DebTypes
    <3>2. \A k \in DOMAIN said : said[k] \in Talk(n)
      BY <3>1, LenProperties, ElementOfSeq
    <3>3. \A m \in Talk(n) : m.from \in {Human} \cup 1 .. n
      BY DEF Talk, Human
    <3> QED BY <1>3, <3>2, <3>3 DEF Range
  <2>3. \A a \in Made : heard[a] \in Seq(DOMAIN said)
    BY <1>1, <1>3 DEF DebTypes
  <2>4. Range(netLog) \subseteq [who : DOMAIN names \cup {Human}, what : 0..Len(said)]
    <3>1. PICK S : S = [who : 0 .. n, what : 0 .. Len(said)]
      OBVIOUS
    <3>2. netLog \in Seq(S)
      BY <1>1, <1>2, <3>1 DEF DebTypes
    <3>3. \A k \in DOMAIN netLog : netLog[k] \in S
      BY <3>2, LenProperties, ElementOfSeq
    <3>4. 0 .. n \subseteq DOMAIN names \cup {Human}
      BY <1>3 DEF Human
    <3> QED BY <3>1, <3>3, <3>4 DEF Range
  <2>5. roster \in Seq(DOMAIN names)
    <3>1. roster \in Seq(A)
      BY <1>1, <1>4, TeamIs DEF DebTypes
    <3>2. A \subseteq DOMAIN names
      BY <1>3, <1>5
    <3> QED BY <3>1, <3>2, SeqMonotonic
  <2>6. /\ script \in Scripts \cup {"prompt"} /\ running \in {"new", "on", "dead"}
        /\ Len(roster) <= AgentLimit /\ Range(roster) \subseteq everyone
    BY <1>1 DEF DebTypes
  <2> QED BY <1>3, <1>5, <2>1, <2>2, <2>3, <2>4, <2>5, <2>6 DEF DebateTypeOK
<1> QED BY <1>6, <1>7 DEF DebInv, DebateSound

LEMMA DebStarts ==
  ASSUME DebateInit
  PROVE  DebInv
<1>1. /\ script \in Scripts \cup {"prompt"} /\ running = "new"
      /\ roster = <<>> /\ everyone = {} /\ names = <<>>
      /\ agenda = <<>> /\ said = <<>> /\ netLog = <<>>
      /\ heard = [a \in Made |-> <<>>]
      /\ monitor = [a \in {Human} \cup Made |-> NoCount]
  BY DEF DebateInit, NoCount
<1>2. /\ DOMAIN roster = {} /\ Len(roster) = 0 /\ Len(names) = 0 /\ Len(said) = 0
      /\ DOMAIN said = {} /\ Range(roster) = {}
  BY <1>1 DEF Range
<1>3. DebTypes
  <2>1. \A S : <<>> \in Seq(S)
    BY EmptySeq
  <2>2. Team(roster)
    BY <1>1, <1>2, <2>1 DEF Team
  <2>3. NoCount \in DebateCount
    BY <2>1 DEF NoCount, DebateCount
  <2>4. 0 <= MaxMade /\ 0 <= AgentLimit
    BY DebateAssumption
  <2>5. heard \in [Made -> Seq(1 .. Len(said))]
    <3>1. PICK S : S = Seq(1 .. Len(said))
      OBVIOUS
    <3>2. <<>> \in S
      BY <2>1, <3>1
    <3> QED BY <1>1, <3>1, <3>2
  <2>6. monitor \in [{Human} \cup Made -> DebateCount]
    BY <1>1, <2>3
  <2> QED BY <1>1, <1>2, <2>1, <2>2, <2>4, <2>5, <2>6 DEF DebTypes
<1>4. Planned
  BY <1>1, EmptySeq DEF Planned
<1>5. Fresh /\ Going
  BY <1>1 DEF Fresh, Going
<1>6. NobodyAnswersItself /\ Newest /\ MonitorExact
  BY <1>2 DEF NobodyAnswersItself, Newest, MonitorExact
<1>7. Paired
  <2> SUFFICES ASSUME NEW a \in Made
               PROVE  /\ Len(heard[a]) = 2 * Len(SaidBy(a)) + (Len(heard[a]) % 2)
                      /\ Len(heard[a]) % 2 # 1 /\ DOMAIN SaidBy(a) = {}
    BY DEF Paired
  <2>1. PICK S : S = Talk(0)
    OBVIOUS
  <2>2. said \in Seq(S)
    BY <1>1, EmptySeq
  <2>3. By(said, a) = <<>>
    <3>1. PlacesOf(said, a) = {}
      BY <1>2 DEF PlacesOf
    <3> QED BY <2>2, <3>1, SaidIs
  <2>4. SaidBy(a) = <<>>
    BY <2>3, SaidIsBy
  <2>5. heard[a] = <<>>
    BY <1>1
  <2>6. Len(<<>>) = 0 /\ 0 % 2 = 0 /\ 2 * 0 + 0 = 0
    OBVIOUS
  <2> QED BY <2>4, <2>5, <2>6
<1> QED BY <1>3, <1>4, <1>5, <1>6, <1>7 DEF DebInv

\* Nobody said or heard anything, and the program goes on.
LEMMA PairedKept ==
  ASSUME Paired, running # "dead", said' = said, heard' = heard
  PROVE  Paired'
<1>1. \A a : SaidBy(a)' = SaidBy(a)
  BY DEF SaidBy
<1>2. ASSUME NEW a \in Made
      PROVE  /\ Len(heard[a]) = 2 * Len(SaidBy(a)) + (Len(heard[a]) % 2)
             /\ Len(heard[a]) % 2 # 1
             /\ \A i \in DOMAIN SaidBy(a) :
                  heard[a][2 * i] = SaidBy(a)[i] /\ heard[a][2 * i - 1] = said[SaidBy(a)[i]].answers
  BY <1>2 DEF Paired
<1> QED BY <1>1, <1>2 DEF Paired

LEMMA DebFails ==
  ASSUME DebInv, running = "on", RespondFails
  PROVE  DebInv'
<1>1. PICK a : a = Head(agenda).who
  OBVIOUS
<1>2. PICK m : m = LastMessage(Head(agenda).hears)
  OBVIOUS
<1>3. /\ agenda # <<>> /\ a # Human /\ m # 0 /\ running' = "dead"
      /\ heard' = [heard EXCEPT ![a] = Append(@, m)]
      /\ UNCHANGED <<script, roster, everyone, names, agenda, said, netLog, monitor>>
  BY <1>1, <1>2 DEF RespondFails
<1>4. DebTypes /\ Planned /\ Fresh /\ NobodyAnswersItself /\ Paired /\ MonitorExact /\ Newest
  BY DEF DebInv
<1>5. PICK n \in Nat : n = Len(names)
  BY <1>4, LenProperties DEF DebTypes
<1>6. PICK u \in Nat : u = Len(said)
  BY <1>4, LenProperties DEF DebTypes
<1>7. a \in Made /\ m \in 1 .. u
  <2>1. PICK A : A = Range(roster)
    OBVIOUS
  <2>2. PICK S : S = TurnsOn(A, Allowed(A))
    OBVIOUS
  <2>3. Head(agenda) \in S
    BY <1>3, <1>4, <2>1, <2>2, HeadTailProperties DEF Planned
  <2>4. a \in A
    BY <1>1, <1>3, <2>2, <2>3 DEF TurnsOn
  <2>5. A \subseteq 1 .. n /\ n <= MaxMade /\ MaxMade \in Nat
    BY <1>4, <1>5, <2>1, DebateAssumption DEF DebTypes
  <2>6. said \in Seq(Talk(n))
    BY <1>4, <1>5 DEF DebTypes
  <2>7. m \in DOMAIN said
    <3>1. PICK b : b = Head(agenda).hears
      OBVIOUS
    <3>2. LastOf(said, b) # 0
      BY <1>2, <1>3, <3>1, SaidIsBy
    <3>3. LastOf(said, b) \in PlacesOf(said, b)
      BY <2>6, <3>2, SaidIs
    <3> QED BY <1>2, <3>1, <3>3, SaidIsBy DEF PlacesOf
  <2>8. DOMAIN said = 1 .. u
    BY <1>6, <2>6, LenProperties
  <2> QED BY <2>4, <2>5, <2>7, <2>8 DEF Made
<1>8. /\ heard \in [Made -> Seq(1 .. u)] /\ heard[a] \in Seq(1 .. u)
  BY <1>4, <1>6, <1>7 DEF DebTypes
<1>9. DebTypes'
  <2>1. PICK S : S = Seq(1 .. u)
    OBVIOUS
  <2>2. Append(heard[a], m) \in S
    BY <1>7, <1>8, <2>1
  <2>3. heard' \in [Made -> S]
    BY <1>3, <1>8, <2>1, <2>2
  <2> QED BY <1>3, <1>4, <1>6, <2>1, <2>3 DEF DebTypes
<1>10. Paired'
  <2>1. \A b : SaidBy(b)' = SaidBy(b)
    BY <1>3 DEF SaidBy
  <2> SUFFICES ASSUME NEW b \in Made
               PROVE  /\ Len(heard'[b]) = 2 * Len(SaidBy(b)) + (Len(heard'[b]) % 2)
                      /\ \A i \in DOMAIN SaidBy(b) :
                           /\ heard'[b][2 * i] = SaidBy(b)[i]
                           /\ heard'[b][2 * i - 1] = said[SaidBy(b)[i]].answers
    BY <1>3, <2>1 DEF Paired
  <2>2. /\ Len(heard[b]) = 2 * Len(SaidBy(b)) + (Len(heard[b]) % 2)
        /\ Len(heard[b]) % 2 = 1 => running = "dead"
        /\ \A i \in DOMAIN SaidBy(b) :
             heard[b][2 * i] = SaidBy(b)[i] /\ heard[b][2 * i - 1] = said[SaidBy(b)[i]].answers
    BY <1>4 DEF Paired
  <2>3. CASE b # a
    BY <1>3, <1>8, <2>2, <2>3
  <2>4. CASE b = a
    <3>1. PICK h \in Seq(1 .. u) : h = heard[a]
      BY <1>8
    <3>2. PICK l \in Nat : l = Len(SaidBy(a)) /\ DOMAIN SaidBy(a) = 1 .. l
      <4>1. said \in Seq(Talk(n))
        BY <1>4, <1>5 DEF DebTypes
      <4>2. Len(By(said, a)) \in Nat /\ DOMAIN By(said, a) = 1 .. Len(By(said, a))
        BY <4>1, SaidIs
      <4> QED BY <4>2, SaidIsBy
    <3>3. Len(h) = 2 * l
      <4>1. PICK k \in Nat : k = Len(h)
        BY LenProperties
      <4>2. Len(heard[a]) % 2 # 1
        <5>1. Len(heard[a]) % 2 = 1 => running = "dead"
          BY <2>2, <2>4
        <5>2. "on" # "dead"
          OBVIOUS
        <5> QED BY <5>1, <5>2
      <4>3. k % 2 # 1
        BY <3>1, <4>1, <4>2
      <4>4. k % 2 \in 0 .. 1
        OBVIOUS
      <4>5. k % 2 = 0
        BY <4>3, <4>4
      <4>6. k = 2 * l + (k % 2)
        BY ONLY <2>2, <2>4, <3>1, <3>2, <4>1
      <4>7. k = 2 * l
        BY <4>5, <4>6
      <4> QED BY <4>1, <4>7
    <3>4. heard'[a] = Append(h, m)
      BY <1>3, <1>7, <1>8, <3>1
    <3>5. PICK g : g = Append(h, m)
      OBVIOUS
    <3>6. Len(g) = 2 * l + 1 /\ \A j \in 1 .. 2 * l : g[j] = h[j]
      BY <1>7, <3>3, <3>5
    <3>7. (2 * l + 1) % 2 = 1
      OBVIOUS
    <3>8. \A i \in 1 .. l : 2 * i \in 1 .. 2 * l /\ 2 * i - 1 \in 1 .. 2 * l
      OBVIOUS
    <3>9. \A i \in 1 .. l : g[2 * i] = h[2 * i] /\ g[2 * i - 1] = h[2 * i - 1]
      BY <3>6, <3>8
    <3> QED BY <2>2, <2>4, <3>1, <3>2, <3>4, <3>5, <3>6, <3>7, <3>9
  <2> QED BY <2>3, <2>4
<1>11. Planned' /\ Fresh' /\ Going' /\ NobodyAnswersItself' /\ MonitorExact' /\ Newest'
  <2>1. Planned'
    BY <1>3, <1>4 DEF Planned, Allowed
  <2>2. Fresh' /\ Going'
    BY <1>3 DEF Fresh, Going
  <2>3. NobodyAnswersItself' /\ Newest'
    BY <1>3, <1>4 DEF NobodyAnswersItself, Newest
  <2>4. MonitorExact'
    BY <1>3, <1>4 DEF MonitorExact, SaidBy
  <2> QED BY <2>1, <2>2, <2>3, <2>4
<1> QED BY <1>9, <1>10, <1>11 DEF DebInv
\* The head of an agenda is a turn, and the rest is an agenda.
LEMMA AgendaHead ==
  ASSUME NEW A, NEW B, NEW x \in Seq(TurnsOn(A, B)), x # <<>>
  PROVE  /\ Head(x) \in TurnsOn(A, B) /\ Head(x) = x[1] /\ 1 \in DOMAIN x
         /\ Tail(x) \in Seq(TurnsOn(A, B))
<1>1. PICK S : S = TurnsOn(A, B)
  OBVIOUS
<1>2. x \in Seq(S)
  BY <1>1
<1>3. Head(x) \in S /\ Tail(x) \in Seq(S)
  BY <1>2, HeadTailProperties
<1>4. Head(x) = x[1] /\ 1 \in DOMAIN x
  BY <1>2, LenProperties, EmptySeq
<1> QED BY <1>1, <1>3, <1>4

\* A script has no turn that answers nobody.
LEMMA TurnReady ==
  ASSUME DebTypes, Planned, Going, script \in Scripts, running = "on",
         agenda # <<>>, Head(agenda).who # Human
  PROVE  LastMessage(Head(agenda).hears) # 0
<1>1. PICK A, B : A = Range(roster) /\ B = Allowed(A)
  OBVIOUS
<1>2. agenda \in Seq(TurnsOn(A, B))
  BY <1>1 DEF Planned
<1>3. Head(agenda) = agenda[1] /\ 1 \in DOMAIN agenda
  BY <1>2, AgendaHead
<1>4. ReadyAfter(agenda, Spoken)
  BY DEF Going
<1>5. agenda[1].hears \in Spoken \/ \E l \in 1 .. 1 - 1 : agenda[l].who = agenda[1].hears
  BY <1>3, <1>4 DEF ReadyAfter
<1>6. 1 .. 1 - 1 = {}
  OBVIOUS
<1>7. agenda[1].hears \in Spoken
  BY <1>5, <1>6
<1> QED BY <1>3, <1>7 DEF Spoken

LEMMA DebSkip ==
  ASSUME DebInv, running = "on", Skip
  PROVE  DebInv'
<1>1. /\ agenda # <<>> /\ Head(agenda).who # Human /\ LastMessage(Head(agenda).hears) = 0
      /\ agenda' = Tail(agenda)
      /\ UNCHANGED <<script, running, roster, everyone, names, said, heard, netLog, monitor>>
  BY DEF Skip
<1>2. DebTypes /\ Planned /\ Going /\ NobodyAnswersItself /\ Paired /\ Newest
  BY DEF DebInv
<1>3. script \notin Scripts
  BY <1>1, <1>2, TurnReady
<1>4. DebTypes' /\ NobodyAnswersItself' /\ Paired' /\ Newest'
  <2>1. DebTypes'
    BY <1>1, <1>2 DEF DebTypes
  <2>2. NobodyAnswersItself' /\ Newest'
    BY <1>1, <1>2 DEF NobodyAnswersItself, Newest
  <2>3. Paired'
    <3>1. running # "dead"
      OBVIOUS
    <3> QED BY <1>1, <1>2, <3>1, PairedKept
  <2> QED BY <2>1, <2>2, <2>3
<1>5. Fresh' /\ Going' /\ MonitorExact'
  BY <1>1, <1>3 DEF Fresh, Going, MonitorExact
<1>6. Planned'
  <2>1. PICK A, B : A = Range(roster) /\ B = Allowed(A)
    OBVIOUS
  <2>2. A = Range(roster)' /\ B = Allowed(A)'
    BY <1>1, <2>1 DEF Allowed
  <2>3. agenda \in Seq(TurnsOn(A, B))
    BY <1>2, <2>1 DEF Planned
  <2>4. agenda' \in Seq(TurnsOn(A, B))
    BY <1>1, <2>3, AgendaHead
  <2> QED BY <2>2, <2>4 DEF Planned
<1> QED BY <1>4, <1>5, <1>6 DEF DebInv

LEMMA DebCommand ==
  ASSUME DebInv, Command
  PROVE  DebInv'
<1>1. /\ script = "prompt" /\ running # "dead" /\ running' = "on"
      /\ \/ agenda' = InjectAgenda /\ roster # <<>>
         \/ \E a \in Range(roster) : agenda' = TalkAgenda(a)
         \/ agenda' = ChatAgenda /\ ChatAllowed
      /\ UNCHANGED <<script, roster, everyone, names, said, heard, netLog, monitor>>
  BY DEF Command, AtPrompt
<1>2. DebTypes /\ NobodyAnswersItself /\ Paired /\ Newest
  BY DEF DebInv
<1>3. script \notin Scripts
  BY <1>1 DEF Scripts
<1>4. DebTypes' /\ NobodyAnswersItself' /\ Paired' /\ Newest'
  <2>1. DebTypes'
    BY <1>1, <1>2 DEF DebTypes
  <2>2. NobodyAnswersItself' /\ Newest'
    BY <1>1, <1>2 DEF NobodyAnswersItself, Newest
  <2>3. Paired'
    BY <1>1, <1>2, PairedKept
  <2> QED BY <2>1, <2>2, <2>3
<1>5. Fresh' /\ Going' /\ MonitorExact'
  BY <1>1, <1>3 DEF Fresh, Going, MonitorExact
<1>6. Planned'
  <2>1. PICK A, B : A = Range(roster) /\ B = AnyBook(A)
    OBVIOUS
  <2>2. A = Range(roster)' /\ B = Allowed(A)'
    BY <1>1, <2>1 DEF Allowed
  <2>3. Team(roster)
    BY <1>2 DEF DebTypes
  <2>4. /\ InjectAgenda \in Seq(TurnsOn(A, B))
        /\ \A a \in A : TalkAgenda(a) \in Seq(TurnsOn(A, B))
        /\ 2 <= Len(roster) => ChatAgenda \in Seq(TurnsOn(A, B))
    BY <2>1, <2>3, CommandsFit
  <2>5. ChatAllowed => 2 <= Len(roster)
    BY <2>3, TeamIs DEF ChatAllowed
  <2>6. agenda' \in Seq(TurnsOn(A, B))
    BY <1>1, <2>1, <2>4, <2>5
  <2> QED BY <2>2, <2>6 DEF Planned
<1> QED BY <1>4, <1>5, <1>6 DEF DebInv

\* The agents, their names and what is in the log.
Peopled ==
  /\ names \in Seq(Nat) /\ Len(names) <= MaxMade
  /\ Team(roster) /\ Len(roster) <= AgentLimit
  /\ Range(roster) \subseteq everyone /\ everyone \subseteq 1 .. Len(names)
  /\ netLog \in Seq([who : 0 .. Len(names), what : 0 .. Len(said)])

LEMMA LogLonger ==
  ASSUME NEW k \in Nat, NEW l \in Nat, k <= l, NEW u \in Nat,
         NEW s \in Seq([who : 0 .. k, what : 0 .. u])
  PROVE  s \in Seq([who : 0 .. l, what : 0 .. u])
<1>1. 0 .. k \subseteq 0 .. l
  OBVIOUS
<1>2. PICK S, T : S = [who : 0 .. k, what : 0 .. u] /\ T = [who : 0 .. l, what : 0 .. u]
  OBVIOUS
<1>3. S \subseteq T
  BY <1>1, <1>2
<1>4. s \in Seq(S)
  BY <1>2
<1>5. s \in Seq(T)
  BY <1>3, <1>4, SeqMonotonic
<1> QED BY <1>2, <1>5

LEMMA LoadFits ==
  ASSUME Peopled, said \in Seq(Talk(Len(names))), LoadScenario, said' = said
  PROVE  Peopled' /\ Len(names) <= Len(names') /\ Len(names') = Len(names) + ScenarioSize
<1>1. PICK k \in Nat : k = Len(names)
  BY LenProperties DEF Peopled
<1>2. PICK c \in Nat : c = ScenarioSize /\ 2 <= c /\ c <= AgentLimit /\ AgentLimit \in Nat
  BY DebateAssumption
<1>3. PICK u \in Nat : u = Len(said)
  BY LenProperties
<1>4. PICK x : x = Scenario
  OBVIOUS
<1>5. x = [i \in 1 .. c |-> k + i]
  BY <1>1, <1>2, <1>4 DEF Scenario
<1>6. /\ k + c <= MaxMade /\ roster' = x /\ everyone' = everyone \cup Range(x)
      /\ names' = names \o [i \in 1 .. c |-> i] /\ netLog' = netLog \o CogonZero(x)
  BY <1>1, <1>2, <1>4 DEF LoadScenario
<1>7. names' \in Seq(Nat) /\ Len(names') = k + c
  <2>1. PICK y : y = [i \in 1 .. c |-> i]
    OBVIOUS
  <2>2. y \in Seq(Nat) /\ Len(y) = c
    BY <2>1
  <2>3. names \in Seq(Nat)
    BY DEF Peopled
  <2>4. names \o y \in Seq(Nat) /\ Len(names \o y) = Len(names) + Len(y)
    BY <2>2, <2>3, ConcatProperties
  <2> QED BY <1>1, <1>6, <2>1, <2>2, <2>4
<1>8. Team(x) /\ Len(x) = c /\ Range(x) \subseteq 1 .. k + c /\ DOMAIN x = 1 .. c
  <2>1. x \in Seq(Nat \ {0}) /\ Len(x) = c /\ DOMAIN x = 1 .. c
    BY <1>5
  <2>2. \A i, j \in DOMAIN x : x[i] = x[j] => i = j
    BY <1>5
  <2>3. Range(x) \subseteq 1 .. k + c
    BY <1>5 DEF Range
  <2> QED BY <2>1, <2>2, <2>3 DEF Team
<1>9. everyone' \subseteq 1 .. k + c /\ Range(roster') \subseteq everyone'
  <2>1. everyone \subseteq 1 .. k
    BY <1>1 DEF Peopled
  <2>2. 1 .. k \subseteq 1 .. k + c
    OBVIOUS
  <2> QED BY <1>6, <1>8, <2>1, <2>2
<1>10. netLog' \in Seq([who : 0 .. k + c, what : 0 .. u])
  <2>1. PICK S : S = [who : 0 .. k + c, what : 0 .. u]
    OBVIOUS
  <2>2. netLog \in Seq(S)
    <3>1. netLog \in Seq([who : 0 .. k, what : 0 .. u])
      BY <1>1, <1>3 DEF Peopled
    <3>2. k + c \in Nat /\ k <= k + c
      OBVIOUS
    <3> QED BY <2>1, <3>1, <3>2, LogLonger
  <2>3. \A i \in 1 .. c : [who |-> x[i], what |-> 0] \in S
    BY <1>5, <2>1
  <2>4. CogonZero(x) = [i \in 1 .. c |-> [who |-> x[i], what |-> 0]]
    BY <1>8 DEF CogonZero
  <2>5. CogonZero(x) \in Seq(S)
    BY <2>3, <2>4
  <2>6. netLog \o CogonZero(x) \in Seq(S)
    BY <2>2, <2>5, ConcatProperties
  <2> QED BY <1>6, <2>1, <2>6
<1>11. Len(said') = u
  BY <1>3
<1> QED BY <1>1, <1>2, <1>6, <1>7, <1>8, <1>9, <1>10, <1>11 DEF Peopled

LEMMA AddFits ==
  ASSUME Peopled, said \in Seq(Talk(Len(names))), NEW name \in Nat, AddAgent(name), said' = said
  PROVE  Peopled' /\ Len(names) <= Len(names')
<1>1. PICK k \in Nat : k = Len(names)
  BY LenProperties DEF Peopled
<1>2. MaxMade \in Nat /\ AgentLimit \in Nat
  BY DebateAssumption
<1>3. PICK u \in Nat : u = Len(said)
  BY LenProperties
<1>4. /\ k < MaxMade /\ Len(roster) < AgentLimit /\ names' = Append(names, name)
      /\ roster' = Append(roster, k + 1) /\ everyone' = everyone \cup {k + 1} /\ netLog' = netLog
  BY <1>1 DEF AddAgent
<1>5. names' \in Seq(Nat) /\ Len(names') = k + 1
  BY <1>1, <1>4 DEF Peopled
<1>6. PICK A : A = Range(roster)
  OBVIOUS
<1>7. /\ roster \in Seq(Nat \ {0}) /\ Len(roster) \in Nat /\ DOMAIN roster = 1 .. Len(roster)
      /\ \A i, j \in DOMAIN roster : roster[i] = roster[j] => i = j
      /\ \A i \in DOMAIN roster : roster[i] \in A
      /\ A \subseteq everyone /\ everyone \subseteq 1 .. k
  <2>1. Team(roster)
    BY DEF Peopled
  <2> QED BY <1>1, <1>6, <2>1, TeamIs DEF Peopled, Team, Range
<1>8. PICK l \in Nat : l = Len(roster)
  BY <1>7
<1>9. PICK y : y = Append(roster, k + 1)
  OBVIOUS
<1>10. /\ y \in Seq(Nat \ {0}) /\ Len(y) = l + 1 /\ DOMAIN y = 1 .. l + 1
       /\ \A i \in 1 .. l : y[i] = roster[i] /\ roster[i] \in 1 .. k
       /\ y[l + 1] = k + 1
  <2>1. roster \in Seq(Nat \ {0}) /\ k + 1 \in Nat \ {0} /\ Len(roster) = l
    BY <1>7, <1>8
  <2>2. y \in Seq(Nat \ {0}) /\ Len(y) = l + 1
    BY <1>9, <2>1
  <2>3. DOMAIN y = 1 .. l + 1
    BY <2>2, LenProperties
  <2>4. (\A i \in 1 .. l : y[i] = roster[i]) /\ y[l + 1] = k + 1
    BY <1>9, <2>1, AppendProperties
  <2>5. \A i \in 1 .. l : roster[i] \in 1 .. k
    BY <1>7, <1>8
  <2> QED BY <2>2, <2>3, <2>4, <2>5
<1>11. \A i, j \in 1 .. l + 1 : y[i] = y[j] => i = j
  <2> SUFFICES ASSUME NEW i \in 1 .. l + 1, NEW j \in 1 .. l + 1, y[i] = y[j]
               PROVE  i = j
    OBVIOUS
  <2>1. CASE i \in 1 .. l /\ j \in 1 .. l
    <3>1. roster[i] = roster[j] /\ i \in DOMAIN roster /\ j \in DOMAIN roster
      BY <1>7, <1>8, <1>10, <2>1
    <3> QED BY <1>7, <3>1
  <2>2. CASE i = l + 1 /\ j \in 1 .. l
    BY <1>10, <2>2
  <2>3. CASE j = l + 1 /\ i \in 1 .. l
    BY <1>10, <2>3
  <2> QED BY <2>1, <2>2, <2>3
<1>12. Team(y)
  BY <1>10, <1>11 DEF Team
<1>13. Range(y) \subseteq everyone \cup {k + 1}
  <2> SUFFICES ASSUME NEW i \in 1 .. l + 1
               PROVE  y[i] \in everyone \cup {k + 1}
    BY <1>10 DEF Range
  <2>1. CASE i \in 1 .. l
    <3>1. y[i] = roster[i] /\ roster[i] \in A
      BY <1>7, <1>8, <1>10, <2>1
    <3> QED BY <1>7, <3>1
  <2>2. CASE i = l + 1
    BY <1>10, <2>2
  <2> QED BY <2>1, <2>2
<1>14. everyone' \subseteq 1 .. k + 1
  BY <1>4, <1>7
<1>15. netLog' \in Seq([who : 0 .. k + 1, what : 0 .. u])
  <2>1. netLog \in Seq([who : 0 .. k, what : 0 .. u])
    BY <1>1, <1>3 DEF Peopled
  <2>2. k + 1 \in Nat /\ k <= k + 1
    OBVIOUS
  <2> QED BY <1>4, <2>1, <2>2, LogLonger
<1>16. Len(roster') <= AgentLimit /\ Len(names') <= MaxMade /\ Len(said') = u /\ k <= k + 1
  BY <1>2, <1>3, <1>4, <1>5, <1>8, <1>9, <1>10
<1> QED BY <1>1, <1>4, <1>5, <1>9, <1>12, <1>13, <1>14, <1>15, <1>16 DEF Peopled

LEMMA RemoveFits ==
  ASSUME Peopled, said \in Seq(Talk(Len(names))), NEW name, RemoveAgent(name), said' = said
  PROVE  Peopled' /\ Len(names) <= Len(names')
<1>1. PICK k \in Nat : k = Len(names)
  BY LenProperties DEF Peopled
<1>2. MaxMade \in Nat /\ AgentLimit \in Nat
  BY DebateAssumption
<1>3. PICK f : f = FirstNamed(name)
  OBVIOUS
<1>4. PICK I : I = {i \in DOMAIN roster : roster[i] # f}
  OBVIOUS
<1>5. /\ roster' = Keeping(roster, I) /\ everyone' = everyone \ {f}
      /\ names' = names /\ netLog' = netLog
  BY <1>3, <1>4 DEF RemoveAgent
<1>6. PICK A : A = Range(roster)
  OBVIOUS
<1>7. /\ roster \in Seq(Nat \ {0}) /\ roster \in Seq(A) /\ Len(roster) \in Nat
      /\ DOMAIN roster = 1 .. Len(roster)
      /\ \A i, j \in DOMAIN roster : roster[i] = roster[j] => i = j
      /\ \A i \in DOMAIN roster : roster[i] \in A
      /\ A \subseteq everyone /\ A \subseteq Nat \ {0}
  <2>1. Team(roster)
    BY DEF Peopled
  <2>2. A \in SUBSET Nat /\ 0 \notin A
    BY <1>6, <2>1, TeamIs
  <2> QED BY <1>6, <2>1, <2>2, TeamIs DEF Peopled, Team, Range
<1>8. PICK T : T = A \ {f}
  OBVIOUS
<1>9. I \in SUBSET (DOMAIN roster) /\ \A i \in I : roster[i] \in T
  BY <1>4, <1>7, <1>8
<1>10. PICK y : y = Keeping(roster, I)
  OBVIOUS
<1>11. /\ y \in Seq(T) /\ Cardinality(I) \in Nat /\ Cardinality(I) <= Len(roster)
       /\ Len(y) = Cardinality(I) /\ DOMAIN y = 1 .. Cardinality(I)
  BY <1>7, <1>9, <1>10, KeepingIs
<1>12. \A i, j \in DOMAIN y : y[i] = y[j] => i = j
  <2>1. PICK n \in Nat : n = Len(roster) /\ DOMAIN roster = 1 .. n
    BY <1>7
  <2>2. PICK m \in Nat : m = Cardinality(I)
    BY <1>11
  <2>3. \A i \in 1 .. m : Nth(I, i) \in I /\ y[i] = roster[Nth(I, i)]
    <3> SUFFICES ASSUME NEW i \in 1 .. m
                 PROVE  Nth(I, i) \in I /\ y[i] = roster[Nth(I, i)]
      OBVIOUS
    <3>1. I \in SUBSET (1 .. n)
      BY <1>9, <2>1
    <3>2. Nth(I, i) \in I
      BY <2>2, <3>1, NthThere
    <3>3. y[i] = roster[Nth(I, i)]
      BY <1>10, <2>2 DEF Keeping
    <3> QED BY <3>2, <3>3
  <2>4. \A i, j \in 1 .. m : i < j => Nth(I, i) < Nth(I, j)
    BY <1>9, <2>1, <2>2, NthOrder
  <2>5. \A i, j \in 1 .. m : Nth(I, i) = Nth(I, j) => i = j
    <3> SUFFICES ASSUME NEW i \in 1 .. m, NEW j \in 1 .. m, Nth(I, i) = Nth(I, j), i # j
                 PROVE  FALSE
      OBVIOUS
    <3>1. Nth(I, i) \in Nat /\ Nth(I, j) \in Nat
      BY <1>9, <2>1, <2>3
    <3>2. i < j \/ j < i
      OBVIOUS
    <3> QED BY <2>4, <3>1, <3>2
  <2>6. \A i, j \in 1 .. m : y[i] = y[j] => Nth(I, i) = Nth(I, j)
    BY <1>7, <1>9, <2>3
  <2> QED BY <1>11, <2>2, <2>5, <2>6
<1>13. Team(y) /\ Range(y) \subseteq T
  <2>1. T \subseteq Nat \ {0}
    BY <1>7, <1>8
  <2>2. y \in Seq(Nat \ {0})
    BY <1>11, <2>1, SeqMonotonic
  <2>3. Range(y) \subseteq T
    <3>1. \A i \in DOMAIN y : y[i] \in T
      BY <1>11, LenProperties, ElementOfSeq
    <3> QED BY <3>1 DEF Range
  <2> QED BY <1>12, <2>2, <2>3 DEF Team
<1>14. Range(y) \subseteq everyone \ {f} /\ Len(y) <= AgentLimit
  <2>1. Len(roster) <= AgentLimit
    BY DEF Peopled
  <2>2. Len(y) <= AgentLimit
    BY <1>2, <1>7, <1>11, <2>1
  <2>3. Range(y) \subseteq everyone \ {f}
    BY <1>7, <1>8, <1>13
  <2> QED BY <2>2, <2>3
<1>15. everyone \ {f} \subseteq 1 .. Len(names)
  BY DEF Peopled
<1>16. k <= k
  OBVIOUS
<1> QED BY <1>1, <1>5, <1>10, <1>13, <1>14, <1>15, <1>16 DEF Peopled

LEMMA TypesSplit ==
  ASSUME NEW n \in Nat, n = Len(names)
  PROVE  DebTypes <=> /\ Peopled
                      /\ script \in Scripts \cup {"prompt"} /\ running \in {"new", "on", "dead"}
                      /\ said \in Seq(Talk(n)) /\ heard \in [Made -> Seq(1 .. Len(said))]
                      /\ monitor \in [{Human} \cup Made -> DebateCount]
BY DEF DebTypes, Peopled

LEMMA TalkLonger ==
  ASSUME NEW k \in Nat, NEW l \in Nat, k <= l, NEW s \in Seq(Talk(k))
  PROVE  s \in Seq(Talk(l))
<1>1. 0 .. k \subseteq 0 .. l
  OBVIOUS
<1>2. Talk(k) \subseteq Talk(l)
  BY <1>1 DEF Talk
<1> QED BY <1>2, SeqMonotonic

\* Agents come or go, and nobody says anything.
LEMMA PeopleChange ==
  ASSUME DebTypes, Peopled', script' = script, running' \in {"new", "on", "dead"},
         said' = said, heard' = heard, monitor' = monitor, Len(names) <= Len(names')
  PROVE  DebTypes'
<1>1. PICK k \in Nat : k = Len(names)
  BY LenProperties DEF DebTypes
<1>2. PICK l \in Nat : l = Len(names')
  BY LenProperties DEF Peopled
<1>3. said \in Seq(Talk(k))
  BY <1>1 DEF DebTypes
<1>4. k <= l
  BY <1>1, <1>2
<1>5. said' \in Seq(Talk(l))
  BY <1>3, <1>4, TalkLonger
<1> QED BY <1>2, <1>5 DEF DebTypes, Peopled

LEMMA DebRoster ==
  ASSUME DebInv, ChangeRoster
  PROVE  DebInv'
<1>1. /\ script = "prompt" /\ running # "dead" /\ running' = "on" /\ agenda = <<>>
      /\ \/ LoadScenario
         \/ \E name \in {1, ScenarioSize + 1} : AddAgent(name)
         \/ \E name \in Range(names) : RemoveAgent(name)
      /\ UNCHANGED <<script, agenda, said, heard, monitor>>
  BY DEF ChangeRoster, AtPrompt
<1>2. DebTypes /\ NobodyAnswersItself /\ Paired /\ Newest
  BY DEF DebInv
<1>3. script \notin Scripts
  BY <1>1 DEF Scripts
<1>4. Peopled /\ said \in Seq(Talk(Len(names)))
  BY <1>2 DEF DebTypes, Peopled
<1>5. Peopled' /\ Len(names) <= Len(names')
  <2>1. CASE LoadScenario
    BY <1>1, <1>4, <2>1, LoadFits
  <2>2. CASE \E name \in {1, ScenarioSize + 1} : AddAgent(name)
    <3>1. PICK name \in {1, ScenarioSize + 1} : AddAgent(name)
      BY <2>2
    <3>2. name \in Nat
      BY DebateAssumption
    <3> QED BY <1>1, <1>4, <3>1, <3>2, AddFits
  <2>3. CASE \E name \in Range(names) : RemoveAgent(name)
    <3>1. PICK name : RemoveAgent(name)
      BY <2>3
    <3> QED BY <1>1, <1>4, <3>1, RemoveFits
  <2> QED BY <1>1, <2>1, <2>2, <2>3
<1>6. DebTypes'
  BY <1>1, <1>2, <1>5, PeopleChange
<1>7. NobodyAnswersItself' /\ Paired' /\ Newest'
  <2>1. NobodyAnswersItself' /\ Newest'
    BY <1>1, <1>2 DEF NobodyAnswersItself, Newest
  <2>2. Paired'
    BY <1>1, <1>2, PairedKept
  <2> QED BY <2>1, <2>2
<1>8. Fresh' /\ Going' /\ MonitorExact'
  BY <1>1, <1>3 DEF Fresh, Going, MonitorExact
<1>9. Planned'
  BY <1>1, EmptySeq DEF Planned
<1> QED BY <1>6, <1>7, <1>8, <1>9 DEF DebInv

LEMMA DebScript ==
  ASSUME DebInv, RunScript
  PROVE  DebInv'
<1>1. /\ script \in Scripts /\ running = "new" /\ LoadScenario /\ running' = "on"
      /\ agenda' = CASE script = "plato" -> PlatoAgenda(Scenario)
                     [] script = "consciencia" -> ConscienciaAgenda(Scenario)
                     [] script = "dual" -> DualAgenda(Scenario, names')
                     [] script = "dualDelta" -> DualDeltaAgenda(Scenario, names')
      /\ script' = script /\ said' = said /\ heard' = heard /\ monitor' = monitor
  BY DEF RunScript
<1>2. DebTypes /\ Fresh /\ NobodyAnswersItself /\ Paired /\ Newest
  BY DEF DebInv
<1>3. roster = <<>> /\ names = <<>> /\ said = <<>> /\ \A a \in Made : monitor[a] = NoCount
  BY <1>1, <1>2 DEF Fresh
<1>4. PICK c \in Nat : c = ScenarioSize /\ 2 <= c
  BY DebateAssumption
<1>5. PICK x : x = FirstMade(c)
  OBVIOUS
<1>6. x \in Seq(Nat \ {0}) /\ x \in Seq(Nat) /\ DOMAIN x = 1 .. c /\ Len(x) = c /\ \A i \in 1 .. c : x[i] = i
  BY <1>5 DEF FirstMade
<1>7. Scenario = x
  <2>1. Len(names) = 0
    BY <1>3
  <2> QED BY <1>4, <1>5, <2>1 DEF Scenario, FirstMade
<1>8. names' = x /\ roster' = x
  <2>1. names' = names \o [i \in 1 .. c |-> i] /\ roster' = x
    BY <1>1, <1>4, <1>7 DEF LoadScenario
  <2>2. names' = <<>> \o x
    BY <1>3, <1>5, <2>1 DEF FirstMade
  <2>3. <<>> \o x = x
    BY <1>6, ConcatEmptySeq
  <2> QED BY <2>1, <2>2, <2>3
<1>9. Team(x)
  BY <1>6 DEF Team
<1>10. PICK A : A = 1 .. c
  OBVIOUS
<1>11. Range(x) = A
  BY <1>6, <1>10 DEF Range
<1>12. PICK B : B = Allowed(A)'
  OBVIOUS
<1>13. B = IF script \in {"dual", "dualDelta"} THEN HaveRead(A, x) ELSE AnyBook(A)
  BY <1>1, <1>8, <1>12 DEF Allowed
<1>14. PICK d : d = agenda'
  OBVIOUS
<1>15. PICK rounds \in Nat : rounds = Rounds
  BY DebateAssumption
<1>16. /\ d \in Seq(TurnsOn(A, B)) /\ ReadyAfter(d, {})
       /\ \A a \in A : Cardinality(TurnsOf(d, a)) = Took(a)'
  <2>1. CASE script \in {"plato", "consciencia"}
    <3>1. B = AnyBook(A)
      BY <1>13, <2>1
    <3>2. Course(PlatoAgenda(x), A, B, 1 + Rounds)
      BY <1>4, <1>6, <1>9, <1>11, <3>1, PlatoFits
    <3>3. Course(ConscienciaAgenda(x), A, B, 1 + Rounds)
      BY <1>4, <1>6, <1>9, <1>11, <3>1, ConscienciaFits
    <3>4. Course(d, A, B, 1 + Rounds)
      BY <1>1, <1>7, <1>14, <2>1, <3>2, <3>3
    <3>5. \A a : Took(a)' = 1 + Rounds
      BY <1>1, <2>1 DEF Took
    <3> QED BY <3>4, <3>5 DEF Course
  <2>2. CASE script \in {"dual", "dualDelta"}
    <3>1. B = HaveRead(A, x)
      BY <1>13, <2>2
    <3>2. PICK e : e = DualAgenda(x, x)
      OBVIOUS
    <3>3. d = e
      BY <1>1, <1>7, <1>8, <1>14, <2>2, <3>2 DEF DualDeltaAgenda
    <3>4. /\ e \in Seq(TurnsOn(A, B)) /\ ReadyAfter(e, {})
          /\ \A a \in A : Cardinality(TurnsOf(e, a)) =
               Product(1 + Rounds, Cardinality(TopicsRead(a, x)))
      <4>1. DualCourse(c, x, A, B, e)
        BY <1>4, <1>5, <1>10, <3>1, <3>2 DEF DualCourse
      <4> QED BY <4>1, DualFits
    <3>5. ASSUME NEW a \in A
          PROVE  Took(a)' = Product(1 + Rounds, Cardinality(TopicsRead(a, x)))
      <4>1. PICK I : I = TopicsRead(a, x)
        OBVIOUS
      <4>2. I = {t \in DOMAIN Topics : Reads(a, Topics[t], names)}'
        BY <1>8, <4>1 DEF Reads, TopicsRead
      <4>3. script \notin {"plato", "consciencia"}
        BY <2>2
      <4>4. Took(a)' = Cardinality(I) * (1 + Rounds)
        BY <1>1, <4>2, <4>3 DEF Took
      <4>5. PICK k \in Nat : k = Cardinality(I)
        <5>1. Topics \in Seq({"plato", "pinocchio", "both"})
          BY DebateAssumption
        <5>2. DOMAIN Topics = 1 .. Len(Topics) /\ Len(Topics) \in Nat
          BY <5>1, LenProperties
        <5>3. IsFiniteSet(DOMAIN Topics)
          BY <5>2, FS_Interval
        <5>4. I \subseteq DOMAIN Topics
          BY <4>1 DEF TopicsRead
        <5>5. IsFiniteSet(I)
          BY <5>3, <5>4, FS_Subset
        <5>6. Cardinality(I) \in Nat
          BY <5>5, FS_CardinalityType
        <5> QED BY <5>6
      <4>6. k * (1 + rounds) = (1 + rounds) * k
        OBVIOUS
      <4>7. Took(a)' = (1 + Rounds) * k
        BY <1>15, <4>4, <4>5, <4>6
      <4> QED BY <4>1, <4>5, <4>7 DEF Product
    <3> QED BY <3>3, <3>4, <3>5
  <2> QED BY <1>1, <2>1, <2>2 DEF Scripts
<1>17. Planned'
  BY <1>8, <1>11, <1>12, <1>14, <1>16 DEF Planned
<1>18. \A a : SaidBy(a)' = <<>> /\ Len(SaidBy(a)') = 0
  <2> SUFFICES ASSUME NEW a
               PROVE  SaidBy(a)' = <<>>
    OBVIOUS
  <2>1. PICK S : S = Talk(0)
    OBVIOUS
  <2>2. said \in Seq(S)
    BY <1>3, EmptySeq
  <2>3. PlacesOf(said, a) = {}
    BY <1>3 DEF PlacesOf
  <2>4. By(said, a) = <<>>
    BY <2>2, <2>3, SaidIs
  <2> QED BY <1>1, <2>4, SaidIsBy
<1>19. Going'
  <2>1. ReadyAfter(d, Spoken')
    BY <1>16 DEF ReadyAfter
  <2>2. ASSUME NEW a \in A
        PROVE  (TurnsLeft(a) + Len(SaidBy(a)) = Took(a))'
    <3>1. TurnsLeft(a)' = Cardinality(TurnsOf(d, a))
      BY <1>14 DEF TurnsLeft
    <3>2. \A z \in Nat : z + 0 = z
      OBVIOUS
    <3>3. Cardinality(TurnsOf(d, a)) \in Nat
      <4>1. PICK S : S = TurnsOn(A, B)
        OBVIOUS
      <4>2. d \in Seq(S)
        BY <1>16, <4>1
      <4> QED BY <4>2, TurnsBoth
    <3> QED BY <1>16, <1>18, <3>1, <3>2, <3>3
  <2> QED BY <1>8, <1>11, <1>14, <2>1, <2>2 DEF Going
<1>20. MonitorExact'
  <2>1. A \subseteq Made
    <3>1. Len(names') <= MaxMade /\ MaxMade \in Nat
      <4>1. Peopled /\ said \in Seq(Talk(Len(names)))
        BY <1>2 DEF DebTypes, Peopled
      <4> QED BY <1>1, <4>1, LoadFits, DebateAssumption DEF Peopled
    <3> QED BY <1>6, <1>8, <1>10, <3>1 DEF Made
  <2> SUFFICES ASSUME NEW a \in A
               PROVE  /\ monitor'[a].messages = Len(SaidBy(a)')
                      /\ monitor'[a].deltas =
                           Cardinality({i \in DOMAIN said' : said'[i].from = a /\ said'[i].intent = "DELTA"})
                      /\ Range(monitor'[a].books) \subseteq Range(BooksOf(names'[a]))
    BY <1>8, <1>11 DEF MonitorExact
  <2>2. monitor'[a] = NoCount
    BY <1>1, <1>3, <2>1
  <2>3. {i \in DOMAIN said' : said'[i].from = a /\ said'[i].intent = "DELTA"} = {}
    BY <1>1, <1>3
  <2>4. Cardinality({}) = 0
    BY FS_EmptySet
  <2>5. Range(<<>>) = {}
    BY DEF Range
  <2>6. NoCount.messages = 0 /\ NoCount.deltas = 0 /\ NoCount.books = <<>>
    BY DEF NoCount
  <2> QED BY <1>18, <2>2, <2>3, <2>4, <2>5, <2>6
<1>21. DebTypes'
  <2>1. Peopled /\ said \in Seq(Talk(Len(names)))
    BY <1>2 DEF DebTypes, Peopled
  <2>2. Peopled' /\ Len(names) <= Len(names')
    BY <1>1, <2>1, LoadFits
  <2> QED BY <1>1, <1>2, <2>2, PeopleChange
<1>22. NobodyAnswersItself' /\ Newest'
  BY <1>1, <1>2 DEF NobodyAnswersItself, Newest
<1>23. Paired'
  BY <1>1, <1>2, PairedKept
<1>24. Fresh'
  BY <1>1 DEF Fresh
<1> QED BY <1>17, <1>19, <1>20, <1>21, <1>22, <1>23, <1>24 DEF DebInv

\* A turn t in which answer is said.
Spoke(t, answer, n, u) ==
  /\ n \in Nat /\ n = Len(names) /\ u \in Nat /\ u = Len(said)
  /\ agenda # <<>> /\ t = Head(agenda) /\ agenda' = Tail(agenda)
  /\ t.who \in {Human} \cup Made
  /\ t.who # Human => /\ t.who \in Range(roster) /\ t.hears # t.who
                      /\ <<t.who, t.book>> \in Allowed(Range(roster))
  /\ answer \in Talk(n) /\ answer.from = t.who /\ said' = Append(said, answer)
  /\ UNCHANGED <<script, running, roster, everyone, names>>
  /\ Record(t, answer.intent)
  /\ netLog' \in Seq([who : 0 .. n, what : 0 .. u + 1])
  /\ t.who = Human => answer.answers = 0 /\ heard' = heard
  /\ t.who # Human =>
       /\ LastMessage(t.hears) # 0 /\ answer.answers = LastMessage(t.hears)
       /\ heard' = [heard EXCEPT ![t.who] = @ \o <<LastMessage(t.hears), u + 1>>]

\* The last message of somebody who has spoken.
LEMMA LastIs ==
  ASSUME NEW S, said \in Seq(S), NEW b, LastMessage(b) # 0
  PROVE  /\ LastMessage(b) \in DOMAIN said /\ said[LastMessage(b)].from = b
         /\ \A i \in DOMAIN said : said[i].from = b => i <= LastMessage(b)
<1>1. LastOf(said, b) # 0 /\ LastMessage(b) = LastOf(said, b)
  BY SaidIsBy
<1>2. PlacesOf(said, b) # {}
  BY <1>1, SaidIs
<1>3. LastOf(said, b) \in PlacesOf(said, b) /\ \A i \in PlacesOf(said, b) : i <= LastOf(said, b)
  BY <1>2, SaidIs
<1> QED BY <1>1, <1>3 DEF PlacesOf

LEMMA TurnIs ==
  ASSUME DebTypes, Planned, Turn
  PROVE  \E t, answer, n, u : Spoke(t, answer, n, u)
<1>1. PICK n \in Nat : n = Len(names)
  BY LenProperties DEF DebTypes
<1>2. PICK u \in Nat : u = Len(said)
  BY LenProperties DEF DebTypes
<1>3. PICK t : t = Head(agenda)
  OBVIOUS
<1>4. PICK A, B : A = Range(roster) /\ B = Allowed(A)
  OBVIOUS
<1>5. agenda # <<>> /\ agenda' = Tail(agenda) /\ UNCHANGED <<script, running, roster, everyone, names>>
  BY DEF Turn, HumanSpeaks, Respond
<1>6. agenda \in Seq(TurnsOn(A, B))
  BY <1>4 DEF Planned
<1>7. t \in TurnsOn(A, B)
  BY <1>3, <1>5, <1>6, AgendaHead
<1>8. /\ t.who \in A \cup {Human} /\ t.hears \in A \cup {Human} /\ t.to \in Nat
      /\ t.who # Human => t.hears # t.who /\ <<t.who, t.book>> \in B
  BY <1>7 DEF TurnsOn
<1>9. A \subseteq 1 .. n /\ A \subseteq Made
  <2>1. A \subseteq everyone /\ everyone \subseteq 1 .. n /\ n <= MaxMade
    BY <1>1, <1>4 DEF DebTypes
  <2>2. 1 .. n \subseteq Made
    BY <2>1, DebateAssumption DEF Made
  <2> QED BY <2>1, <2>2
<1>10. said \in Seq(Talk(n)) /\ DOMAIN said = 1 .. u /\ \A i \in 1 .. u : said[i] \in Talk(n)
  <2>1. said \in Seq(Talk(n))
    BY <1>1 DEF DebTypes
  <2> QED BY <1>2, <2>1, LenProperties, ElementOfSeq
<1>11. /\ t.who \in 0 .. n /\ t.who \in {Human} \cup Made
       /\ t.who # Human => t.who \in A
  <2>1. PICK w : w = t.who
    OBVIOUS
  <2>2. w \in A \/ w = Human
    BY <1>8, <2>1
  <2>3. \A x \in A : x \in 0 .. n /\ x \in Made
    BY <1>9
  <2>4. Human \in 0 .. n
    BY DEF Human
  <2> QED BY <2>1, <2>2, <2>3, <2>4
<1>12. netLog \in Seq([who : 0 .. n, what : 0 .. u])
  BY <1>1, <1>2 DEF DebTypes
<1>13. LogMsg(t) => netLog' \in Seq([who : 0 .. n, what : 0 .. u + 1])
  <2>1. PICK S, T : S = [who : 0 .. n, what : 0 .. u] /\ T = [who : 0 .. n, what : 0 .. u + 1]
    OBVIOUS
  <2>2. 0 .. u \subseteq 0 .. u + 1 /\ u + 1 \in 0 .. u + 1
    OBVIOUS
  <2>3. S \subseteq T
    BY <2>1, <2>2
  <2>4. netLog \in Seq(S)
    BY <1>12, <2>1
  <2>5. netLog \in Seq(T)
    BY <2>3, <2>4, SeqMonotonic
  <2>6. [who |-> t.who, what |-> u + 1] \in T
    <3>1. PICK w \in 0 .. n : w = t.who
      BY <1>11
    <3>2. PICK z \in 0 .. u + 1 : z = u + 1
      BY <2>2
    <3>3. [who |-> w, what |-> z] \in T
      BY <2>1
    <3> QED BY <3>1, <3>2, <3>3
  <2>7. Append(netLog, [who |-> t.who, what |-> u + 1]) \in Seq(T)
    BY <2>5, <2>6
  <2> QED BY <1>2, <2>1, <2>5, <2>7 DEF LogMsg
<1>14. \A x \in Talk(n) : Last(Append(said, x)) = x
  <2> SUFFICES ASSUME NEW x \in Talk(n)
               PROVE  Last(Append(said, x)) = x
    OBVIOUS
  <2>1. PICK S : S = Talk(n)
    OBVIOUS
  <2>2. said \in Seq(S) /\ x \in S
    BY <1>10, <2>1
  <2>3. Len(Append(said, x)) = Len(said) + 1 /\ Append(said, x)[Len(said) + 1] = x
    BY <2>2, AppendProperties
  <2> QED BY <2>3 DEF Last
<1>15. CASE HumanSpeaks /\ UNCHANGED heard
  <2>1. PICK answer : answer = [from |-> Human, to |-> t.to, intent |-> "ASSERT", answers |-> 0]
    OBVIOUS
  <2>2. t.who = Human /\ said' = Append(said, answer) /\ LogMsg(t)
    BY <1>3, <1>15, <2>1 DEF HumanSpeaks
  <2>3. answer \in Talk(n) /\ answer.from = Human /\ answer.answers = 0
    BY <1>8, <2>1 DEF Talk, Human
  <2>4. Record(t, answer.intent)
    <3>1. Record(t, Last(said').intent)
      BY <1>3 DEF Turn
    <3>2. Last(said') = answer
      BY <1>14, <2>2, <2>3
    <3> QED BY <3>1, <3>2
  <2>5. Spoke(t, answer, n, u)
    BY <1>1, <1>2, <1>3, <1>5, <1>11, <1>13, <1>15, <2>2, <2>3, <2>4 DEF Spoke
  <2> QED BY <2>5
<1>16. CASE \E near \in BOOLEAN : Respond(near)
  <2>1. PICK near \in BOOLEAN : Respond(near)
    BY <1>16
  <2>2. PICK m : m = LastMessage(t.hears)
    OBVIOUS
  <2>3. PICK answer : answer = Reply(t.who, m, near)
    OBVIOUS
  <2>4. /\ t.who # Human /\ m # 0 /\ said' = Append(said, answer) /\ LogMsg(t)
        /\ heard' = [heard EXCEPT ![t.who] = @ \o <<m, u + 1>>]
    BY <1>2, <1>3, <2>1, <2>2, <2>3 DEF Respond
  <2>5. m \in 1 .. u
    BY <1>10, <2>2, <2>4, LastIs
  <2>6. said[m].to \in Nat /\ said[m].from \in Nat
    <3>1. said[m] \in Talk(n)
      BY <1>10, <2>5
    <3> QED BY <3>1 DEF Talk
  <2>7. Everybody \in Nat
    BY DebateAssumption DEF Everybody
  <2>8. answer \in Talk(n) /\ answer.from = t.who /\ answer.answers = m
    <3>1. PICK w \in Nat : w = IF said[m].to = Everybody THEN Everybody ELSE said[m].from
      BY <2>6, <2>7
    <3>2. PICK i \in {"ASSERT", "DELTA"} : i = IF near /\ heard[t.who] # <<>> THEN "DELTA" ELSE "ASSERT"
      OBVIOUS
    <3>3. answer = [from |-> t.who, to |-> w, intent |-> i, answers |-> m]
      BY <2>3, <3>1, <3>2 DEF Reply
    <3>4. m \in Nat
      BY <2>5
    <3>5. PICK f \in 0 .. n : f = t.who
      BY <1>11
    <3>6. answer \in Talk(n)
      BY <3>3, <3>4, <3>5 DEF Talk
    <3> QED BY <3>3, <3>6
  <2>9. Record(t, answer.intent)
    <3>1. Record(t, Last(said').intent)
      BY <1>3 DEF Turn
    <3>2. Last(said') = answer
      BY <1>14, <2>4, <2>8
    <3> QED BY <3>1, <3>2
  <2>10. Spoke(t, answer, n, u)
    <3>1. /\ LastMessage(t.hears) # 0 /\ answer.answers = LastMessage(t.hears)
          /\ heard' = [heard EXCEPT ![t.who] = @ \o <<LastMessage(t.hears), u + 1>>]
      BY <2>2, <2>4, <2>8
    <3>2. t.who \in Range(roster) /\ t.hears # t.who /\ <<t.who, t.book>> \in Allowed(Range(roster))
      BY <1>4, <1>8, <1>11, <2>4
    <3>3. netLog' \in Seq([who : 0 .. n, what : 0 .. u + 1])
      BY <1>13, <2>4
    <3> QED BY <1>1, <1>2, <1>3, <1>5, <1>11, <2>4, <2>8, <2>9, <3>1, <3>2, <3>3 DEF Spoke
  <2> QED BY <2>10
<1> QED BY <1>15, <1>16 DEF Turn

\* What was said is one message longer.
LEMMA SpokeSaid ==
  ASSUME DebTypes, NEW t, NEW answer, NEW n, NEW u, Spoke(t, answer, n, u)
  PROVE  /\ said \in Seq(Talk(n)) /\ said' \in Seq(Talk(n)) /\ Len(said') = u + 1
         /\ DOMAIN said = 1 .. u /\ DOMAIN said' = 1 .. u + 1
         /\ \A i \in 1 .. u : said'[i] = said[i] /\ said[i] \in Talk(n)
         /\ said'[u + 1] = answer
         /\ \A b : /\ b = t.who => SaidBy(b)' = Append(SaidBy(b), u + 1) /\ LastMessage(b)' # 0
                   /\ b # t.who => SaidBy(b)' = SaidBy(b) /\ LastMessage(b)' = LastMessage(b)
<1>1. /\ n \in Nat /\ n = Len(names) /\ u \in Nat /\ u = Len(said)
      /\ answer \in Talk(n) /\ answer.from = t.who /\ said' = Append(said, answer)
  BY DEF Spoke
<1>2. PICK S : S = Talk(n)
  OBVIOUS
<1>3. said \in Seq(S) /\ answer \in S
  BY <1>1, <1>2 DEF DebTypes
<1>4. /\ said' \in Seq(S) /\ Len(said') = u + 1
      /\ DOMAIN said = 1 .. u /\ DOMAIN said' = 1 .. u + 1
  BY <1>1, <1>3, LenProperties
<1>5. (\A i \in 1 .. u : said'[i] = said[i]) /\ said'[u + 1] = answer
  BY <1>1, <1>3, AppendProperties
<1>6. \A i \in 1 .. u : said[i] \in S
  BY <1>1, <1>3, ElementOfSeq
<1>7. ASSUME NEW b
      PROVE  /\ b = t.who => SaidBy(b)' = Append(SaidBy(b), u + 1) /\ LastMessage(b)' # 0
             /\ b # t.who => SaidBy(b)' = SaidBy(b) /\ LastMessage(b)' = LastMessage(b)
  <2>1. SaidBy(b) = By(said, b) /\ SaidBy(b)' = By(said', b)
    BY SaidIsBy
  <2>2. PICK r : r = said'
    OBVIOUS
  <2>3. By(r, b) = IF answer.from = b THEN Append(By(said, b), Len(said) + 1) ELSE By(said, b)
    <3>1. Longer(r, said, answer, S)
      BY <1>1, <1>3, <2>2 DEF Longer
    <3> QED BY <3>1, SaidMore
  <2>4. b = t.who => LastMessage(b)' # 0
    <3> HAVE b = t.who
    <3>1. u + 1 \in PlacesOf(r, b)
      BY <1>1, <1>4, <1>5, <2>2 DEF PlacesOf
    <3>2. LastOf(r, b) # 0
      BY <1>4, <2>2, <3>1, SaidIs
    <3>3. LastMessage(b)' = LastOf(r, b)
      BY <2>2 DEF LastMessage, SaidBy, LastOf, By, PlacesOf
    <3> QED BY <3>2, <3>3
  <2>5. b # t.who => SaidBy(b)' = SaidBy(b)
    BY <1>1, <2>1, <2>2, <2>3
  <2>6. b # t.who => LastMessage(b)' = LastMessage(b)
    BY <2>5 DEF LastMessage
  <2> QED BY <1>1, <2>1, <2>2, <2>3, <2>4, <2>5, <2>6
<1> QED BY <1>1, <1>2, <1>3, <1>4, <1>5, <1>6, <1>7

LEMMA SpokePlanned ==
  ASSUME Planned, NEW t, NEW answer, NEW n, NEW u, Spoke(t, answer, n, u)
  PROVE  Planned'
<1>1. PICK A, B : A = Range(roster) /\ B = Allowed(A)
  OBVIOUS
<1>2. A = Range(roster)' /\ B = Allowed(A)'
  BY <1>1 DEF Spoke, Allowed
<1>3. agenda \in Seq(TurnsOn(A, B)) /\ agenda # <<>> /\ agenda' = Tail(agenda)
  BY <1>1 DEF Planned, Spoke
<1>4. agenda' \in Seq(TurnsOn(A, B))
  BY <1>3, AgendaHead
<1> QED BY <1>2, <1>4 DEF Planned

LEMMA SpokeGoing ==
  ASSUME DebTypes, Planned, Going, running = "on", NEW t, NEW answer, NEW n, NEW u, Spoke(t, answer, n, u)
  PROVE  Going'
<1> SUFFICES ASSUME script \in Scripts
             PROVE  /\ ReadyAfter(agenda', Spoken')
                    /\ \A a \in Range(roster) : (TurnsLeft(a) + Len(SaidBy(a)) = Took(a))'
  BY DEF Going, Spoke
<1>1. ReadyAfter(agenda, Spoken) /\ \A a \in Range(roster) : TurnsLeft(a) + Len(SaidBy(a)) = Took(a)
  BY DEF Going
<1>2. PICK S : S = TurnsOn(Range(roster), Allowed(Range(roster)))
  OBVIOUS
<1>3. agenda \in Seq(S) /\ agenda # <<>> /\ t = Head(agenda)
  BY <1>2 DEF Planned, Spoke
<1>4. PICK y : y = Tail(agenda)
  OBVIOUS
<1>5. agenda' = y /\ UNCHANGED <<script, names, roster>> /\ t.who \in {Human} \cup Made
  BY <1>4 DEF Spoke
<1>6. PICK k \in Nat : Len(agenda) = k + 1
  <2>1. Len(agenda) \in Nat /\ Len(agenda) # 0
    BY <1>3, LenProperties, EmptySeq
  <2> QED BY <2>1
<1>7. /\ y \in Seq(S) /\ Len(y) = k /\ DOMAIN y = 1 .. k
      /\ DOMAIN agenda = 1 .. k + 1
      /\ \A i \in 1 .. k : y[i] = agenda[i + 1]
      /\ agenda[1] = t
  BY <1>3, <1>4, <1>6
<1>8. \A b : b \in Spoken \/ b = t.who => LastMessage(b)' # 0
  BY SpokeSaid DEF Spoken
<1>9. \A b \in 0 .. n : LastMessage(b)' # 0 => b \in Spoken'
  <2>1. n = Len(names')
    BY DEF Spoke
  <2> QED BY <2>1 DEF Spoken
<1>10. ReadyAfter(y, Spoken')
  <2>1. \A i \in 1 .. k + 1 : agenda[i].who # Human => agenda[i].hears \in 0 .. n
    <3>1. \A i \in 1 .. k + 1 : agenda[i] \in S
      BY <1>3, <1>6, ElementOfSeq
    <3>2. \A x \in S : x.hears \in Range(roster) \cup {Human}
      BY <1>2 DEF TurnsOn
    <3>3. Range(roster) \subseteq 0 .. n
      <4>1. Range(roster) \subseteq everyone /\ everyone \subseteq 1 .. Len(names)
        BY DEF DebTypes
      <4>2. Len(names) = n /\ n \in Nat
        BY DEF Spoke
      <4>3. 1 .. n \subseteq 0 .. n
        BY <4>2
      <4> QED BY <4>1, <4>2, <4>3
    <3>4. Human \in 0 .. n
      BY DEF Human, Spoke
    <3> QED BY <3>1, <3>2, <3>3, <3>4
  <2> SUFFICES ASSUME NEW i \in 1 .. k, y[i].who # Human
               PROVE  y[i].hears \in Spoken' \/ \E l \in 1 .. i - 1 : y[l].who = y[i].hears
    BY <1>7 DEF ReadyAfter
  <2>2. i + 1 \in 1 .. k + 1 /\ y[i] = agenda[i + 1] /\ i + 1 \in DOMAIN agenda
    BY <1>7
  <2>3. agenda[i + 1].hears \in Spoken \/ \E l \in 1 .. i + 1 - 1 : agenda[l].who = agenda[i + 1].hears
    BY <1>1, <2>2 DEF ReadyAfter
  <2>4. PICK b : b = y[i].hears
    OBVIOUS
  <2>5. b \in 0 .. n
    BY <2>1, <2>2, <2>4
  <2>6. CASE b \in Spoken \/ b = t.who
    BY <1>8, <1>9, <2>4, <2>5, <2>6
  <2>7. CASE \E l \in 1 .. i + 1 - 1 : agenda[l].who = b
    <3>1. PICK l \in 1 .. i : agenda[l].who = b
      BY <2>7
    <3>2. CASE l = 1
      <4>1. b = t.who
        BY <1>7, <3>1, <3>2
      <4> QED BY <4>1, <2>6
    <3>3. CASE l # 1
      <4>1. l - 1 \in 1 .. i - 1 /\ l - 1 \in 1 .. k /\ l - 1 + 1 = l
        BY <3>3
      <4>2. y[l - 1] = agenda[l]
        BY <1>7, <4>1
      <4> QED BY <2>4, <3>1, <4>1, <4>2
    <3> QED BY <3>2, <3>3
  <2> QED BY <2>2, <2>3, <2>4, <2>6, <2>7
<1>11. ASSUME NEW a \in Range(roster)
       PROVE  (TurnsLeft(a) + Len(SaidBy(a)) = Took(a))'
  <2>1. TurnsLeft(a) + Len(SaidBy(a)) = Took(a) /\ Took(a)' = Took(a)
    BY <1>1, <1>5 DEF Took, Reads
  <2>2. PICK x : x = <<t>>
    OBVIOUS
  <2>3. t \in S /\ x \in Seq(S) /\ DOMAIN x = {1} /\ x[1] = t
    <3>1. t \in S
      BY <1>3, HeadTailProperties
    <3> QED BY <2>2, <3>1
  <2>4. agenda = x \o y
    BY <1>3, <1>4, <2>2, <2>3
  <2>5. PICK c, d \in Nat : c = Cardinality(TurnsOf(x, a)) /\ d = Cardinality(TurnsOf(y, a))
    BY <1>7, <2>3, TurnsBoth
  <2>6. TurnsLeft(a) = c + d
    BY <1>7, <2>3, <2>4, <2>5, TurnsBoth DEF TurnsLeft
  <2>7. TurnsLeft(a)' = d
    BY <1>5, <2>5 DEF TurnsLeft
  <2>8. PICK s : s = SaidBy(a)
    OBVIOUS
  <2>9. s \in Seq(1 .. u) /\ Len(s) \in Nat
    <3>1. said \in Seq(Talk(n)) /\ Len(said) = u
      BY SpokeSaid DEF Spoke
    <3>2. By(said, a) \in Seq(1 .. Len(said)) /\ Len(By(said, a)) \in Nat
      BY <3>1, SaidIs
    <3> QED BY <2>8, <3>1, <3>2, SaidIsBy
  <2>10. CASE a = t.who
    <3>1. TurnsOf(x, a) = {1}
      BY <2>3, <2>10 DEF TurnsOf
    <3>2. c = 1
      BY <2>5, <3>1, FS_Singleton
    <3>3. SaidBy(a)' = Append(s, u + 1)
      BY <2>8, <2>10, SpokeSaid
    <3>4. Len(Append(s, u + 1)) = Len(s) + 1
      BY <2>9
    <3> QED BY <2>1, <2>5, <2>6, <2>7, <2>8, <2>9, <3>2, <3>3, <3>4
  <2>11. CASE a # t.who
    <3>1. TurnsOf(x, a) = {}
      BY <2>3, <2>11 DEF TurnsOf
    <3>2. c = 0
      BY <2>5, <3>1, FS_EmptySet
    <3>3. SaidBy(a)' = s
      BY <2>8, <2>11, SpokeSaid
    <3> QED BY <2>1, <2>5, <2>6, <2>7, <2>8, <2>9, <3>2, <3>3
  <2> QED BY <2>10, <2>11
<1> QED BY <1>5, <1>10, <1>11

\* What the monitor of a script counts in a turn.
LEMMA RecordIs ==
  ASSUME DebTypes, NEW t, NEW answer, NEW n, NEW u, Spoke(t, answer, n, u)
  PROVE  /\ monitor' \in [{Human} \cup Made -> DebateCount]
         /\ script \in Scripts => \A a \in Made :
              /\ a # t.who => monitor'[a] = monitor[a]
              /\ a = t.who =>
                   /\ monitor'[a].messages = monitor[a].messages + 1
                   /\ script = "consciencia" =>
                        monitor'[a].deltas =
                          IF answer.intent = "DELTA" THEN monitor[a].deltas + 1 ELSE monitor[a].deltas
                   /\ \/ monitor'[a].books = monitor[a].books
                      \/ \E b \in Range(BooksOf(names[a])) : monitor'[a].books = Append(monitor[a].books, b)
<1>1. monitor \in [{Human} \cup Made -> DebateCount] /\ t.who \in {Human} \cup Made
  BY DEF DebTypes, Spoke
<1>2. Human \notin Made
  BY DEF Human, Made
<1>3. PICK a : a = t.who
  OBVIOUS
<1>4. PICK D : D = {Human} \cup Made
  OBVIOUS
<1>5. PICK c \in DebateCount : c = monitor[a]
  BY <1>1, <1>3
<1>6. PICK i \in Nat, j \in Nat, b \in Seq(Books) : c = [messages |-> i, deltas |-> j, books |-> b]
  BY DEF DebateCount
<1>7. PICK d, k : d = t.book /\ k = answer.intent
  OBVIOUS
<1>8. monitor' = CASE script = "plato" -> RecordPlato(a)
                   [] script = "consciencia" /\ a # Human -> RecordConsciencia(a, k)
                   [] script \in {"dual", "dualDelta"} /\ a # Human -> RecordDual(a, d)
                   [] OTHER -> monitor
  BY <1>3, <1>7 DEF Spoke, Record
<1>9. \A r \in DebateCount : [monitor EXCEPT ![a] = r] \in [D -> DebateCount]
  BY <1>1, <1>4
<1>10. CASE script = "plato"
  <2>1. PICK r : r = [messages |-> i + 1, deltas |-> j, books |-> b]
    OBVIOUS
  <2>2. r \in DebateCount
    BY <2>1 DEF DebateCount
  <2>3. monitor' = [monitor EXCEPT ![a].messages = @ + 1]
    BY <1>8, <1>10 DEF RecordPlato
  <2>4. monitor' = [monitor EXCEPT ![a] = r]
    <3>1. r = [c EXCEPT !.messages = c.messages + 1]
      BY <1>6, <2>1
    <3>2. monitor' = [monitor EXCEPT ![a] = [c EXCEPT !.messages = c.messages + 1]]
      BY <1>5, <2>3
    <3> QED BY <3>1, <3>2
  <2>5. monitor'[a] = r /\ \A z \in D : z # a => monitor'[z] = monitor[z]
    BY <1>1, <1>3, <1>4, <2>4
  <2>6. monitor' \in [D -> DebateCount]
    BY <1>9, <2>2, <2>4
  <2>7. r.messages = c.messages + 1 /\ r.books = c.books
    BY <1>6, <2>1
  <2> QED BY <1>3, <1>4, <1>5, <1>10, <2>5, <2>6, <2>7
<1>11. CASE script = "consciencia" /\ a # Human
  <2>1. PICK r : r = [messages |-> i + 1, deltas |-> IF k = "DELTA" THEN j + 1 ELSE j, books |-> b]
    OBVIOUS
  <2>2. r \in DebateCount
    BY <2>1 DEF DebateCount
  <2>3. monitor' = [monitor EXCEPT ![a].messages = @ + 1, ![a].deltas = IF k = "DELTA" THEN @ + 1 ELSE @]
    BY <1>8, <1>11 DEF RecordConsciencia
  <2>4. monitor' = [monitor EXCEPT ![a] = r]
    <3>1. PICK e, g : e = [c EXCEPT !.messages = c.messages + 1]
                    /\ g = [monitor EXCEPT ![a] = e]
      OBVIOUS
    <3>2. monitor' = [g EXCEPT ![a].deltas = IF k = "DELTA" THEN @ + 1 ELSE @]
      BY <1>5, <2>3, <3>1
    <3>3. g[a] = e
      BY <1>1, <1>3, <3>1
    <3>4. r = [e EXCEPT !.deltas = IF k = "DELTA" THEN e.deltas + 1 ELSE e.deltas]
      <4>1. e = [messages |-> i + 1, deltas |-> j, books |-> b]
        BY <1>6, <3>1
      <4> QED BY <2>1, <4>1
    <3>5. monitor' = [g EXCEPT ![a] = r]
      BY <3>2, <3>3, <3>4
    <3> QED BY <1>1, <1>3, <3>1, <3>5
  <2>5. monitor'[a] = r /\ \A z \in D : z # a => monitor'[z] = monitor[z]
    BY <1>1, <1>3, <1>4, <2>4
  <2>6. monitor' \in [D -> DebateCount]
    BY <1>9, <2>2, <2>4
  <2>7. /\ r.messages = c.messages + 1 /\ r.books = c.books
        /\ r.deltas = IF k = "DELTA" THEN c.deltas + 1 ELSE c.deltas
    BY <1>6, <2>1
  <2> QED BY <1>3, <1>4, <1>5, <1>7, <1>11, <2>5, <2>6, <2>7
<1>12. CASE script \in {"dual", "dualDelta"} /\ a # Human
  <2>1. d \in Range(BooksOf(names[a])) /\ d \in {"plato", "pinocchio"} /\ d \in Books
    <3>1. PICK A : A = Range(roster)
      OBVIOUS
    <3>2. a \in A /\ <<a, d>> \in HaveRead(A, names)
      BY <1>3, <1>7, <1>12, <3>1 DEF Spoke, Allowed
    <3>3. d \in Range(BooksOf(names[a])) /\ d \in Books
      <4>1. PICK p : p = <<a, d>>
        OBVIOUS
      <4>2. p \in A \X Books /\ p[2] \in Range(BooksOf(names[p[1]]))
        BY <3>2, <4>1 DEF HaveRead
      <4>3. p[1] = a /\ p[2] = d
        BY <4>1
      <4> QED BY <4>1, <4>2, <4>3
    <3>4. names[a] \in Nat
      <4>1. a \in 1 .. Len(names) /\ names \in Seq(Nat)
        BY <3>1, <3>2 DEF DebTypes
      <4> QED BY <4>1, ElementOfSeq
    <3>5. Range(BooksOf(names[a])) \subseteq {"plato", "pinocchio"}
      BY <3>4, BooksAre
    <3> QED BY <3>3, <3>5
  <2>2. PICK r : r = [messages |-> i + 1, deltas |-> j, books |-> Append(b, d)]
    OBVIOUS
  <2>3. r \in DebateCount
    BY <2>1, <2>2 DEF DebateCount
  <2>4. monitor' = [monitor EXCEPT ![a].messages = IF d \in {"plato", "pinocchio"} THEN @ + 1 ELSE @,
                                   ![a].books = Append(@, d)]
    BY <1>8, <1>12 DEF RecordDual
  <2>5. monitor' = [monitor EXCEPT ![a].messages = @ + 1, ![a].books = Append(@, d)]
    BY <2>1, <2>4
  <2>6. monitor' = [monitor EXCEPT ![a] = r]
    <3>1. PICK e, g : e = [c EXCEPT !.messages = c.messages + 1]
                    /\ g = [monitor EXCEPT ![a] = e]
      OBVIOUS
    <3>2. monitor' = [g EXCEPT ![a].books = Append(@, d)]
      BY <1>5, <2>5, <3>1
    <3>3. g[a] = e
      BY <1>1, <1>3, <3>1
    <3>4. r = [e EXCEPT !.books = Append(e.books, d)]
      <4>1. e = [messages |-> i + 1, deltas |-> j, books |-> b]
        BY <1>6, <3>1
      <4>2. PICK w : w = Append(b, d)
        OBVIOUS
      <4>3. e.books = b
        BY <4>1
      <4>4. [e EXCEPT !.books = w] = [messages |-> i + 1, deltas |-> j, books |-> w]
        BY ONLY <4>1
      <4> QED BY <2>2, <4>2, <4>3, <4>4
    <3>5. monitor' = [g EXCEPT ![a] = r]
      BY <3>2, <3>3, <3>4
    <3> QED BY <1>1, <1>3, <3>1, <3>5
  <2>7. monitor'[a] = r /\ \A z \in D : z # a => monitor'[z] = monitor[z]
    BY <1>1, <1>3, <1>4, <2>6
  <2>8. monitor' \in [D -> DebateCount]
    BY <1>9, <2>3, <2>6
  <2>9. r.messages = c.messages + 1 /\ r.books = Append(c.books, d)
    BY <1>6, <2>2
  <2>10. script # "consciencia"
    BY <1>12
  <2> QED BY <1>3, <1>4, <1>5, <2>1, <2>7, <2>8, <2>9, <2>10
<1>13. CASE \/ script # "plato" /\ a = Human
            \/ script \notin {"plato", "consciencia", "dual", "dualDelta"}
  <2>1. monitor' = monitor
    BY <1>8, <1>13
  <2>2. script \in Scripts => a = Human
    BY <1>13 DEF Scripts
  <2> QED BY <1>1, <1>2, <1>3, <2>1, <2>2
<1> QED BY <1>10, <1>11, <1>12, <1>13

LEMMA SpokeTypes ==
  ASSUME DebTypes, NEW t, NEW answer, NEW n, NEW u, Spoke(t, answer, n, u)
  PROVE  DebTypes'
<1>1. /\ n \in Nat /\ n = Len(names) /\ u \in Nat /\ u = Len(said)
      /\ UNCHANGED <<script, running, roster, everyone, names>>
      /\ netLog' \in Seq([who : 0 .. n, what : 0 .. u + 1])
      /\ t.who \in {Human} \cup Made
  BY DEF Spoke
<1>2. said' \in Seq(Talk(n)) /\ Len(said') = u + 1
  BY SpokeSaid
<1>3. heard' \in [Made -> Seq(1 .. u + 1)]
  <2>1. heard \in [Made -> Seq(1 .. u)]
    BY <1>1 DEF DebTypes
  <2>2. PICK R : R = Seq(1 .. u + 1)
    OBVIOUS
  <2>3. 1 .. u \subseteq 1 .. u + 1
    BY <1>1
  <2>4. Seq(1 .. u) \subseteq R
    BY <2>2, <2>3, SeqMonotonic
  <2>5. heard \in [Made -> R]
    BY <2>1, <2>4
  <2>6. CASE t.who = Human
    BY <2>2, <2>5, <2>6 DEF Spoke
  <2>7. CASE t.who # Human
    <3>1. PICK a : a = t.who
      OBVIOUS
    <3>2. PICK m : m = LastMessage(t.hears)
      OBVIOUS
    <3>3. /\ a \in Made /\ m # 0 /\ heard' = [heard EXCEPT ![a] = @ \o <<m, u + 1>>]
      BY <1>1, <2>7, <3>1, <3>2 DEF Spoke
    <3>4. m \in 1 .. u
      <4>1. said \in Seq(Talk(n)) /\ DOMAIN said = 1 .. u
        BY SpokeSaid
      <4> QED BY <3>2, <3>3, <4>1, LastIs
    <3>5. <<m, u + 1>> \in Seq(1 .. u + 1)
      <4>1. m \in 1 .. u + 1 /\ u + 1 \in 1 .. u + 1
        BY <1>1, <3>4
      <4> QED BY <4>1
    <3>6. heard[a] \o <<m, u + 1>> \in R
      <4>1. heard[a] \in Seq(1 .. u + 1)
        BY <2>2, <2>5, <3>3
      <4> QED BY <2>2, <3>5, <4>1, ConcatProperties
    <3> QED BY <2>2, <2>5, <3>3, <3>6
  <2> QED BY <2>6, <2>7
<1>4. monitor' \in [{Human} \cup Made -> DebateCount]
  BY RecordIs
<1>5. Len(names') = n
  BY <1>1
<1> QED BY <1>1, <1>2, <1>3, <1>4, <1>5 DEF DebTypes

\* In a history h, what was heard and said, in pairs; s are the numbers of the
\* l answers in sd.
Pairs(h, s, l, sd) ==
  /\ l \in Nat /\ Len(h) = 2 * l /\ Len(s) = l /\ DOMAIN s = 1 .. l
  /\ \A i \in 1 .. l : h[2 * i] = s[i] /\ h[2 * i - 1] = sd[s[i]].answers

LEMMA SpokePaired ==
  ASSUME DebTypes, Paired, running = "on", NEW t, NEW answer, NEW n, NEW u, Spoke(t, answer, n, u)
  PROVE  Paired'
<1>1. /\ u \in Nat /\ said \in Seq(Talk(n)) /\ said' \in Seq(Talk(n))
      /\ \A i \in 1 .. u : said'[i] = said[i]
      /\ said'[u + 1] = answer /\ Len(said) = u
  <2>1. u \in Nat /\ Len(said) = u
    BY DEF Spoke
  <2>2. said \in Seq(Talk(n)) /\ said' \in Seq(Talk(n))
    BY SpokeSaid
  <2>3. (\A i \in 1 .. u : said'[i] = said[i]) /\ said'[u + 1] = answer
    BY SpokeSaid
  <2> QED BY <2>1, <2>2, <2>3
<1>2. heard \in [Made -> Seq(1 .. u)]
  BY DEF DebTypes, Spoke
<1>3. ASSUME NEW a \in Made
      PROVE  \E h \in Seq(1 .. u), s \in Seq(1 .. u), l \in Nat : h = heard[a] /\ s = SaidBy(a) /\ Pairs(h, s, l, said)
  <2>1. PICK h \in Seq(1 .. u) : h = heard[a]
    BY <1>2, <1>3
  <2>2. PICK s \in Seq(1 .. u) : s = SaidBy(a)
    <3>1. By(said, a) \in Seq(1 .. Len(said))
      BY <1>1, SaidIs
    <3> QED BY <1>1, <3>1, SaidIsBy
  <2>3. PICK l \in Nat : l = Len(s)
    BY LenProperties
  <2>4. PICK k \in Nat : k = Len(h)
    BY LenProperties
  <2>5. /\ Len(heard[a]) = 2 * Len(SaidBy(a)) + (Len(heard[a]) % 2)
        /\ Len(heard[a]) % 2 = 1 => running = "dead"
        /\ \A i \in DOMAIN SaidBy(a) :
             heard[a][2 * i] = SaidBy(a)[i] /\ heard[a][2 * i - 1] = said[SaidBy(a)[i]].answers
    BY <1>3 DEF Paired
  <2>6. k = 2 * l + (k % 2) /\ k % 2 # 1
    <3>1. "on" # "dead"
      OBVIOUS
    <3> QED BY <2>1, <2>2, <2>3, <2>4, <2>5, <3>1
  <2>7. k % 2 \in 0 .. 1
    OBVIOUS
  <2>8. k % 2 = 0
    BY <2>6, <2>7
  <2>9. k = 2 * l
    BY <2>6, <2>8
  <2>10. DOMAIN s = 1 .. l
    BY <2>3, LenProperties
  <2>11. \A i \in 1 .. l : h[2 * i] = s[i] /\ h[2 * i - 1] = said[s[i]].answers
    BY <2>1, <2>2, <2>5, <2>10
  <2>12. Pairs(h, s, l, said)
    BY <2>3, <2>4, <2>9, <2>10, <2>11 DEF Pairs
  <2> QED BY <2>1, <2>2, <2>12
<1> SUFFICES ASSUME NEW a \in Made
             PROVE  \E h, s, l : h = heard'[a] /\ s = SaidBy(a)' /\ Pairs(h, s, l, said')
  <2> SUFFICES ASSUME NEW a \in Made
               PROVE  /\ Len(heard'[a]) = 2 * Len(SaidBy(a)') + (Len(heard'[a]) % 2)
                      /\ Len(heard'[a]) % 2 # 1
                      /\ \A i \in DOMAIN SaidBy(a)' :
                           /\ heard'[a][2 * i] = SaidBy(a)'[i]
                           /\ heard'[a][2 * i - 1] = said'[SaidBy(a)'[i]].answers
    BY DEF Paired
  <2>1. PICK h, s, l : h = heard'[a] /\ s = SaidBy(a)' /\ Pairs(h, s, l, said')
    OBVIOUS
  <2>2. (2 * l) % 2 = 0 /\ 2 * l = 2 * l + 0
    BY <2>1 DEF Pairs
  <2> QED BY <2>1, <2>2 DEF Pairs
<1>10. PICK h \in Seq(1 .. u), s \in Seq(1 .. u), l \in Nat : h = heard[a] /\ s = SaidBy(a) /\ Pairs(h, s, l, said)
  BY <1>3
<1>4. /\ l \in Nat /\ Len(h) = 2 * l /\ Len(s) = l /\ DOMAIN s = 1 .. l
      /\ h = heard[a] /\ s = SaidBy(a)
      /\ \A i \in 1 .. l : h[2 * i] = s[i] /\ h[2 * i - 1] = said[s[i]].answers
  BY <1>10 DEF Pairs
<1>5. DOMAIN s = 1 .. l /\ \A i \in 1 .. l : s[i] \in 1 .. u
  BY <1>4, LenProperties, ElementOfSeq
<1>6. \A i \in 1 .. l : h[2 * i - 1] = said'[s[i]].answers
  BY <1>1, <1>4, <1>5
<1>7. CASE a # t.who
  <2>1. heard'[a] = h
    BY <1>2, <1>4, <1>7 DEF Spoke
  <2>2. SaidBy(a)' = s
    BY <1>4, <1>7, SpokeSaid
  <2>3. Pairs(h, s, l, said')
    BY <1>4, <1>6 DEF Pairs
  <2> QED BY <2>1, <2>2, <2>3
<1>8. CASE a = t.who
  <2>1. PICK m : m = LastMessage(t.hears)
    OBVIOUS
  <2>2. a # Human
    BY DEF Made, Human
  <2>3. heard' = [heard EXCEPT ![a] = @ \o <<m, u + 1>>] /\ m # 0 /\ answer.answers = m
    BY <1>8, <2>1, <2>2 DEF Spoke
  <2>4. m \in 1 .. u
    <3>1. said \in Seq(Talk(n)) /\ DOMAIN said = 1 .. u
      BY SpokeSaid
    <3> QED BY <2>1, <2>3, <3>1, LastIs
  <2>5. PICK y : y = <<m, u + 1>>
    OBVIOUS
  <2>6. y \in Seq(Nat) /\ Len(y) = 2 /\ y[1] = m /\ y[2] = u + 1
    BY <1>1, <2>4, <2>5
  <2>7. h \in Seq(Nat)
    <3>1. 1 .. u \subseteq Nat
      BY <1>1
    <3> QED BY <1>4, <3>1, SeqMonotonic
  <2>8. PICK g : g = h \o y
    OBVIOUS
  <2>9. heard'[a] = g
    BY <1>2, <1>4, <2>3, <2>5, <2>8
  <2>10. PICK r : r = Append(s, u + 1)
    OBVIOUS
  <2>11. SaidBy(a)' = r
    BY <1>4, <1>8, <2>10, SpokeSaid
  <2>12. /\ Len(r) = l + 1 /\ r[l + 1] = u + 1
         /\ \A i \in 1 .. l : r[i] = s[i]
    <3>1. s \in Seq(Nat) /\ u + 1 \in Nat
      <4>1. 1 .. u \subseteq Nat
        BY <1>1
      <4> QED BY <1>1, <1>4, <4>1, SeqMonotonic
    <3> QED BY <1>4, <2>10, <3>1, AppendProperties
  <2>13. DOMAIN r = 1 .. l + 1
    <3>1. s \in Seq(Nat) /\ u + 1 \in Nat
      <4>1. 1 .. u \subseteq Nat
        BY <1>1
      <4> QED BY <1>1, <1>4, <4>1, SeqMonotonic
    <3> QED BY <2>10, <2>12, <3>1, AppendProperties, LenProperties
  <2>14. PICK k \in Nat : k = 2 * l
    BY <1>4
  <2>15. /\ Len(g) = k + 2 /\ g[k + 1] = m /\ g[k + 2] = u + 1
         /\ \A i \in 1 .. k : g[i] = h[i]
    <3>5. Len(h) = k
      BY <1>4, <2>14
    <3>6. /\ Len(h \o y) = Len(h) + Len(y)
          /\ \A i \in 1 .. Len(h) + Len(y) : (h \o y)[i] = IF i <= Len(h) THEN h[i] ELSE y[i - Len(h)]
      BY ONLY <2>6, <2>7, ConcatProperties
    <3>1. Len(g) = k + 2
      BY <2>6, <2>8, <3>5, <3>6
    <3>2. \A i \in 1 .. k + 2 : g[i] = IF i <= k THEN h[i] ELSE y[i - k]
      BY <2>6, <2>8, <3>5, <3>6
    <3>3. k + 1 - k = 1 /\ k + 2 - k = 2 /\ k + 1 \in 1 .. k + 2 /\ k + 2 \in 1 .. k + 2 /\ ~(k + 1 <= k) /\ ~(k + 2 <= k)
      OBVIOUS
    <3>4. \A i \in 1 .. k : i \in 1 .. k + 2 /\ i <= k
      OBVIOUS
    <3> QED BY <2>6, <3>1, <3>2, <3>3, <3>4
  <2>16. 2 * (l + 1) = k + 2 /\ 2 * (l + 1) - 1 = k + 1
    BY <1>4, <2>14
  <2>17. said'[u + 1].answers = m
    BY <1>1, <2>3
  <2>18. ASSUME NEW i \in 1 .. l + 1
         PROVE  g[2 * i] = r[i] /\ g[2 * i - 1] = said'[r[i]].answers
    <3>1. CASE i = l + 1
      BY <2>12, <2>15, <2>16, <2>17, <3>1
    <3>2. CASE i \in 1 .. l
      <4>1. 2 * i \in 1 .. k /\ 2 * i - 1 \in 1 .. k
        BY <1>4, <2>14, <3>2
      <4>2. g[2 * i] = h[2 * i] /\ g[2 * i - 1] = h[2 * i - 1] /\ r[i] = s[i]
        BY <2>12, <2>15, <3>2, <4>1
      <4> QED BY <1>4, <1>6, <3>2, <4>2
    <3> QED BY <1>4, <2>18, <3>1, <3>2
  <2>19. l + 1 \in Nat /\ Len(g) = 2 * (l + 1)
    BY <1>4, <2>15, <2>16
  <2>20. Pairs(g, r, l + 1, said')
    BY <2>12, <2>13, <2>18, <2>19 DEF Pairs
  <2> QED BY <2>9, <2>11, <2>20
<1> QED BY <1>7, <1>8

LEMMA SpokeAnswers ==
  ASSUME DebTypes, NobodyAnswersItself, Newest, NEW t, NEW answer, NEW n, NEW u, Spoke(t, answer, n, u)
  PROVE  NobodyAnswersItself' /\ Newest'
<1>1. /\ said \in Seq(Talk(n))
      /\ DOMAIN said = 1 .. u /\ DOMAIN said' = 1 .. u + 1 /\ u \in Nat
      /\ \A i \in 1 .. u : said'[i] = said[i] /\ said[i] \in Talk(n)
      /\ said'[u + 1] = answer /\ answer.from = t.who
  <2>1. u \in Nat /\ answer.from = t.who
    BY DEF Spoke
  <2> QED BY <2>1, SpokeSaid
<1>2. ASSUME NEW i \in 1 .. u, said[i].answers # 0
      PROVE  /\ said[i].answers \in 1 .. u /\ said[i].answers < i
             /\ said[said[i].answers].from # said[i].from
             /\ \A j \in said[i].answers + 1 .. i - 1 : said[j].from # said[said[i].answers].from
  <2>1. said[i].answers \in Nat
    BY <1>1 DEF Talk
  <2> QED BY <1>1, <1>2, <2>1 DEF NobodyAnswersItself, Newest
<1>3. ASSUME answer.answers # 0
      PROVE  /\ answer.answers \in 1 .. u /\ said[answer.answers].from # answer.from
             /\ \A j \in answer.answers + 1 .. u : said[j].from # said[answer.answers].from
  <2>1. t.who # Human /\ answer.answers = LastMessage(t.hears) /\ LastMessage(t.hears) # 0 /\ t.hears # t.who
    BY <1>3 DEF Spoke
  <2>2. /\ LastMessage(t.hears) \in DOMAIN said /\ said[LastMessage(t.hears)].from = t.hears
        /\ \A i \in DOMAIN said : said[i].from = t.hears => i <= LastMessage(t.hears)
    BY <1>1, <2>1, LastIs
  <2>3. PICK m : m = answer.answers
    OBVIOUS
  <2>4. m \in 1 .. u /\ said[m].from = t.hears /\ \A i \in 1 .. u : said[i].from = t.hears => i <= m
    BY <1>1, <2>1, <2>2, <2>3
  <2>5. ASSUME NEW j \in m + 1 .. u
        PROVE  said[j].from # t.hears
    BY <1>1, <2>4, <2>5
  <2> QED BY <1>1, <2>1, <2>3, <2>4, <2>5
<1>4. ASSUME NEW i \in 1 .. u + 1, said'[i].answers # 0
      PROVE  /\ said'[i].answers < i /\ said'[said'[i].answers].from # said'[i].from
             /\ \A j \in said'[i].answers + 1 .. i - 1 : said'[j].from # said'[said'[i].answers].from
  <2>1. PICK k : k = said'[i].answers
    OBVIOUS
  <2>2. CASE i \in 1 .. u
    <3>1. said'[i] = said[i]
      BY <1>1, <2>2
    <3>2. /\ k \in 1 .. u /\ k < i /\ said[k].from # said[i].from
          /\ \A j \in k + 1 .. i - 1 : said[j].from # said[k].from
      BY <1>2, <1>4, <2>1, <2>2, <3>1
    <3>3. said'[k] = said[k] /\ \A j \in k + 1 .. i - 1 : said'[j] = said[j]
      <4>1. \A j \in k + 1 .. i - 1 : j \in 1 .. u
        BY <1>1, <2>2, <3>2
      <4> QED BY <1>1, <3>2, <4>1
    <3> QED BY <2>1, <3>1, <3>2, <3>3
  <2>3. CASE i = u + 1
    <3>1. said'[i] = answer /\ k = answer.answers
      BY <1>1, <2>1, <2>3
    <3>2. /\ k \in 1 .. u /\ said[k].from # answer.from
          /\ \A j \in k + 1 .. u : said[j].from # said[k].from
      BY <1>3, <1>4, <2>1, <3>1
    <3>3. said'[k] = said[k] /\ \A j \in k + 1 .. u : said'[j] = said[j]
      <4>1. \A j \in k + 1 .. u : j \in 1 .. u
        BY <1>1, <3>2
      <4> QED BY <1>1, <3>2, <4>1
    <3>4. k < i /\ i - 1 = u
      BY <1>1, <2>3, <3>2
    <3> QED BY <2>1, <3>1, <3>2, <3>3, <3>4
  <2> QED BY <1>1, <2>2, <2>3
<1>5. NobodyAnswersItself'
  BY <1>1, <1>4 DEF NobodyAnswersItself
<1>6. Newest'
  BY <1>1, <1>4 DEF Newest
<1> QED BY <1>5, <1>6

LEMMA SpokeMonitor ==
  ASSUME DebTypes, MonitorExact, NEW t, NEW answer, NEW n, NEW u, Spoke(t, answer, n, u)
  PROVE  MonitorExact'
<1>1. /\ n \in Nat /\ n = Len(names) /\ u \in Nat /\ answer.from = t.who
      /\ UNCHANGED <<script, roster, names>>
  BY DEF Spoke
<1>2. PICK A : A = Range(roster)
  OBVIOUS
<1>3. A \subseteq Made /\ A \subseteq 1 .. n /\ names \in Seq(Nat)
  <2>1. A \subseteq everyone /\ everyone \subseteq 1 .. n /\ n <= MaxMade /\ names \in Seq(Nat)
    BY <1>1, <1>2 DEF DebTypes
  <2>2. 1 .. n \subseteq Made
    BY <1>1, <2>1, DebateAssumption DEF Made
  <2> QED BY <2>1, <2>2
<1>4. /\ DOMAIN said = 1 .. u /\ DOMAIN said' = 1 .. u + 1
      /\ \A i \in 1 .. u : said'[i] = said[i]
      /\ said'[u + 1] = answer
  BY SpokeSaid
<1> SUFFICES ASSUME script \in Scripts, NEW a \in A
             PROVE  /\ monitor'[a].messages = Len(SaidBy(a)')
                    /\ script = "consciencia" =>
                         monitor'[a].deltas =
                           Cardinality({i \in DOMAIN said' : said'[i].from = a /\ said'[i].intent = "DELTA"})
                    /\ Range(monitor'[a].books) \subseteq Range(BooksOf(names[a]))
  BY <1>1, <1>2 DEF MonitorExact
<1>5. PICK D : D = {i \in DOMAIN said : said[i].from = a /\ said[i].intent = "DELTA"}
  OBVIOUS
<1>6. PICK E : E = {i \in DOMAIN said' : said'[i].from = a /\ said'[i].intent = "DELTA"}
  OBVIOUS
<1>7. /\ monitor[a].messages = Len(SaidBy(a))
      /\ script = "consciencia" => monitor[a].deltas = Cardinality(D)
      /\ Range(monitor[a].books) \subseteq Range(BooksOf(names[a]))
  BY <1>2, <1>5 DEF MonitorExact
<1>8. IsFiniteSet(D) /\ u + 1 \notin D /\ D \subseteq 1 .. u
  <2>1. D \subseteq 1 .. u
    BY <1>4, <1>5
  <2>2. IsFiniteSet(1 .. u)
    BY <1>1, FS_Interval
  <2>3. u + 1 \notin 1 .. u
    BY <1>1
  <2> QED BY <2>1, <2>2, <2>3, FS_Subset
<1>9. \A i \in 1 .. u : i \in E <=> i \in D
  <2> SUFFICES ASSUME NEW i \in 1 .. u
               PROVE  i \in E <=> i \in D
    OBVIOUS
  <2>1. said'[i] = said[i]
    BY <1>4
  <2>2. i \in DOMAIN said /\ i \in DOMAIN said'
    BY <1>1, <1>4
  <2>3. i \in D <=> said[i].from = a /\ said[i].intent = "DELTA"
    BY <1>5, <2>2
  <2>4. i \in E <=> said'[i].from = a /\ said'[i].intent = "DELTA"
    BY <1>6, <2>2
  <2> QED BY <2>1, <2>3, <2>4
<1>14. (\A i \in 1 .. u + 1 : i \in 1 .. u \/ i = u + 1) /\ u + 1 \in 1 .. u + 1 /\ 1 .. u \subseteq 1 .. u + 1
  BY <1>1
<1>15. PICK N, v : N = 1 .. u + 1 /\ v = u + 1
  OBVIOUS
<1>16. PICK I : I = 1 .. u
  OBVIOUS
<1>17. /\ \A i \in N : i \in I \/ i = v
       /\ v \in N /\ I \subseteq N /\ D \subseteq I /\ v \notin D
       /\ \A i \in I : i \in E <=> i \in D
  BY <1>8, <1>9, <1>14, <1>15, <1>16
<1>10. E \subseteq 1 .. u + 1 /\ (u + 1 \in E <=> answer.from = a /\ answer.intent = "DELTA")
  BY <1>1, <1>4, <1>6
<1>18. E \subseteq N /\ (v \in E <=> answer.from = a /\ answer.intent = "DELTA")
  BY <1>10, <1>15
<1>11. a \in Made /\ a \in 1 .. n
  BY <1>3
<1>12. CASE a # t.who
  <2>1. SaidBy(a)' = SaidBy(a)
    BY <1>12, SpokeSaid
  <2>2. monitor'[a] = monitor[a]
    BY <1>11, <1>12, RecordIs
  <2>3. E = D
    BY <1>1, <1>12, <1>17, <1>18
  <2> QED BY <1>6, <1>7, <2>1, <2>2, <2>3
<1>13. CASE a = t.who
  <2>1. SaidBy(a)' = Append(SaidBy(a), u + 1)
    BY <1>13, SpokeSaid
  <2>2. PICK s : s = SaidBy(a)
    OBVIOUS
  <2>3. Len(Append(s, u + 1)) = Len(s) + 1
    <3>1. said \in Seq(Talk(n))
      BY SpokeSaid
    <3>2. PICK w \in Nat : w = Len(said)
      BY <3>1, LenProperties
    <3>3. By(said, a) \in Seq(1 .. w)
      BY <3>1, <3>2, SaidIs
    <3>4. s \in Seq(1 .. w)
      BY <2>2, <3>3, SaidIsBy
    <3>5. s \in Seq(Nat)
      <4>1. 1 .. w \subseteq Nat
        OBVIOUS
      <4> QED BY <3>4, <4>1, SeqMonotonic
    <3>6. u + 1 \in Nat
      BY <1>1
    <3> QED BY <3>5, <3>6, AppendProperties
  <2>4. /\ monitor'[a].messages = monitor[a].messages + 1
        /\ script = "consciencia" =>
             monitor'[a].deltas =
               IF answer.intent = "DELTA" THEN monitor[a].deltas + 1 ELSE monitor[a].deltas
        /\ \/ monitor'[a].books = monitor[a].books
           \/ \E b \in Range(BooksOf(names[a])) : monitor'[a].books = Append(monitor[a].books, b)
    BY <1>11, <1>13, RecordIs
  <2>5. monitor'[a].messages = Len(SaidBy(a)')
    BY <1>7, <2>1, <2>2, <2>3, <2>4
  <2>6. script = "consciencia" => monitor'[a].deltas = Cardinality(E)
    <3> HAVE script = "consciencia"
    <3>1. CASE answer.intent = "DELTA"
      <4>1. E = D \cup {u + 1}
        BY <1>1, <1>13, <1>15, <1>17, <1>18, <3>1
      <4>2. Cardinality(D \cup {u + 1}) = Cardinality(D) + 1
        BY <1>8, FS_AddElement
      <4> QED BY <1>7, <2>4, <3>1, <4>1, <4>2
    <3>2. CASE answer.intent # "DELTA"
      <4>1. E = D
        BY <1>17, <1>18, <3>2
      <4> QED BY <1>7, <2>4, <3>2, <4>1
    <3> QED BY <3>1, <3>2
  <2>7. Range(monitor'[a].books) \subseteq Range(BooksOf(names[a]))
    <3>1. CASE monitor'[a].books = monitor[a].books
      BY <1>7, <3>1
    <3>2. CASE \E b \in Range(BooksOf(names[a])) : monitor'[a].books = Append(monitor[a].books, b)
      <4>1. PICK b \in Range(BooksOf(names[a])) : monitor'[a].books = Append(monitor[a].books, b)
        BY <3>2
      <4>2. PICK x, R : x = monitor[a].books /\ R = Range(BooksOf(names[a]))
        OBVIOUS
      <4>3. x \in Seq(Books)
        <5>1. monitor[a] \in DebateCount
          BY <1>11 DEF DebTypes
        <5> QED BY <4>2, <5>1 DEF DebateCount
      <4>4. PICK l \in Nat : l = Len(x) /\ DOMAIN x = 1 .. l
        BY <4>3, LenProperties
      <4>5. \A i \in 1 .. l : x[i] \in R
        BY <1>7, <4>2, <4>4 DEF Range
      <4>6. PICK y : y = Append(x, b)
        OBVIOUS
      <4>7. DOMAIN y = 1 .. l + 1 /\ y[l + 1] = b /\ \A i \in 1 .. l : y[i] = x[i]
        BY <4>3, <4>4, <4>6
      <4>8. \A i \in 1 .. l + 1 : y[i] \in R
        <5> SUFFICES ASSUME NEW i \in 1 .. l + 1
                     PROVE  y[i] \in R
          OBVIOUS
        <5>1. i \in 1 .. l \/ i = l + 1
          OBVIOUS
        <5> QED BY <4>1, <4>2, <4>5, <4>7, <5>1
      <4> QED BY <4>1, <4>2, <4>6, <4>7, <4>8 DEF Range
    <3> QED BY <2>4, <3>1, <3>2
  <2> QED BY <1>6, <2>5, <2>6, <2>7
<1> QED BY <1>12, <1>13

LEMMA DebSpeaks ==
  ASSUME DebInv, running = "on", Turn
  PROVE  DebInv'
<1>1. /\ DebTypes /\ Planned /\ Fresh /\ Going
      /\ NobodyAnswersItself /\ Paired /\ MonitorExact /\ Newest
  BY DEF DebInv
<1>2. PICK t, answer, n, u : Spoke(t, answer, n, u)
  BY <1>1, TurnIs
<1>3. DebTypes' /\ Planned' /\ Going'
  BY <1>1, <1>2, SpokeTypes, SpokePlanned, SpokeGoing
<1>4. NobodyAnswersItself' /\ Newest' /\ Paired' /\ MonitorExact'
  BY <1>1, <1>2, SpokeAnswers, SpokePaired, SpokeMonitor
<1>5. Fresh'
  <2>1. running' = running
    BY <1>2 DEF Spoke
  <2> QED BY <2>1 DEF Fresh
<1> QED BY <1>3, <1>4, <1>5 DEF DebInv

LEMMA DebInductive ==
  ASSUME DebInv, [DebateNext]_debateVars
  PROVE  DebInv'
<1>1. CASE RunScript
  BY <1>1, DebScript
<1>2. CASE ChangeRoster
  BY <1>2, DebRoster
<1>3. CASE Command
  BY <1>3, DebCommand
<1>4. CASE running = "on" /\ (Turn \/ RespondFails \/ Skip)
  BY <1>4, DebSpeaks, DebFails, DebSkip
<1>5. CASE UNCHANGED debateVars
  <2>1. UNCHANGED <<script, running, roster, everyone, names, agenda, said, heard, netLog, monitor>>
    BY <1>5 DEF debateVars
  <2>2. \A a : (SaidBy(a))' = SaidBy(a)
    BY <2>1 DEF SaidBy
  <2>3. DebTypes'
    BY <2>1 DEF DebInv, DebTypes
  <2>4. Planned' /\ Fresh'
    BY <2>1 DEF DebInv, Planned, Fresh, Allowed
  <2>5. Going'
    BY <2>1, <2>2 DEF DebInv, Going, Spoken, LastMessage, TurnsLeft, Took, Reads
  <2>6. NobodyAnswersItself' /\ Newest'
    BY <2>1 DEF DebInv, NobodyAnswersItself, Newest
  <2>7. Paired' /\ MonitorExact'
    BY <2>1, <2>2 DEF DebInv, Paired, MonitorExact
  <2> QED BY <2>3, <2>4, <2>5, <2>6, <2>7 DEF DebInv
<1> QED BY <1>1, <1>2, <1>3, <1>4, <1>5 DEF DebateNext
=============================================================================
