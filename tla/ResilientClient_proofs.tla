------------------------ MODULE ResilientClient_proofs ------------------------
(***************************************************************************)
(* Proofs about ResilientClient: its types, that the circuit trips and     *)
(* paces its probes, and that a fallback ends in an error only when every  *)
(* client failed, for any number of callers, clients and retries.          *)
(***************************************************************************)
EXTENDS ResilientClient, FiniteSetTheorems, SequenceTheorems, TLAPS

Breaker == [state : {"CLOSED", "OPEN", "HALF_OPEN"}, failures : 0 .. Threshold,
            half_open_calls : 0 .. HalfOpenMax, rested : BOOLEAN]

(***************************************************************************)
(* What holds of a circuit b of client k that got n requests since its     *)
(* cooldown ran out: the requests are among half_open_calls, and none of   *)
(* them is left when the next cooldown is over.                            *)
(***************************************************************************)
Fit(k, b, n) ==
  /\ b.state = "CLOSED" => b.failures < Threshold
  /\ b.state = "HALF_OPEN" => n <= b.half_open_calls
  /\ b.state = "OPEN" => n <= HalfOpenMax /\ (b.rested => n = 0)
  /\ k \notin Guarded => b.state = "CLOSED"

Circuits == \A k \in Client :
  Fit(k, circuit[k], reached[k]) /\ (circuit[k].state = "CLOSED" => reached[k] = 0)

\* A caller that sleeps has an attempt left.
Patient == \A c \in Callers : phase[c] = "sleeping" => attempt[c] < MaxRetries

Stops(r) == {r[i] : i \in DOMAIN r}

\* The clients that failed an operation and those it has still to try are all.
Tour == \A c \in Callers : ~direct[c] =>
  /\ phase[c] \in {"running", "sleeping"} => tried[c] \cup Stops(route[c]) = Client
  /\ phase[c] = "failed" => tried[c] = Client

Inv == TypeOK /\ Circuits /\ Patient /\ Tour

(***************************************************************************)
(* The circuit breaker by itself.                                          *)
(***************************************************************************)
LEMMA ObservedFit ==
  ASSUME NEW k, NEW b \in Breaker, NEW n \in Nat, Fit(k, b, n)
  PROVE  Observed(b) \in Breaker /\ Fit(k, Observed(b), n)
<1>1. CASE b.state = "OPEN" /\ b.rested
  <2> DEFINE h == [b EXCEPT !.state = "HALF_OPEN", !.half_open_calls = 0, !.rested = FALSE]
  <2>1. Observed(b) = h
    BY <1>1 DEF Observed
  <2>2. 0 \in 0 .. HalfOpenMax
    BY ClientAssumption
  <2>3. h \in Breaker /\ h.state = "HALF_OPEN" /\ h.half_open_calls = 0
    BY <2>2 DEF Breaker
  <2>4. n = 0 /\ k \in Guarded
    BY <1>1 DEF Fit
  <2> QED BY <2>1, <2>3, <2>4 DEF Fit
<1>2. CASE ~(b.state = "OPEN" /\ b.rested)
  BY <1>2 DEF Observed
<1> QED BY <1>1, <1>2

LEMMA AdmittedFit ==
  ASSUME NEW k, NEW b \in Breaker, NEW n \in Nat, Fit(k, b, n), ~Refuses(b)
  PROVE  Admitted(b) \in Breaker /\ Fit(k, Admitted(b), n) /\ Fit(k, Admitted(b), n + 1)
BY ClientAssumption DEF Breaker, Fit, Admitted, Refuses

LEMMA ClosedFit ==
  ASSUME NEW k, NEW n \in Nat
  PROVE  Closed \in Breaker /\ Fit(k, Closed, n) /\ Closed.state = "CLOSED"
BY ClientAssumption DEF Breaker, Fit, Closed

LEMMA SuccessFit ==
  ASSUME NEW k, NEW b \in Breaker, NEW n \in Nat, Fit(k, b, n)
  PROVE  OnSuccess(b) \in Breaker /\ Fit(k, OnSuccess(b), n)
BY ClosedFit DEF OnSuccess

LEMMA FailureFit ==
  ASSUME NEW k \in Guarded, NEW b \in Breaker, NEW n \in Nat, Fit(k, b, n),
         b.state = "CLOSED" => n = 0
  PROVE  OnFailure(b) \in Breaker /\ Fit(k, OnFailure(b), n)
<1> DEFINE m == IF b.failures < Threshold THEN b.failures + 1 ELSE b.failures
<1>1. /\ Threshold \in Nat /\ HalfOpenMax \in Nat /\ m \in 0 .. Threshold
      /\ b.half_open_calls \in 0 .. HalfOpenMax /\ b.failures \in 0 .. Threshold
      /\ b.state \in {"CLOSED", "OPEN", "HALF_OPEN"}
  BY ClientAssumption DEF Breaker
<1>2. OnFailure(b) = [b EXCEPT !.failures = m, !.rested = FALSE,
                               !.state = IF @ = "HALF_OPEN" \/ m >= Threshold THEN "OPEN" ELSE @]
  BY DEF OnFailure
<1> HIDE DEF m
<1>3. /\ OnFailure(b) \in Breaker /\ OnFailure(b).rested = FALSE /\ OnFailure(b).failures = m
      /\ OnFailure(b).state = IF b.state = "HALF_OPEN" \/ m >= Threshold THEN "OPEN" ELSE b.state
  BY <1>1, <1>2 DEF Breaker
<1>4. n <= HalfOpenMax
  BY <1>1 DEF Fit
<1> QED BY <1>1, <1>3, <1>4 DEF Fit

(***************************************************************************)
(* Routes.                                                                 *)
(***************************************************************************)
LEMMA RouteParts ==
  ASSUME NEW r \in Seq(Client), r # <<>>
  PROVE  /\ Head(r) \in Client /\ Tail(r) \in Seq(Client)
         /\ Stops(r) = {Head(r)} \cup Stops(Tail(r))
         /\ Len(r) > 1 <=> Tail(r) # <<>>
         /\ ~(Len(r) > 1) => Stops(r) = {Head(r)}
<1>1. /\ Head(r) \in Client /\ Tail(r) \in Seq(Client) /\ Len(r) \in Nat /\ Len(r) >= 1
      /\ Len(Tail(r)) = Len(r) - 1 /\ Head(r) = r[1]
      /\ \A i \in 1 .. Len(Tail(r)) : Tail(r)[i] = r[i + 1]
      /\ DOMAIN r = 1 .. Len(r) /\ DOMAIN Tail(r) = 1 .. Len(Tail(r))
  OBVIOUS
<1>2. Stops(r) = {Head(r)} \cup Stops(Tail(r))
  <2>1. ASSUME NEW i \in DOMAIN r PROVE r[i] \in {Head(r)} \cup Stops(Tail(r))
    <3>1. CASE i = 1
      BY <1>1, <3>1
    <3>2. CASE i # 1
      <4>1. i - 1 \in 1 .. Len(Tail(r)) /\ Tail(r)[i - 1] = r[i]
        BY <1>1, <2>1, <3>2
      <4> QED BY <1>1, <4>1 DEF Stops
    <3> QED BY <3>1, <3>2
  <2>2. ASSUME NEW i \in DOMAIN Tail(r) PROVE Tail(r)[i] \in Stops(r)
    <3>1. i + 1 \in DOMAIN r /\ Tail(r)[i] = r[i + 1]
      BY <1>1, <2>2
    <3> QED BY <3>1 DEF Stops
  <2>3. Head(r) \in Stops(r)
    BY <1>1 DEF Stops
  <2> QED BY <2>1, <2>2, <2>3 DEF Stops
<1>3. Len(r) > 1 <=> Tail(r) # <<>>
  <2>1. ASSUME Tail(r) = <<>> PROVE Len(r) = 1
    <3> DEFINE n == Len(r)
               m == Len(Tail(r))
    <3>1. m = 0
      BY <2>1, EmptySeq
    <3>2. n \in Nat /\ m = n - 1
      BY <1>1
    <3> HIDE DEF n, m
    <3>3. n = 1
      BY <3>1, <3>2
    <3> QED BY <3>3 DEF n
  <2>2. Tail(r) # <<>> => Len(Tail(r)) > 0
    BY <1>1, EmptySeq
  <2> QED BY <1>1, <2>1, <2>2
<1>4. ~(Len(r) > 1) => Stops(r) = {Head(r)}
  BY <1>1 DEF Stops
<1> QED BY <1>1, <1>2, <1>3, <1>4

LEMMA OrderIsAll ==
  ASSUME NEW i \in Client
  PROVE  Order(i) \in Seq(Client) /\ Order(i) # <<>> /\ Stops(Order(i)) = Client
<1>1. Clients \in Nat \ {0} /\ Client = 1 .. Clients
  BY ClientAssumption DEF Client
<1>2. \A j \in Client : Order(i)[j] \in Client
  BY <1>1 DEF Order
<1>3. Order(i) \in [1 .. Clients -> Client]
  BY <1>1, <1>2 DEF Order
<1>4. Order(i) \in Seq(Client) /\ Len(Order(i)) = Clients
  BY <1>1, <1>3, SeqDef, LenProperties
<1>5. ASSUME NEW k \in Client PROVE k \in Stops(Order(i))
  <2>1. CASE k >= i
    <3>1. k - i + 1 \in Client /\ Order(i)[k - i + 1] = k
      BY <1>1, <2>1 DEF Order
    <3> QED BY <1>1, <1>3, <3>1 DEF Stops
  <2>2. CASE k < i
    <3>1. k - i + 1 + Clients \in Client /\ Order(i)[k - i + 1 + Clients] = k
      BY <1>1, <2>2 DEF Order
    <3> QED BY <1>1, <1>3, <3>1 DEF Stops
  <2> QED BY <1>1, <2>1, <2>2
<1>6. Stops(Order(i)) \subseteq Client
  BY <1>1, <1>2, <1>3 DEF Stops
<1> QED BY <1>1, <1>4, <1>5, <1>6

(***************************************************************************)
(* The history variables after a step of one caller.                       *)
(***************************************************************************)
\* Only c moves.
Alone(c) == \A d \in Callers \ {c} : phase'[d] = phase[d] /\ route'[d] = route[d]

\* The circuits bear one request more where c has just come to wait.
Bear(c) == \A k \in Client :
  /\ Fit(k, circuit'[k], reached[k])
  /\ phase'[c] = "running" /\ Head(route'[c]) = k => Fit(k, circuit'[k], reached[k] + 1)

LEMMA TrackKeeps ==
  ASSUME Inv, NEW c \in Callers, Alone(c), Track, Bear(c), circuit' \in [Client -> Breaker]
  PROVE  /\ Circuits' /\ reached' \in [Client -> Nat]
         /\ probing' \subseteq Callers /\ abandoned' \subseteq Guarded
<1>1. reached \in [Client -> Nat] /\ probing \subseteq Callers /\ Guarded \subseteq Client
  BY ClientAssumption DEF Inv, TypeOK
<1>2. ASSUME NEW k \in Client
      PROVE  /\ Cardinality(Sent(k)) \in {0, 1}
             /\ Cardinality(Sent(k)) = 1 => phase'[c] = "running" /\ Head(route'[c]) = k
  <2>1. ASSUME NEW d \in Sent(k) PROVE d = c /\ phase'[c] = "running" /\ Head(route'[c]) = k
    BY <2>1 DEF Alone, Sent
  <2>2. Sent(k) = {} \/ Sent(k) = {c}
    BY <2>1
  <2> QED BY <2>1, <2>2, FS_EmptySet, FS_Singleton
<1>3. reached' = [k \in Client |-> IF circuit'[k].state = "CLOSED" THEN 0
                                   ELSE reached[k] + Cardinality(Sent(k))]
  BY DEF Track
<1>4. reached' \in [Client -> Nat]
  <2>1. ASSUME NEW k \in Client PROVE reached[k] + Cardinality(Sent(k)) \in Nat
    BY <1>1, <1>2, <2>1
  <2> QED BY <1>3, <2>1
<1>5. ASSUME NEW k \in Client
      PROVE  /\ Fit(k, circuit'[k], reached'[k])
             /\ circuit'[k].state = "CLOSED" => reached'[k] = 0
  <2>1. CASE circuit'[k].state = "CLOSED"
    BY <1>3, <2>1 DEF Bear, Fit
  <2>2. CASE circuit'[k].state # "CLOSED"
    <3>1. reached'[k] = reached[k] \/ (reached'[k] = reached[k] + 1 /\ phase'[c] = "running"
                                        /\ Head(route'[c]) = k)
      BY <1>1, <1>2, <1>3, <2>2
    <3> QED BY <2>2, <3>1 DEF Bear
  <2> QED BY <2>1, <2>2
<1>6. probing' \subseteq Callers
  BY <1>1 DEF Track, Sent, Out
<1>7. abandoned' \subseteq Guarded
  BY DEF Track, Bear, Fit
<1> QED BY <1>4, <1>5, <1>6, <1>7 DEF Circuits

\* One more request, or one more wait, for caller c with the circuits so far.
LEMMA AskKeeps ==
  ASSUME Inv, NEW c \in Callers, NEW r \in Seq(Client), r # <<>>,
         NEW n \in 0 .. MaxRetries, NEW breakers \in [Client -> Breaker],
         \A k \in Client : Fit(k, breakers[k], reached[k]),
         Refuses(Observed(breakers[Head(r)])) => n < MaxRetries,
         Ask(c, r, n, breakers)
  PROVE  /\ circuit' \in [Client -> Breaker] /\ Bear(c) /\ Alone(c) /\ Track
         /\ \/ Enters(c, "running", r, n)
            \/ Enters(c, "sleeping", r, n) /\ Head(r) \in Guarded /\ n < MaxRetries
<1> DEFINE k == Head(r)
           b == Observed(breakers[k])
<1>1. k \in Client /\ \A j \in Client : reached[j] \in Nat
  BY RouteParts DEF Inv, TypeOK
<1>2. b \in Breaker /\ Fit(k, b, reached[k])
  BY <1>1, ObservedFit
<1>3. phase \in [Callers -> {"ready", "running", "sleeping", "failed"}]
  BY DEF Inv, TypeOK
<1>4. Track
  BY DEF Ask
<1>5. CASE k \in Guarded /\ Refuses(b)
  <2>1. Enters(c, "sleeping", r, n) /\ circuit' = [breakers EXCEPT ![k] = b]
    BY <1>5 DEF Ask
  <2>2. phase'[c] = "sleeping" /\ Alone(c)
    BY <1>3, <2>1 DEF Enters, Alone
  <2> HIDE DEF b, k
  <2>3. circuit' \in [Client -> Breaker]
        /\ \A j \in Client : circuit'[j] = IF j = k THEN b ELSE breakers[j]
    BY <1>1, <1>2, <2>1
  <2>4. Bear(c)
    BY <1>2, <2>2, <2>3 DEF Bear
  <2> QED BY <1>4, <1>5, <2>1, <2>2, <2>3, <2>4 DEF b, k
<1>6. CASE ~(k \in Guarded /\ Refuses(b))
  <2> DEFINE a == IF k \in Guarded THEN Admitted(b) ELSE breakers[k]
  <2>1. Enters(c, "running", r, n) /\ circuit' = [breakers EXCEPT ![k] = a]
    BY <1>6 DEF Ask
  <2>2. Head(route'[c]) = k /\ Alone(c)
    BY <1>3, <2>1 DEF Enters, Alone, Inv, TypeOK
  <2>3. a \in Breaker /\ Fit(k, a, reached[k]) /\ Fit(k, a, reached[k] + 1)
    <3>1. CASE k \in Guarded
      BY <1>1, <1>2, <1>6, <3>1, AdmittedFit
    <3>2. CASE k \notin Guarded
      BY <1>1, <3>2 DEF Fit
    <3> QED BY <3>1, <3>2
  <2> HIDE DEF a, b, k
  <2>4. circuit' \in [Client -> Breaker]
        /\ \A j \in Client : circuit'[j] = IF j = k THEN a ELSE breakers[j]
    BY <1>1, <2>1, <2>3
  <2>5. Bear(c)
    BY <2>2, <2>3, <2>4 DEF Bear
  <2> QED BY <1>4, <2>1, <2>2, <2>4, <2>5
<1> QED BY <1>5, <1>6

(***************************************************************************)
(* The invariant after a step of caller c.                                 *)
(***************************************************************************)
Place(c, p, r, n) ==
  /\ p \in {"ready", "running", "sleeping", "failed"} /\ r \in Seq(Client)
  /\ n \in 0 .. MaxRetries
  /\ r = <<>> <=> p \in {"ready", "failed"}
  /\ p = "sleeping" => Head(r) \in Guarded /\ n < MaxRetries
  /\ Enters(c, p, r, n)

\* What was done of the operation of c, whose outcome so far is p.
Done(c, p, r) ==
  /\ direct' \in [Callers -> BOOLEAN] /\ tried' \in [Callers -> SUBSET Client]
  /\ \A d \in Callers \ {c} : direct'[d] = direct[d] /\ tried'[d] = tried[d]
  /\ ~direct'[c] => /\ p \in {"running", "sleeping"} => tried'[c] \cup Stops(r) = Client
                    /\ p = "failed" => tried'[c] = Client

LEMMA StepKeeps ==
  ASSUME Inv, NEW c \in Callers, NEW p, NEW r, NEW n,
         Place(c, p, r, n), Done(c, p, r), Track, Bear(c),
         circuit' \in [Client -> Breaker], index' \in Client
  PROVE  Inv'
<1>1. /\ phase \in [Callers -> {"ready", "running", "sleeping", "failed"}]
      /\ route \in [Callers -> Seq(Client)] /\ attempt \in [Callers -> 0 .. MaxRetries]
  BY DEF Inv, TypeOK
<1>2. /\ phase' \in [Callers -> {"ready", "running", "sleeping", "failed"}]
      /\ route' \in [Callers -> Seq(Client)] /\ attempt' \in [Callers -> 0 .. MaxRetries]
      /\ phase'[c] = p /\ route'[c] = r /\ attempt'[c] = n
      /\ \A d \in Callers \ {c} :
           phase'[d] = phase[d] /\ route'[d] = route[d] /\ attempt'[d] = attempt[d]
  BY <1>1 DEF Place, Enters
<1>3. /\ Circuits' /\ reached' \in [Client -> Nat]
      /\ probing' \subseteq Callers /\ abandoned' \subseteq Guarded
  BY <1>2, TrackKeeps DEF Alone
<1>4. TypeOK'
  <2>1. ASSUME NEW d \in Callers
        PROVE  /\ route'[d] = <<>> <=> phase'[d] \in {"ready", "failed"}
               /\ phase'[d] = "sleeping" => Head(route'[d]) \in Guarded
    BY <1>2 DEF Inv, TypeOK, Place
  <2> QED BY <1>2, <1>3, <2>1 DEF TypeOK, Breaker, Done
<1>5. Patient'
  BY <1>2 DEF Inv, Patient, Place
<1>6. Tour'
  <2>1. ASSUME NEW d \in Callers, ~direct'[d]
        PROVE  /\ phase'[d] \in {"running", "sleeping"} =>
                    tried'[d] \cup Stops(route'[d]) = Client
               /\ phase'[d] = "failed" => tried'[d] = Client
    <3>1. CASE d = c
      BY <1>2, <2>1, <3>1 DEF Done
    <3>2. CASE d # c
      <4>1. /\ direct'[d] = direct[d] /\ tried'[d] = tried[d]
            /\ phase'[d] = phase[d] /\ route'[d] = route[d]
        BY <1>2, <3>2 DEF Done
      <4>2. ~direct[d]
        BY <2>1, <4>1
      <4> QED BY <4>1, <4>2 DEF Inv, Tour
    <3> QED BY <3>1, <3>2
  <2> QED BY <2>1 DEF Tour, Stops
<1> QED BY <1>3, <1>4, <1>5, <1>6 DEF Inv

LEMMA InitInv == Init => Inv
<1> SUFFICES ASSUME Init PROVE Inv
  OBVIOUS
<1>1. /\ 1 \in Client /\ Client \subseteq Nat /\ 0 \in 0 .. MaxRetries
      /\ Closed \in Breaker /\ <<>> \in Seq(Client) /\ Guarded \subseteq Client
  BY ClientAssumption, EmptySeq DEF Client, Breaker, Closed
<1>2. TypeOK
  BY <1>1 DEF Init, TypeOK, Breaker
<1>3. Circuits
  BY ClosedFit DEF Init, Circuits
<1>4. Patient /\ Tour
  BY DEF Init, Patient, Tour
<1> QED BY <1>2, <1>3, <1>4 DEF Inv

\* Caller c asks the first client of r, and the invariant holds whether it may or not.
LEMMA AskFrom ==
  ASSUME Inv, NEW c \in Callers, NEW r \in Seq(Client), r # <<>>,
         NEW n \in 0 .. MaxRetries, NEW breakers \in [Client -> Breaker],
         \A k \in Client : Fit(k, breakers[k], reached[k]),
         Refuses(Observed(breakers[Head(r)])) => n < MaxRetries,
         Ask(c, r, n, breakers), index' \in Client,
         Done(c, "running", r)
  PROVE  Inv'
<1>1. /\ circuit' \in [Client -> Breaker] /\ Bear(c) /\ Track
      /\ \/ Enters(c, "running", r, n)
         \/ Enters(c, "sleeping", r, n) /\ Head(r) \in Guarded /\ n < MaxRetries
  BY AskKeeps
<1>2. CASE Enters(c, "running", r, n)
  <2>1. Place(c, "running", r, n)
    BY <1>2 DEF Place
  <2> QED BY <1>1, <2>1, StepKeeps
<1>3. CASE Enters(c, "sleeping", r, n) /\ Head(r) \in Guarded /\ n < MaxRetries
  <2>1. Place(c, "sleeping", r, n) /\ Done(c, "sleeping", r)
    BY <1>3 DEF Place, Done
  <2> QED BY <1>1, <2>1, StepKeeps
<1> QED BY <1>1, <1>2, <1>3

\* What the invariant says of a caller that is under way, and of the circuits.
LEMMA UnderWay ==
  ASSUME Inv, NEW c \in Callers, phase[c] \in {"running", "sleeping"}
  PROVE  /\ route[c] \in Seq(Client) /\ route[c] # <<>> /\ Head(route[c]) \in Client
         /\ tried[c] \subseteq Client /\ attempt[c] \in 0 .. MaxRetries
         /\ ~direct[c] => tried[c] \cup Stops(route[c]) = Client
         /\ phase[c] = "sleeping" => Head(route[c]) \in Guarded /\ attempt[c] < MaxRetries
<1>1. route[c] \in Seq(Client) /\ route[c] # <<>>
  BY DEF Inv, TypeOK
<1> QED BY <1>1, RouteParts DEF Inv, TypeOK, Patient, Tour

LEMMA CircuitFacts ==
  ASSUME Inv
  PROVE  /\ circuit \in [Client -> Breaker] /\ reached \in [Client -> Nat]
         /\ \A k \in Client : /\ Fit(k, circuit[k], reached[k])
                              /\ circuit[k].state = "CLOSED" => reached[k] = 0
BY DEF Inv, TypeOK, Breaker, Circuits

\* Where one circuit has changed and the others have not.
LEMMA OneCircuit ==
  ASSUME Inv, NEW k \in Client, NEW b \in Breaker, Fit(k, b, reached[k])
  PROVE  /\ [circuit EXCEPT ![k] = b] \in [Client -> Breaker]
         /\ \A j \in Client : Fit(j, [circuit EXCEPT ![k] = b][j], reached[j])
BY CircuitFacts

\* A step after which c waits for nothing.
LEMMA RestKeeps ==
  ASSUME Inv, NEW c \in Callers, NEW p \in {"ready", "failed"},
         Enters(c, p, <<>>, 0), Track, Done(c, p, <<>>), index' \in Client,
         circuit' \in [Client -> Breaker],
         \A k \in Client : Fit(k, circuit'[k], reached[k])
  PROVE  Inv'
<1>1. Place(c, p, <<>>, 0)
  BY ClientAssumption, EmptySeq DEF Place
<1>2. phase'[c] # "running"
  BY DEF Enters, Inv, TypeOK
<1>3. Bear(c)
  BY <1>2 DEF Bear
<1> QED BY <1>1, <1>3, StepKeeps

LEMMA GiveUpKeeps ==
  ASSUME Inv, NEW c \in Callers, phase[c] \in {"running", "sleeping"},
         NEW breakers \in [Client -> Breaker],
         \A k \in Client : Fit(k, breakers[k], reached[k]),
         GiveUp(c, breakers), UNCHANGED <<index, direct>>
  PROVE  Inv'
<1> DEFINE r == route[c]
<1>1. /\ r \in Seq(Client) /\ r # <<>> /\ Head(r) \in Client
      /\ ~direct[c] => tried[c] \cup Stops(r) = Client
  BY UnderWay
<1>2. /\ Tail(r) \in Seq(Client) /\ Stops(r) = {Head(r)} \cup Stops(Tail(r))
      /\ Len(r) > 1 <=> Tail(r) # <<>>
      /\ ~(Len(r) > 1) => Stops(r) = {Head(r)}
  BY <1>1, RouteParts
<1>3. /\ direct' = direct /\ direct \in [Callers -> BOOLEAN] /\ index' \in Client
      /\ tried \in [Callers -> SUBSET Client]
      /\ tried' = [tried EXCEPT ![c] = @ \cup {Head(r)}]
  BY DEF Inv, TypeOK, GiveUp
<1>4. /\ tried' \in [Callers -> SUBSET Client] /\ tried'[c] = tried[c] \cup {Head(r)}
      /\ \A d \in Callers \ {c} : tried'[d] = tried[d]
  BY <1>1, <1>3
<1>5. CASE Len(r) > 1
  <2>1. Ask(c, Tail(r), 0, breakers) /\ 0 \in 0 .. MaxRetries /\ 0 < MaxRetries
    BY <1>5, ClientAssumption DEF GiveUp
  <2>2. Done(c, "running", Tail(r))
    BY <1>1, <1>2, <1>3, <1>4 DEF Done
  <2> QED BY <1>2, <1>3, <1>5, <2>1, <2>2, AskFrom
<1>6. CASE ~(Len(r) > 1)
  <2>1. Enters(c, "failed", <<>>, 0) /\ circuit' = breakers /\ Track
    BY <1>6 DEF GiveUp
  <2>2. Done(c, "failed", <<>>)
    BY <1>1, <1>2, <1>3, <1>4, <1>6 DEF Done
  <2> QED BY <1>3, <2>1, <2>2, RestKeeps
<1> QED BY <1>5, <1>6

(***************************************************************************)
(* One lemma for each action.                                              *)
(***************************************************************************)
LEMMA StartKeeps ==
  ASSUME Inv, NEW c \in Callers, Start(c)
  PROVE  Inv'
<1>1. /\ index \in Client /\ index' = index /\ 0 \in 0 .. MaxRetries /\ 0 < MaxRetries
      /\ tried \in [Callers -> SUBSET Client] /\ tried' = [tried EXCEPT ![c] = {}]
      /\ direct \in [Callers -> BOOLEAN]
  BY ClientAssumption DEF Inv, TypeOK, Start
<1>2. /\ tried' \in [Callers -> SUBSET Client] /\ tried'[c] = {}
      /\ \A d \in Callers \ {c} : tried'[d] = tried[d]
  BY <1>1
<1>3. PICK d \in BOOLEAN :
        /\ direct' = [direct EXCEPT ![c] = d]
        /\ IF d THEN \E k \in Guarded : Ask(c, <<k>>, 0, circuit)
                ELSE Ask(c, Order(index), 0, circuit)
  BY DEF Start
<1>4. /\ direct' \in [Callers -> BOOLEAN] /\ direct'[c] = d
      /\ \A e \in Callers \ {c} : direct'[e] = direct[e]
  BY <1>1, <1>3
<1>5. CASE d
  <2>1. PICK k \in Guarded : Ask(c, <<k>>, 0, circuit)
    BY <1>3, <1>5
  <2>2. <<k>> \in Seq(Client) /\ <<k>> # <<>>
    BY ClientAssumption
  <2>3. Done(c, "running", <<k>>)
    BY <1>2, <1>4, <1>5 DEF Done
  <2> QED BY <1>1, <2>1, <2>2, <2>3, CircuitFacts, AskFrom
<1>6. CASE ~d
  <2>1. Ask(c, Order(index), 0, circuit)
    BY <1>3, <1>6
  <2>2. Order(index) \in Seq(Client) /\ Order(index) # <<>> /\ Stops(Order(index)) = Client
    BY <1>1, OrderIsAll
  <2>3. Done(c, "running", Order(index))
    BY <1>2, <1>4, <1>6, <2>2 DEF Done
  <2> QED BY <1>1, <2>1, <2>2, <2>3, CircuitFacts, AskFrom
<1> QED BY <1>5, <1>6

LEMMA SucceedKeeps ==
  ASSUME Inv, NEW c \in Callers, Succeed(c)
  PROVE  Inv'
<1> DEFINE k == Head(route[c])
           b == IF k \in Guarded THEN Observed(OnSuccess(circuit[k])) ELSE circuit[k]
<1>1. k \in Client /\ index \in Client
  BY UnderWay DEF Succeed, Inv, TypeOK
<1>2. b \in Breaker /\ Fit(k, b, reached[k])
  BY <1>1, CircuitFacts, SuccessFit, ObservedFit
<1>3. /\ circuit' = [circuit EXCEPT ![k] = b] /\ Enters(c, "ready", <<>>, 0) /\ Track
      /\ index' \in Client
  BY <1>1 DEF Succeed
<1>4. Done(c, "ready", <<>>)
  BY DEF Inv, TypeOK, Succeed, Done
<1> HIDE DEF b, k
<1>5. circuit' \in [Client -> Breaker] /\ \A j \in Client : Fit(j, circuit'[j], reached[j])
  BY <1>1, <1>2, <1>3, OneCircuit
<1> QED BY <1>3, <1>4, <1>5, RestKeeps

LEMMA FailKeeps ==
  ASSUME Inv, NEW c \in Callers, Fail(c)
  PROVE  Inv'
<1> DEFINE k == Head(route[c])
           b == IF k \in Guarded THEN OnFailure(circuit[k]) ELSE circuit[k]
           breakers == [circuit EXCEPT ![k] = b]
<1>1. /\ k \in Client /\ phase[c] = "running" /\ UNCHANGED <<index, direct>>
      /\ route[c] \in Seq(Client) /\ route[c] # <<>> /\ attempt[c] \in 0 .. MaxRetries
      /\ index' \in Client
      /\ ~direct[c] => tried[c] \cup Stops(route[c]) = Client
  BY UnderWay DEF Fail, Inv, TypeOK
<1>2. b \in Breaker /\ Fit(k, b, reached[k])
  BY <1>1, CircuitFacts, FailureFit
<1>3. \/ /\ k \in Guarded /\ attempt[c] < MaxRetries
         /\ Enters(c, "sleeping", route[c], attempt[c]) /\ circuit' = breakers
         /\ Track /\ UNCHANGED tried
      \/ GiveUp(c, breakers)
  BY DEF Fail
<1>4. breakers \in [Client -> Breaker] /\ \A j \in Client : Fit(j, breakers[j], reached[j])
  <2> HIDE DEF b, k
  <2> QED BY <1>1, <1>2, OneCircuit
<1>5. CASE GiveUp(c, breakers)
  <2> HIDE DEF breakers
  <2> QED BY <1>1, <1>4, <1>5, GiveUpKeeps
<1>6. CASE /\ k \in Guarded /\ attempt[c] < MaxRetries
           /\ Enters(c, "sleeping", route[c], attempt[c]) /\ circuit' = breakers
           /\ Track /\ UNCHANGED tried
  <2>1. Place(c, "sleeping", route[c], attempt[c])
    BY <1>1, <1>6 DEF Place
  <2>2. Done(c, "sleeping", route[c])
    BY <1>1, <1>6 DEF Done, Inv, TypeOK
  <2>3. phase'[c] = "sleeping"
    BY <1>6 DEF Enters, Inv, TypeOK
  <2> HIDE DEF breakers
  <2>4. Bear(c)
    BY <1>4, <1>6, <2>3 DEF Bear
  <2> QED BY <1>1, <1>4, <1>6, <2>1, <2>2, <2>4, StepKeeps
<1> QED BY <1>3, <1>5, <1>6

LEMMA RetryKeeps ==
  ASSUME Inv, NEW c \in Callers, Retry(c)
  PROVE  Inv'
<1> DEFINE k == Head(route[c])
           b == Observed(circuit[k])
           breakers == [circuit EXCEPT ![k] = b]
<1>1. /\ k \in Client /\ phase[c] = "sleeping" /\ UNCHANGED <<index, direct>>
      /\ route[c] \in Seq(Client) /\ route[c] # <<>> /\ attempt[c] \in 0 .. MaxRetries
      /\ attempt[c] < MaxRetries
      /\ index' \in Client
      /\ ~direct[c] => tried[c] \cup Stops(route[c]) = Client
  BY UnderWay DEF Retry, Inv, TypeOK
<1>2. b \in Breaker /\ Fit(k, b, reached[k])
  BY <1>1, CircuitFacts, ObservedFit
<1>3. CASE Refuses(b) /\ attempt[c] + 1 = MaxRetries
  <2>1. GiveUp(c, breakers)
    BY <1>3 DEF Retry
  <2>2. breakers \in [Client -> Breaker] /\ \A j \in Client : Fit(j, breakers[j], reached[j])
    <3> HIDE DEF b, k
    <3> QED BY <1>1, <1>2, OneCircuit
  <2> HIDE DEF breakers
  <2> QED BY <1>1, <2>1, <2>2, GiveUpKeeps
<1>4. CASE ~(Refuses(b) /\ attempt[c] + 1 = MaxRetries)
  <2>1. Ask(c, route[c], attempt[c] + 1, circuit) /\ UNCHANGED tried
    BY <1>4 DEF Retry
  <2>2. attempt[c] + 1 \in 0 .. MaxRetries /\ (Refuses(b) => attempt[c] + 1 < MaxRetries)
    BY <1>1, <1>4, ClientAssumption
  <2>3. Done(c, "running", route[c])
    BY <1>1, <2>1 DEF Done, Inv, TypeOK
  <2> QED BY <1>1, <2>1, <2>2, <2>3, CircuitFacts, AskFrom
<1> QED BY <1>3, <1>4

LEMMA CancelKeeps ==
  ASSUME Inv, NEW c \in Callers, Cancel(c)
  PROVE  Inv'
<1>1. Enters(c, "ready", <<>>, 0) /\ Track /\ circuit' = circuit /\ index' \in Client
  BY DEF Cancel, Inv, TypeOK
<1>2. Done(c, "ready", <<>>)
  BY DEF Cancel, Done, Inv, TypeOK
<1> QED BY <1>1, <1>2, CircuitFacts, RestKeeps

LEMMA CooldownKeeps ==
  ASSUME Inv, NEW k \in Guarded, CooldownEnds(k)
  PROVE  Inv'
<1>1. /\ k \in Client /\ circuit[k] \in Breaker /\ circuit[k].state = "OPEN"
      /\ circuit' = [circuit EXCEPT ![k].rested = TRUE]
      /\ reached' = [reached EXCEPT ![k] = 0]
      /\ UNCHANGED <<index, call, tried, probing, abandoned>>
  BY ClientAssumption, CircuitFacts DEF CooldownEnds
<1> DEFINE b == [circuit[k] EXCEPT !.rested = TRUE]
<1>2. circuit' = [circuit EXCEPT ![k] = b]
  BY <1>1
<1>3. b \in Breaker /\ b.state = "OPEN"
  BY <1>1 DEF Breaker
<1>4. Fit(k, b, 0)
  BY <1>3, ClientAssumption DEF Fit
<1> HIDE DEF b
<1>5. /\ circuit' \in [Client -> Breaker] /\ reached' \in [Client -> Nat]
      /\ circuit'[k] = b /\ reached'[k] = 0
      /\ \A j \in Client \ {k} : circuit'[j] = circuit[j] /\ reached'[j] = reached[j]
  BY <1>1, <1>2, <1>3, CircuitFacts
<1>6. Circuits'
  <2>1. ASSUME NEW j \in Client
        PROVE  /\ Fit(j, circuit'[j], reached'[j])
               /\ circuit'[j].state = "CLOSED" => reached'[j] = 0
    <3>1. CASE j = k
      BY <1>4, <1>5, <3>1
    <3>2. CASE j # k
      <4>1. circuit'[j] = circuit[j] /\ reached'[j] = reached[j]
        BY <1>5, <3>2
      <4> QED BY <4>1, CircuitFacts
    <3> QED BY <3>1, <3>2
  <2> QED BY <2>1 DEF Circuits
<1>7. TypeOK'
  BY <1>1, <1>5 DEF Inv, TypeOK, Breaker, call
<1>8. Patient' /\ Tour'
  BY <1>1 DEF Inv, Patient, Tour, call, Stops
<1> QED BY <1>6, <1>7, <1>8 DEF Inv

LEMMA NextKeeps == Inv /\ [Next]_vars => Inv'
<1> SUFFICES ASSUME Inv, [Next]_vars PROVE Inv'
  OBVIOUS
<1>1. ASSUME NEW c \in Callers, Start(c) \/ Answer(c) \/ Retry(c) \/ Cancel(c)
      PROVE  Inv'
  BY <1>1, StartKeeps, SucceedKeeps, FailKeeps, RetryKeeps, CancelKeeps DEF Answer
<1>2. ASSUME NEW k \in Guarded, CooldownEnds(k) PROVE Inv'
  BY <1>2, CooldownKeeps
<1>3. CASE UNCHANGED vars
  BY <1>3 DEF vars, call, history, Inv, TypeOK, Circuits, Patient, Tour, Fit, Stops
<1> QED BY <1>1, <1>2, <1>3 DEF Next

\* What the invariant is for.
LEMMA InvImplies == Inv => TypeOK /\ Trips /\ Paced /\ LastResort
<1> SUFFICES ASSUME Inv PROVE TypeOK /\ Trips /\ Paced /\ LastResort
  OBVIOUS
<1>1. Guarded \subseteq Client /\ HalfOpenMax \in Nat
  BY ClientAssumption
<1>2. Trips
  BY <1>1, CircuitFacts DEF Trips, Fit
<1>3. Paced
  <2>1. ASSUME NEW k \in Guarded, circuit[k].state # "CLOSED"
        PROVE  reached[k] <= HalfOpenMax
    <3>1. /\ Fit(k, circuit[k], reached[k]) /\ reached[k] \in Nat
          /\ circuit[k].half_open_calls \in 0 .. HalfOpenMax
          /\ circuit[k].state \in {"OPEN", "HALF_OPEN"}
      BY <1>1, <2>1, CircuitFacts DEF Breaker
    <3> QED BY <1>1, <3>1 DEF Fit
  <2> QED BY <2>1 DEF Paced
<1>4. LastResort
  BY DEF Inv, Tour, LastResort
<1> QED BY <1>2, <1>3, <1>4 DEF Inv

LEMMA Invariance == Spec => []Inv
BY InitInv, NextKeeps, PTL DEF Spec

\* The state of the clients is well formed, and half_open_calls never exceeds
\* its limit, for any number of callers, clients and retries.
THEOREM ClientsTypeCorrect == Spec => []TypeOK
BY Invariance, InvImplies, PTL

\* Whatever calls answer late, are retried or are cancelled, a circuit with a
\* full count of failures is not closed.
THEOREM BreakerTrips == Spec => []Trips
BY Invariance, InvImplies, PTL

\* A server that has not answered well since gets at most half_open_max_calls
\* requests between two ends of its cooldown.
THEOREM BreakerPaces == Spec => []Paced
BY Invariance, InvImplies, PTL

\* A fallback reports an error only when each of its clients failed, wherever
\* other callers have moved the index of the current one.
THEOREM FallbackTriesAll == Spec => []LastResort
BY Invariance, InvImplies, PTL
=============================================================================
