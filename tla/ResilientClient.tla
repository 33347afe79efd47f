--------------------------- MODULE ResilientClient ---------------------------
(***************************************************************************)
(* The Python clients that hide failing servers: FallbackClient, which     *)
(* goes through a list of clients, and ResilientClient, which puts         *)
(* with_retry around a CircuitBreaker around one client.  Their tasks run  *)
(* on one asyncio loop and give way only while a request is out and while  *)
(* with_retry sleeps: everything between two such points is one step.      *)
(***************************************************************************)
EXTENDS Integers, Sequences, FiniteSets

CONSTANTS
  Callers,     \* tasks that call the clients
  Hasty,       \* those that may be cancelled, by a wait_for of their own say
  Clients,     \* the number of clients in FallbackClient.clients
  Guarded,     \* those that are a ResilientClient; the others are bare
  Threshold,   \* failure_threshold
  HalfOpenMax, \* half_open_max_calls
  MaxRetries   \* max_retries

Client == 1 .. Clients

\* Without a retry a refused call would go on to the next client in one step.
ASSUME ClientAssumption ==
  /\ Hasty \subseteq Callers /\ Clients \in Nat \ {0} /\ Guarded \subseteq Client
  /\ Threshold \in Nat \ {0} /\ HalfOpenMax \in Nat \ {0} /\ MaxRetries \in Nat \ {0}

VARIABLES
  circuit,  \* the circuit breaker of each client
  index,    \* FallbackClient._current_index
  phase,    \* of a caller: "ready", "running" (a request is out), "sleeping", "failed"
  route,    \* the clients it has still to try, the one in use first
  direct,   \* it calls one ResilientClient, past the FallbackClient
  attempt,  \* the counter of with_retry
  tried,    \* history: the clients that failed the operation
  probing,  \* history: the callers admitted since the circuit became HALF_OPEN
  reached,  \* history: the requests a client has got since its cooldown ran out
  abandoned \* history: the clients a probe of which was cancelled

call == <<phase, route, direct, attempt>>
history == <<tried, probing, reached, abandoned>>
vars == <<circuit, index, call, history>>

Closed == [state |-> "CLOSED", failures |-> 0, half_open_calls |-> 0, rested |-> FALSE]

Init ==
  /\ circuit = [k \in Client |-> Closed] /\ index = 1
  /\ phase = [c \in Callers |-> "ready"] /\ route = [c \in Callers |-> <<>>]
  /\ direct = [c \in Callers |-> FALSE] /\ attempt = [c \in Callers |-> 0]
  /\ tried = [c \in Callers |-> {}] /\ probing = {} /\ reached = [k \in Client |-> 0]
  /\ abandoned = {}

-----------------------------------------------------------------------------
(***************************************************************************)
(* CircuitBreaker.  rested: recovery_timeout has passed since the last     *)
(* failure, which matters only in OPEN.  failures is compared with the     *)
(* threshold alone, and counted up to it.                                  *)
(***************************************************************************)
\* Mutant of Observed: the count of an earlier HALF_OPEN goes on.
ObservedCounting(b) ==
  IF b.state = "OPEN" /\ b.rested
    THEN [b EXCEPT !.state = "HALF_OPEN", !.rested = FALSE] ELSE b

\* state: reading the property is what ends the cooldown.
Observed(b) ==
  IF b.state = "OPEN" /\ b.rested
    THEN [b EXCEPT !.state = "HALF_OPEN", !.half_open_calls = 0, !.rested = FALSE]
    ELSE b

\* Mutant of Refuses: one probe too many.
RefusesLate(b) ==
  \/ b.state = "OPEN"
  \/ b.state = "HALF_OPEN" /\ b.half_open_calls > HalfOpenMax

Refuses(b) ==
  \/ b.state = "OPEN"
  \/ b.state = "HALF_OPEN" /\ b.half_open_calls >= HalfOpenMax

Admitted(b) ==
  [b EXCEPT !.half_open_calls = IF b.state = "HALF_OPEN" THEN @ + 1 ELSE @]

\* Mutant of OnSuccess: the failures are kept.
OnSuccessKeeping(b) ==
  IF b.state = "HALF_OPEN" THEN [Closed EXCEPT !.failures = b.failures] ELSE b

OnSuccess(b) == IF b.state = "HALF_OPEN" THEN Closed ELSE b

\* Mutant of OnFailure: _last_failure_time is left as it was.
OnFailureTimeless(b) ==
  LET n == IF b.failures < Threshold THEN b.failures + 1 ELSE b.failures
  IN  [b EXCEPT !.failures = n, !.rested = @ \/ b.state = "HALF_OPEN",
                !.state = IF @ = "HALF_OPEN" \/ n >= Threshold THEN "OPEN" ELSE @]

OnFailure(b) ==
  LET n == IF b.failures < Threshold THEN b.failures + 1 ELSE b.failures
  IN  [b EXCEPT !.failures = n, !.rested = FALSE,
                !.state = IF @ = "HALF_OPEN" \/ n >= Threshold THEN "OPEN" ELSE @]

-----------------------------------------------------------------------------
(***************************************************************************)
(* One call of a client, and what follows it.  breakers is what the step   *)
(* has made of the circuits so far.                                        *)
(***************************************************************************)
Enters(c, p, r, n) ==
  /\ phase' = [phase EXCEPT ![c] = p] /\ route' = [route EXCEPT ![c] = r]
  /\ attempt' = [attempt EXCEPT ![c] = n]

\* The callers whose request this step sends to client k, and those whose
\* request it leaves out.
Sent(k) == {c \in Callers : /\ phase'[c] = "running" /\ Head(route'[c]) = k
                            /\ phase[c] # "running" \/ route'[c] # route[c]}
Out == {c \in probing : phase'[c] = "running" /\ route'[c] = route[c]}

\* What the history variables make of the new state of the circuits.
Track ==
  /\ probing' = {c \in Out \cup UNION {Sent(k) : k \in Client} :
                   circuit'[Head(route'[c])].state = "HALF_OPEN"}
  /\ reached' = [k \in Client |-> IF circuit'[k].state = "CLOSED" THEN 0
                                  ELSE reached[k] + Cardinality(Sent(k))]
  /\ abandoned' = {k \in Client :
       /\ circuit'[k].state = "HALF_OPEN"
       /\ k \in abandoned \/ \E c \in probing : Head(route[c]) = k /\ phase'[c] = "ready"}

\* call, to the point where the request goes out, or refused and then asleep.
Ask(c, r, n, breakers) ==
  LET k == Head(r)
      b == Observed(breakers[k])
  IN  /\ IF k \in Guarded /\ Refuses(b)
           THEN Enters(c, "sleeping", r, n) /\ circuit' = [breakers EXCEPT ![k] = b]
           ELSE /\ Enters(c, "running", r, n)
                /\ circuit' = [breakers EXCEPT ![k] = IF k \in Guarded THEN Admitted(b) ELSE @]
      /\ Track

\* The client in use failed for good: the next one of _try_clients, or the error.
GiveUp(c, breakers) ==
  /\ tried' = [tried EXCEPT ![c] = @ \cup {Head(route[c])}]
  /\ IF Len(route[c]) > 1
       THEN Ask(c, Tail(route[c]), 0, breakers)
       ELSE Enters(c, "failed", <<>>, 0) /\ circuit' = breakers /\ Track

\* Mutant of Order: the clients before the current one are not tried.
OrderOnwards(i) == [j \in 1 .. Clients - i + 1 |-> i + j - 1]

\* The order of _try_clients: from the client of the last success, and round.
Order(i) ==
  [j \in Client |-> IF i + j - 1 <= Clients THEN i + j - 1 ELSE i + j - 1 - Clients]

\* An operation of the FallbackClient, or of one of its clients by itself,
\* as its health_check makes.
Start(c) ==
  /\ phase[c] \in {"ready", "failed"}
  /\ \E d \in BOOLEAN :
       /\ direct' = [direct EXCEPT ![c] = d]
       /\ IF d THEN \E k \in Guarded : Ask(c, <<k>>, 0, circuit)
               ELSE Ask(c, Order(index), 0, circuit)
  /\ tried' = [tried EXCEPT ![c] = {}]
  /\ UNCHANGED index

\* The request is answered; _execute reads the state for its metrics, and
\* _try_clients makes the client the current one.
Succeed(c) ==
  LET k == Head(route[c])
  IN  /\ phase[c] = "running"
      /\ circuit' = [circuit EXCEPT ![k] = IF k \in Guarded THEN Observed(OnSuccess(@)) ELSE @]
      /\ index' = IF direct[c] THEN index ELSE k
      /\ Enters(c, "ready", <<>>, 0) /\ Track
      /\ tried' = [tried EXCEPT ![c] = {}] /\ UNCHANGED direct

\* The request fails: with_retry sleeps, unless that was its last attempt.
Fail(c) ==
  LET k == Head(route[c])
      breakers == [circuit EXCEPT ![k] = IF k \in Guarded THEN OnFailure(@) ELSE @]
  IN  /\ phase[c] = "running"
      /\ IF k \in Guarded /\ attempt[c] < MaxRetries
           THEN /\ Enters(c, "sleeping", route[c], attempt[c]) /\ circuit' = breakers
                /\ Track /\ UNCHANGED tried
           ELSE GiveUp(c, breakers)
      /\ UNCHANGED <<index, direct>>

\* Mutant of Retry: a refusal does not count as an attempt.
RetryForever(c) ==
  LET b == Observed(circuit[Head(route[c])])
  IN  /\ phase[c] = "sleeping"
      /\ Ask(c, route[c], IF Refuses(b) THEN attempt[c] ELSE attempt[c] + 1, circuit)
      /\ UNCHANGED <<index, direct, tried>>

\* The sleep of with_retry is over; a refused attempt counts like a failed one.
Retry(c) ==
  LET k == Head(route[c])
      b == Observed(circuit[k])
  IN  /\ phase[c] = "sleeping"
      /\ IF Refuses(b) /\ attempt[c] + 1 = MaxRetries
           THEN GiveUp(c, [circuit EXCEPT ![k] = b])
           ELSE Ask(c, route[c], attempt[c] + 1, circuit) /\ UNCHANGED tried
      /\ UNCHANGED <<index, direct>>

\* CancelledError is no Exception: neither the circuit breaker nor with_retry
\* nor _try_clients hears of it.
Cancel(c) ==
  /\ c \in Hasty /\ phase[c] \in {"running", "sleeping"}
  /\ Enters(c, "ready", <<>>, 0)
  /\ tried' = [tried EXCEPT ![c] = {}]
  /\ UNCHANGED <<circuit, index, direct>> /\ Track

\* recovery_timeout has passed since the last failure.
CooldownEnds(k) ==
  /\ circuit[k].state = "OPEN" /\ ~circuit[k].rested
  /\ circuit' = [circuit EXCEPT ![k].rested = TRUE]
  /\ reached' = [reached EXCEPT ![k] = 0]
  /\ UNCHANGED <<index, call, tried, probing, abandoned>>

Answer(c) == Succeed(c) \/ Fail(c)

Next ==
  \/ \E c \in Callers : Start(c) \/ Answer(c) \/ Retry(c) \/ Cancel(c)
  \/ \E k \in Guarded : CooldownEnds(k)

Spec == Init /\ [][Next]_vars

\* Every request ends, with a result or with the error of its deadline; sleeps
\* end, and time passes.
FairSpec ==
  /\ Spec
  /\ \A c \in Callers : WF_vars(Answer(c)) /\ WF_vars(Retry(c))
  /\ \A k \in Guarded : WF_vars(CooldownEnds(k))

-----------------------------------------------------------------------------
(***************************************************************************)
(* Properties.                                                             *)
(***************************************************************************)
\* Every variable has the shape the code gives it, and counters stay in range.
TypeOK ==
  /\ circuit \in [Client -> [state : {"CLOSED", "OPEN", "HALF_OPEN"},
                             failures : 0 .. Threshold,
                             half_open_calls : 0 .. HalfOpenMax, rested : BOOLEAN]]
  /\ index \in Client
  /\ phase \in [Callers -> {"ready", "running", "sleeping", "failed"}]
  /\ route \in [Callers -> Seq(Client)]
  /\ \A c \in Callers :
       /\ route[c] = <<>> <=> phase[c] \in {"ready", "failed"}
       /\ phase[c] = "sleeping" => Head(route[c]) \in Guarded
  /\ direct \in [Callers -> BOOLEAN] /\ attempt \in [Callers -> 0 .. MaxRetries]
  /\ tried \in [Callers -> SUBSET Client] /\ probing \subseteq Callers
  /\ reached \in [Client -> Nat] /\ abandoned \subseteq Guarded

\* Failures reported since the circuit last closed open it, whoever reports
\* them and whatever state their call was admitted in.
Trips ==
  \A k \in Guarded : circuit[k].state = "CLOSED" => circuit[k].failures < Threshold

\* Between two ends of the cooldown a server that has not answered well since
\* gets half_open_max_calls requests at most, late failures, retries and
\* cancelled calls notwithstanding.
Paced ==
  \A k \in Guarded : circuit[k].state # "CLOSED" => reached[k] <= HalfOpenMax

\* _try_clients reports an error only if each of the clients failed the
\* operation, wherever other callers moved _current_index in the meantime.
LastResort ==
  \A c \in Callers : phase[c] = "failed" /\ ~direct[c] => tried[c] = Client

Refusing(k) == Refuses(Observed(circuit[k]))

\* A circuit that refuses calls comes to admit one again, unless a call that it
\* admitted in HALF_OPEN has been cancelled and keeps its place among
\* half_open_calls.
Recovers ==
  \A k \in Guarded : Refusing(k) ~> ~Refusing(k) \/ k \in abandoned

\* Every operation ends, however often the circuits refuse and the clients fail.
Settles ==
  \A c \in Callers : phase[c] # "ready" ~> phase[c] \in {"ready", "failed"}

\* CircuitBreaker: the circuit "rejects new requests for a cooldown period".
RejectsForACooldown == \A k \in Guarded : Refusing(k) ~> ~Refusing(k)
=============================================================================
