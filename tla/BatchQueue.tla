----------------------------- MODULE BatchQueue -----------------------------
(***************************************************************************)
(* The gRPC service of leet-service: batch.rs, the handlers of server.rs    *)
(* and what they keep in the store of store.rs.  An encode_batch stream has *)
(* a handler of its own, which gives one request after the other to the     *)
(* worker of the queue and waits for its vector; encode does without the    *)
(* queue.  A step is the code between two awaits.  A text is told apart by   *)
(* its projection, and is the request it came with.                         *)
(***************************************************************************)
EXTENDS Naturals, Sequences, SequencesExt, FiniteSets, FiniteSetsExt

CONSTANTS
    GrpcClients,    \* each has one stream, and calls encode besides
    GrpcAgents,     \* agent_id
    MaxGrpcRequests, \* bound: the requests made
    QueueSize,      \* of the channel to the worker: 512
    BatchSize,      \* 64
    AnswerSize,     \* of the channel to a client: 128
    MaxStops        \* bound: the times the service stops

ASSUME GrpcAssumption ==
    /\ IsFiniteSet(GrpcClients)
    /\ MaxGrpcRequests \in Nat /\ MaxStops \in Nat
    /\ QueueSize \in Nat \ {0} /\ BatchSize \in Nat \ {0} /\ AnswerSize \in Nat \ {0}

VARIABLES
    agentOf,       \* the agent_id each client sends
    serviceStore,  \* LEET_STORE
    cogons,        \* what is in the store
    requested,     \* of each client: the requests made, those of its stream and those not read yet
    streamState,   \* of the request stream: open, ended by the client, or broken
    rxOpen,        \* somebody reads the answers
    handler,       \* where the handler of the stream is, and with what
    jobQueue,      \* the channel to the worker
    senders,       \* the jobs that wait for room in it, in the order of the semaphore
    pendingJobs,   \* pending
    reply,         \* the oneshot of each handler
    answers,       \* the channel of each response stream
    received,      \* what each client has got
    encoded,       \* history: the calls of encode that were answered and must be recalled
    stops          \* history: how often the service stopped

grpcVars ==
    <<agentOf, serviceStore, cogons, requested, streamState, rxOpen, handler, jobQueue, senders,
      pendingJobs, reply, answers, received, encoded, stops>>

Request == GrpcClients \X (1..MaxGrpcRequests)
Vector == [of : Request]
Cogon == [agent : GrpcAgents, id : Request, sem : Vector]
StreamAnswer == [n : 1..MaxGrpcRequests, sem : Vector]
StreamError == [error |-> "internal"]
Item == StreamAnswer \cup {StreamError}
Job == [client : GrpcClients, text : Request]
NoItem == [at |-> "none"]

GrpcTypeOK ==
    /\ agentOf \in [GrpcClients -> GrpcAgents] /\ serviceStore \in {"memory", "sqlite"}
    /\ cogons \subseteq Cogon
    /\ \A c \in GrpcClients :
         /\ requested[c].made \in 0..MaxGrpcRequests
         /\ requested[c].asked \in Seq(1..MaxGrpcRequests) /\ requested[c].unread \in 0..MaxGrpcRequests
         /\ handler[c].at \in {"none", "reading", "push", "reply", "full", "gone"}
         /\ Len(answers[c]) <= AnswerSize /\ \A i \in DOMAIN answers[c] : answers[c][i] \in Item
         /\ reply[c] \in {<<>>} \cup {<<v>> : v \in Vector}
    /\ streamState \in [GrpcClients -> {"none", "open", "ended", "broken"}]
    /\ rxOpen \in [GrpcClients -> BOOLEAN]
    /\ jobQueue \in Seq(Job) /\ Len(jobQueue) <= QueueSize
    /\ senders \in Seq(Job) /\ pendingJobs \in Seq(Job) /\ Len(pendingJobs) < BatchSize
    /\ encoded \subseteq Request /\ stops \in 0..MaxStops

GrpcInit ==
    /\ agentOf \in [GrpcClients -> GrpcAgents] /\ serviceStore \in {"memory", "sqlite"}
    /\ cogons = {}
    /\ requested = [c \in GrpcClients |-> [made |-> 0, asked |-> <<>>, unread |-> 0]]
    /\ streamState = [c \in GrpcClients |-> "none"] /\ rxOpen = [c \in GrpcClients |-> FALSE]
    /\ handler = [c \in GrpcClients |-> NoItem]
    /\ jobQueue = <<>> /\ senders = <<>> /\ pendingJobs = <<>>
    /\ reply = [c \in GrpcClients |-> <<>>]
    /\ answers = [c \in GrpcClients |-> <<>>] /\ received = [c \in GrpcClients |-> <<>>]
    /\ encoded = {} /\ stops = 0

clientVars == <<requested, streamState, rxOpen, received>>
queueVars == <<jobQueue, senders, pendingJobs, reply>>
configured == <<agentOf, serviceStore, stops>>

\* The bound: MaxGrpcRequests in a behaviour.
MayAsk == MapThenSumSet(LAMBDA c : requested[c].made, GrpcClients) < MaxGrpcRequests

-----------------------------------------------------------------------------
(* The store *)

Projection(text) == [of |-> text]

CogonOf(c, n, sem) == [agent |-> agentOf[c], id |-> <<c, n>>, sem |-> sem]

\* A save opens the database anew and may fail; one in memory does not.
Saved(cogon) == cogons' = cogons \cup {cogon}
SaveFails == serviceStore = "sqlite" /\ UNCHANGED cogons

CosineDist(v, w) == IF v = w THEN 0 ELSE 1

\* What recall may find: k cogons of the agent, or all it has, to which no other
\* is nearer.
Recall(agent, query, k) ==
    LET own == {r \in cogons : r.agent = agent}
    IN  {found \in SUBSET own :
           /\ Cardinality(found) = IF k < Cardinality(own) THEN k ELSE Cardinality(own)
           /\ \A a \in found, b \in own \ found : CosineDist(query, a.sem) <= CosineDist(query, b.sem)}

\* Mutant of EncodeAnswers: the answer does not depend on the save.
EncodeAnswersAnyway(c, n) ==
    /\ \/ Saved(CogonOf(c, n, Projection(<<c, n>>))) \/ SaveFails
    /\ encoded' = encoded \cup {<<c, n>>}

EncodeAnswers(c, n) ==
    \/ Saved(CogonOf(c, n, Projection(<<c, n>>))) /\ encoded' = encoded \cup {<<c, n>>}
    \/ SaveFails /\ UNCHANGED encoded

\* encode, which has no await.
EncodeUnary(c) ==
    LET n == requested[c].made + 1
    IN  /\ MayAsk
        /\ EncodeAnswers(c, n)
        /\ requested' = [requested EXCEPT ![c].made = n]
        /\ UNCHANGED <<configured, streamState, rxOpen, received, handler, queueVars, answers>>

-----------------------------------------------------------------------------
(* The client of a stream *)

EncodeBatch(c) ==
    /\ streamState[c] = "none"
    /\ streamState' = [streamState EXCEPT ![c] = "open"]
    /\ rxOpen' = [rxOpen EXCEPT ![c] = TRUE]
    /\ handler' = [handler EXCEPT ![c].at = "reading"]
    /\ UNCHANGED <<configured, cogons, requested, received, queueVars, answers, encoded>>

ClientSends(c) ==
    LET n == requested[c].made + 1
    IN  /\ streamState[c] = "open" /\ MayAsk
        /\ requested' = [requested EXCEPT ![c] =
                           [made |-> n, asked |-> Append(@.asked, n), unread |-> @.unread + 1]]
        /\ UNCHANGED <<configured, cogons, streamState, rxOpen, received, handler, queueVars, answers,
                       encoded>>

\* The client is done, its connection breaks, or it leaves and reads no more.
StreamEnds(c, how, reads) ==
    /\ streamState[c] = "open"
    /\ streamState' = [streamState EXCEPT ![c] = how]
    /\ rxOpen' = [rxOpen EXCEPT ![c] = reads]
    /\ UNCHANGED <<configured, cogons, requested, received, handler, queueVars, answers, encoded>>

ClientReceives(c) ==
    /\ rxOpen[c] /\ answers[c] # <<>>
    /\ received' = [received EXCEPT ![c] = Append(@, Head(answers[c]))]
    /\ answers' = [answers EXCEPT ![c] = Tail(@)]
    /\ UNCHANGED <<configured, cogons, requested, streamState, rxOpen, handler, queueVars, encoded>>

-----------------------------------------------------------------------------
(* The queue and its worker *)

Room == Len(jobQueue) < QueueSize

\* push: a job that finds no room waits behind those before it.
Push(j) ==
    IF Room /\ senders = <<>>
    THEN /\ jobQueue' = Append(jobQueue, j)
         /\ handler' = [handler EXCEPT ![j.client] = [at |-> "reply", n |-> j.text[2]]]
         /\ UNCHANGED senders
    ELSE /\ senders' = Append(senders, j)
         /\ handler' = [handler EXCEPT ![j.client] = [at |-> "push", n |-> j.text[2]]]
         /\ UNCHANGED jobQueue

JobEnters ==
    LET j == Head(senders)
    IN  /\ senders # <<>> /\ Room
        /\ jobQueue' = Append(jobQueue, j)
        /\ senders' = Tail(senders)
        /\ handler' = [handler EXCEPT ![j.client].at = "reply"]
        /\ UNCHANGED <<configured, clientVars, cogons, pendingJobs, reply, answers, encoded>>

\* Mutant of Flushed: the jobs are drained from the end, the vectors are not.
FlushedBackwards(jobs) ==
    [c \in GrpcClients |->
        IF \E i \in DOMAIN jobs : jobs[i].client = c
        THEN LET i == CHOOSE i \in DOMAIN jobs : jobs[i].client = c
             IN  <<Projection(jobs[Len(jobs) + 1 - i].text)>>
        ELSE reply[c]]

\* flush: each job gets the vector of its text.  A handler has one job at most.
Flushed(jobs) ==
    [c \in GrpcClients |->
        IF \E i \in DOMAIN jobs : jobs[i].client = c
        THEN LET i == CHOOSE i \in DOMAIN jobs : jobs[i].client = c
             IN  <<Projection(jobs[i].text)>>
        ELSE reply[c]]

\* The worker lives as long as the service: the queue that holds its sender does.
WorkerReceives ==
    LET jobs == Append(pendingJobs, Head(jobQueue))
        full == Len(jobs) >= BatchSize
    IN  /\ jobQueue # <<>>
        /\ jobQueue' = Tail(jobQueue)
        /\ pendingJobs' = IF full THEN <<>> ELSE jobs
        /\ reply' = IF full THEN Flushed(jobs) ELSE reply
        /\ UNCHANGED <<configured, clientVars, cogons, senders, handler, answers, encoded>>

Tick ==
    /\ pendingJobs # <<>>
    /\ pendingJobs' = <<>>
    /\ reply' = Flushed(pendingJobs)
    /\ UNCHANGED <<configured, clientVars, cogons, jobQueue, senders, handler, answers, encoded>>

-----------------------------------------------------------------------------
(* The handler of a stream *)

HandlerReads(c) ==
    LET n == requested[c].asked[Len(requested[c].asked) - requested[c].unread + 1]
    IN  /\ handler[c].at = "reading" /\ requested[c].unread > 0
        /\ requested' = [requested EXCEPT ![c].unread = @ - 1]
        /\ Push([client |-> c, text |-> <<c, n>>])
        /\ UNCHANGED <<configured, cogons, streamState, rxOpen, received, pendingJobs, reply, answers,
                       encoded>>

\* Where a handler is that has sent an item: it stops behind an error.
AfterSend(item) == IF item = StreamError THEN [at |-> "gone"] ELSE [at |-> "reading"]

\* tx.send: to a client that left it fails, and to one that does not read it waits.
SendTo(c, item) ==
    IF ~rxOpen[c]
    THEN handler' = [handler EXCEPT ![c] = [at |-> "gone"]] /\ UNCHANGED answers
    ELSE IF Len(answers[c]) < AnswerSize
    THEN /\ answers' = [answers EXCEPT ![c] = Append(@, item)]
         /\ handler' = [handler EXCEPT ![c] = AfterSend(item)]
    ELSE handler' = [handler EXCEPT ![c] = [at |-> "full", item |-> item]] /\ UNCHANGED answers

\* The vector is there: the save may fail, the answer is sent.
HandlerAnswers(c) ==
    LET n == handler[c].n
        sem == Head(reply[c])
    IN  /\ handler[c].at = "reply" /\ reply[c] # <<>>
        /\ reply' = [reply EXCEPT ![c] = <<>>]
        /\ Saved(CogonOf(c, n, sem)) \/ SaveFails
        /\ SendTo(c, [n |-> n, sem |-> sem])
        /\ UNCHANGED <<configured, clientVars, jobQueue, senders, pendingJobs, encoded>>

HandlerSends(c) ==
    /\ handler[c].at = "full" /\ (~rxOpen[c] \/ Len(answers[c]) < AnswerSize)
    /\ SendTo(c, handler[c].item)
    /\ UNCHANGED <<configured, clientVars, cogons, queueVars, encoded>>

HandlerEnds(c) ==
    /\ handler[c].at = "reading" /\ streamState[c] = "ended" /\ requested[c].unread = 0
    /\ handler' = [handler EXCEPT ![c] = [at |-> "gone"]]
    /\ UNCHANGED <<configured, clientVars, cogons, queueVars, answers, encoded>>

\* A broken stream may drop what was not read yet.
HandlerBreaks(c) ==
    /\ handler[c].at = "reading" /\ streamState[c] = "broken"
    /\ SendTo(c, StreamError)
    /\ UNCHANGED <<configured, clientVars, cogons, queueVars, encoded>>

\* Mutant of CogonsAfter: nothing is written to the database.
CogonsAfterNone(store) == {}

CogonsAfter(store) == IF store = "sqlite" THEN cogons ELSE {}

\* The service is killed and started again: only the database is left.
ServiceStops ==
    /\ stops < MaxStops
    /\ stops' = stops + 1
    /\ cogons' = CogonsAfter(serviceStore)
    /\ encoded' = IF serviceStore = "sqlite" THEN encoded ELSE {}
    /\ streamState' = [c \in GrpcClients |-> IF streamState[c] = "none" THEN "none" ELSE "broken"]
    /\ rxOpen' = [c \in GrpcClients |-> FALSE]
    /\ handler' = [c \in GrpcClients |-> IF streamState[c] = "none" THEN NoItem ELSE [at |-> "gone"]]
    /\ jobQueue' = <<>> /\ senders' = <<>> /\ pendingJobs' = <<>>
    /\ reply' = [c \in GrpcClients |-> <<>>]
    /\ answers' = [c \in GrpcClients |-> <<>>]
    /\ requested' = [c \in GrpcClients |-> [requested[c] EXCEPT !.asked = <<>>, !.unread = 0]]
    /\ received' = [c \in GrpcClients |-> <<>>]
    /\ UNCHANGED <<agentOf, serviceStore>>

GrpcNext ==
    \/ \E c \in GrpcClients :
         \/ EncodeUnary(c) \/ EncodeBatch(c) \/ ClientSends(c) \/ ClientReceives(c)
         \/ StreamEnds(c, "ended", TRUE) \/ StreamEnds(c, "broken", TRUE) \/ StreamEnds(c, "broken", FALSE)
         \/ HandlerReads(c) \/ HandlerAnswers(c) \/ HandlerSends(c) \/ HandlerEnds(c) \/ HandlerBreaks(c)
    \/ JobEnters \/ WorkerReceives \/ Tick \/ ServiceStops

GrpcSpec == GrpcInit /\ [][GrpcNext]_grpcVars

-----------------------------------------------------------------------------
(* Properties *)

AnswersOf(c) == received[c] \o answers[c]

\* However the jobs of several streams are cut into batches, the n-th answer of a
\* stream is the one of its n-th request, with the vector of that text, and an error
\* is its last (server.rs:106 to :132, batch.rs:79).
AnswersInOrder ==
    \A c \in GrpcClients : \A i \in DOMAIN AnswersOf(c) :
        \/ AnswersOf(c)[i] = StreamError /\ i = Len(AnswersOf(c))
        \/ LET n == requested[c].asked[i]
           IN  i <= Len(requested[c].asked) /\ AnswersOf(c)[i] = [n |-> n, sem |-> Projection(<<c, n>>)]

JobsOf(s, c) == Cardinality({i \in DOMAIN s : s[i].client = c})

\* A handler that waits is waited for: its job is in exactly one place, among the
\* senders, in the channel, in pending or answered, and no other handler has one, so
\* that the queue neither loses a handler nor holds more jobs than streams.
NoJobLost ==
    \A c \in GrpcClients :
        /\ JobsOf(senders, c) = IF handler[c].at = "push" THEN 1 ELSE 0
        /\ JobsOf(jobQueue, c) + JobsOf(pendingJobs, c) + Len(reply[c]) = IF handler[c].at = "reply" THEN 1 ELSE 0

\* What encode answered is recalled by its agent, whatever is saved meanwhile, and in
\* a database over a restart (server.rs:77).
EncodedRecalled ==
    \A r \in encoded :
        \A found \in Recall(agentOf[r[1]], Projection(r), 1) :
            found # {} /\ \A cogon \in found : cogon.id = r

GrpcSound == AnswersInOrder /\ NoJobLost /\ EncodedRecalled
=============================================================================
