------------------------------- MODULE Debates -------------------------------
(***************************************************************************)
(* The network of net1337.py, and the discussions that drive it: the       *)
(* interactive prompt, plato_discussion.py, consciencia_debate.py,         *)
(* dual_book_simulation.py and dual_book_delta.py.                         *)
(*                                                                         *)
(* One thread, one message after the other.  A command or a script is an   *)
(* agenda of turns, and in a turn somebody hears the last message of       *)
(* somebody else and answers it, or the call of the language model raises  *)
(* and the program ends.  Agents are numbered in the order they are made,  *)
(* the human is 0; the text and the vector of a message are left out, but  *)
(* for whether an answer lies near what it answers.                        *)
(***************************************************************************)
EXTENDS Naturals, Sequences, FiniteSets, SequencesExt, Subsequences

CONSTANTS
    ScenarioSize,  \* the agents of a scenario
    AgentLimit,    \* the limit of add_agent
    Rounds,        \* the rounds of a script, and of agents_chat
    Period,        \* the rounds between two provocations
    Topics,        \* the books of the discussions of the dual scenario
    MaxMade,       \* bound: agents made in a behaviour
    MaxSaid        \* bound: messages before a command of the prompt

ASSUME DebateAssumption ==
    /\ ScenarioSize \in Nat /\ 2 <= ScenarioSize
    /\ AgentLimit \in Nat /\ AgentLimit >= ScenarioSize
    /\ Rounds \in Nat /\ Period \in Nat \ {0} /\ MaxMade \in Nat /\ MaxSaid \in Nat
    /\ Topics \in Seq({"plato", "pinocchio", "both"})
    \* a book of its own has two agents who have read it
    /\ \A t \in DOMAIN Topics : Topics[t] # "both" => 3 <= ScenarioSize

VARIABLES
    script,    \* "prompt", "plato", "consciencia", "dual" or "dualDelta"
    running,   \* "new", "on", or "dead" after an exception
    roster,    \* net.agents, in order
    everyone,  \* all_participants without the human
    names,     \* the names of the agents made so far
    agenda,    \* the turns a command or a script still has
    said,      \* every message made
    heard,     \* history: of each agent, the messages behind its COGONs
    netLog,    \* net.log: numbers of said, negative for nothing: see Announce
    monitor    \* what the monitor of the script counted

debateVars ==
    <<script, running, roster, everyone, names, agenda, said, heard, netLog, monitor>>

Human == 0
Made == 1..MaxMade
Everybody == MaxMade + 1  \* BROADCAST, no agent's number
Scripts == {"plato", "consciencia", "dual", "dualDelta"}

\* The numbers of what a said, in order.
SaidBy(a) == Keeping([i \in DOMAIN said |-> i], {i \in DOMAIN said : said[i].from = a})

DebateTypeOK ==
    /\ script \in Scripts \cup {"prompt"} /\ running \in {"new", "on", "dead"}
    /\ roster \in Seq(DOMAIN names) /\ Len(roster) <= AgentLimit
    /\ everyone \subseteq DOMAIN names /\ Range(roster) \subseteq everyone
    /\ \A t \in Range(agenda) : t.who \in everyone \cup {Human}
    /\ \A m \in Range(said) : m.from \in everyone \cup {Human} \cup DOMAIN names
    /\ \A a \in Made : heard[a] \in Seq(DOMAIN said)
    /\ Range(netLog) \subseteq [who : DOMAIN names \cup {Human}, what : 0..Len(said)]

DebateInit ==
    /\ script \in Scripts \cup {"prompt"}
    /\ running = "new"
    /\ roster = <<>> /\ everyone = {} /\ names = <<>>
    /\ agenda = <<>> /\ said = <<>> /\ netLog = <<>>
    /\ heard = [a \in Made |-> <<>>]
    /\ monitor = [a \in {Human} \cup Made |-> [messages |-> 0, deltas |-> 0, books |-> <<>>]]

-----------------------------------------------------------------------------
(* Agents *)

\* add_agent for the agents of a scenario, the old ones gone from net.agents.
Scenario == [i \in 1..ScenarioSize |-> Len(names) + i]

\* handshake: only those who are there announce themselves; message 0 is the
\* COGON_ZERO.
CogonZero(agents) == [i \in DOMAIN agents |-> [who |-> agents[i], what |-> 0]]

\* /scenario clears net.agents and leaves its agents in all_participants.
LoadScenario ==
    /\ Len(names) + ScenarioSize <= MaxMade
    /\ roster' = Scenario
    /\ everyone' = everyone \cup Range(Scenario)
    /\ names' = names \o [i \in 1..ScenarioSize |-> i]
    /\ netLog' = netLog \o CogonZero(Scenario)

\* /add: a name may be taken already, and nobody announces the newcomer.
AddAgent(name) ==
    /\ Len(names) < MaxMade
    /\ Len(roster) < AgentLimit
    /\ names' = Append(names, name)
    /\ roster' = Append(roster, Len(names) + 1)
    /\ everyone' = everyone \cup {Len(names) + 1}
    /\ UNCHANGED netLog

\* /remove takes the first agent of that name.
WithName(name) == {i \in DOMAIN roster : names[roster[i]] = name}
FirstNamed(name) == roster[Nth(WithName(name), 1)]

RemoveAgent(name) ==
    /\ WithName(name) # {}
    /\ roster' = Keeping(roster, {i \in DOMAIN roster : roster[i] # FirstNamed(name)})
    /\ everyone' = everyone \ {FirstNamed(name)}
    /\ UNCHANGED <<names, netLog>>

-----------------------------------------------------------------------------
(* Agendas: who speaks, and whose last message it answers *)

Speech(to, logged) == <<[who |-> Human, hears |-> Human, to |-> to, logged |-> logged, book |-> "none"]>>
Answer(a, whom, book) == [who |-> a, hears |-> whom, to |-> Everybody, logged |-> TRUE, book |-> book]

AllHear(agents) == [i \in DOMAIN agents |-> Answer(agents[i], Human, "none")]

\* inject: the human speaks, and all agents answer that one message.
InjectAgenda == Speech(Everybody, TRUE) \o AllHear(roster)

\* _find_agent takes a name or a place in the list, so talk reaches everyone.
TalkAgenda(a) == Speech(a, TRUE) \o <<Answer(a, Human, "none")>>

\* agents_chat: each hears the next in the ring, the last one the first.
RoundOfChat == [i \in DOMAIN roster |-> Answer(roster[i], roster[(i % Len(roster)) + 1], "none")]

ChatAgenda == FlattenSeq([r \in 1..Rounds |-> RoundOfChat])

\* The dialectic of plato_discussion: each hears the one before, the first
\* one the last.
Before(agents, i) == agents[IF i = 1 THEN Len(agents) ELSE i - 1]

RoundOfPlato(agents) == [i \in DOMAIN agents |-> Answer(agents[i], Before(agents, i), "none")]

PlatoAgenda(agents) ==
    Speech(Everybody, TRUE) \o AllHear(agents)
        \o FlattenSeq([r \in 1..Rounds |-> RoundOfPlato(agents)])

\* consciencia_debate: in every Period-th round the mediator speaks first, a
\* broadcast that only the first agent hears and that is not in the log.
RoundOfConsciencia(agents, r) ==
    IF r % Period = 0
    THEN Speech(Everybody, FALSE)
         \o [RoundOfPlato(agents) EXCEPT ![1] = Answer(agents[1], Human, "none")]
    ELSE RoundOfPlato(agents)

ConscienciaAgenda(agents) ==
    Speech(Everybody, TRUE) \o AllHear(agents)
        \o FlattenSeq([r \in 1..Rounds |-> RoundOfConsciencia(agents, r)])

\* The books of the agents of the dual scenario, one of each kind and both.
BooksOf(i) == CASE i % 3 = 1 -> <<"plato">>
                [] i % 3 = 2 -> <<"pinocchio">>
                [] OTHER     -> <<"plato", "pinocchio">>

\* named: the names as they are when the agents have been made.
Reads(a, topic, named) == topic = "both" \/ topic \in Range(BooksOf(named[a]))
Participating(agents, topic, named) ==
    Keeping(agents, {i \in DOMAIN agents : Reads(agents[i], topic, named)})

\* Mutant of BookOf: the book of the topic is recorded as it is.
BookOfTopic(a, topic, named) == topic

\* A topic about both books counts for the first book of the agent.
BookOf(a, topic, named) == IF topic # "both" THEN topic ELSE BooksOf(named[a])[1]

\* In a round each agent hears one of the others, chosen by the round.
Others(agents, a) == Keeping(agents, {i \in DOMAIN agents : agents[i] # a})
RoundOfDual(agents, topic, r, named) ==
    LET talkers == Keeping(agents, {i \in DOMAIN agents : Others(agents, agents[i]) # <<>>})
    IN [i \in DOMAIN talkers |->
            LET others == Others(agents, talkers[i])
            IN Answer(talkers[i], others[((r - 1) % Len(others)) + 1],
                      BookOf(talkers[i], topic, named))]

TopicAgenda(agents, topic, named) ==
    Speech(Everybody, TRUE)
        \o [i \in DOMAIN agents |-> Answer(agents[i], Human, BookOf(agents[i], topic, named))]
        \o FlattenSeq([r \in 1..Rounds |-> RoundOfDual(agents, topic, r, named)])

DualAgenda(agents, named) ==
    FlattenSeq([t \in DOMAIN Topics |->
        TopicAgenda(Participating(agents, Topics[t], named), Topics[t], named)])

\* The same course, each answer going through the delta compressor as well.
DualDeltaAgenda(agents, named) == DualAgenda(agents, named)

-----------------------------------------------------------------------------
(* Turns *)

\* _log_msg
LogMsg(turn) ==
    netLog' = IF turn.logged
              THEN Append(netLog, [who |-> turn.who, what |-> Len(said) + 1]) ELSE netLog

\* text_to_msg
HumanSpeaks ==
    /\ agenda # <<>> /\ Head(agenda).who = Human
    /\ LET turn == Head(agenda) IN
        /\ said' = Append(said, [from |-> Human, to |-> turn.to, intent |-> "ASSERT", answers |-> 0])
        /\ LogMsg(turn)
    /\ agenda' = Tail(agenda)

\* Mutant of LastMessage: the first message of the other one.
LastMessageFirst(a) == IF SaidBy(a) = <<>> THEN 0 ELSE Head(SaidBy(a))

\* msg_log[-1] of another agent, or what the human said last.  An agent that
\* has a history has a msg_log: agents_chat looks at histories in vain.
LastMessage(a) == IF SaidBy(a) = <<>> THEN 0 ELSE Last(SaidBy(a))

\* receive_and_respond: a private message goes back to its sender, and only
\* an answer near what was heard, and not the first, is sent as a DELTA.
Reply(a, m, near) ==
    [from |-> a,
     to |-> IF said[m].to = Everybody THEN Everybody ELSE said[m].from,
     intent |-> IF near /\ heard[a] # <<>> THEN "DELTA" ELSE "ASSERT",
     answers |-> m]

Respond(near) ==
    /\ agenda # <<>> /\ Head(agenda).who # Human
    /\ LET turn == Head(agenda)
           a == turn.who
           m == LastMessage(turn.hears)
       IN /\ m # 0
          /\ said' = Append(said, Reply(a, m, near))
          /\ heard' = [heard EXCEPT ![a] = @ \o <<m, Len(said) + 1>>]
          /\ LogMsg(turn)
    /\ agenda' = Tail(agenda)

\* The language model raises: what was heard is in the history already, and
\* nothing catches the exception before the program ends.
RespondFails ==
    /\ agenda # <<>> /\ Head(agenda).who # Human
    /\ LastMessage(Head(agenda).hears) # 0
    /\ running' = "dead"
    /\ heard' = [heard EXCEPT ![Head(agenda).who] = Append(@, LastMessage(Head(agenda).hears))]
    /\ UNCHANGED <<script, roster, everyone, names, agenda, said, netLog, monitor>>

\* Nothing to answer yet: the turn is skipped.
Skip ==
    /\ agenda # <<>> /\ Head(agenda).who # Human
    /\ LastMessage(Head(agenda).hears) = 0
    /\ agenda' = Tail(agenda)
    /\ UNCHANGED <<script, running, roster, everyone, names, said, heard, netLog, monitor>>

\* record of consciencia_debate: no statistics for the mediator.
RecordConsciencia(a, intent) ==
    [monitor EXCEPT ![a].messages = @ + 1,
                    ![a].deltas = IF intent = "DELTA" THEN @ + 1 ELSE @]

\* record_message of plato_discussion
RecordPlato(a) == [monitor EXCEPT ![a].messages = @ + 1]

\* record_message of dual_book_simulation: the speeches are not recorded.
RecordDual(a, book) ==
    [monitor EXCEPT ![a].messages = IF book \in {"plato", "pinocchio"} THEN @ + 1 ELSE @,
                    ![a].books = Append(@, book)]

Record(turn, intent) ==
    monitor' = CASE script = "plato" -> RecordPlato(turn.who)
                 [] script = "consciencia" /\ turn.who # Human -> RecordConsciencia(turn.who, intent)
                 [] script \in {"dual", "dualDelta"} /\ turn.who # Human -> RecordDual(turn.who, turn.book)
                 [] OTHER -> monitor

Turn ==
    /\ \/ HumanSpeaks /\ UNCHANGED heard
       \/ \E near \in BOOLEAN : Respond(near)
    /\ Record(Head(agenda), Last(said').intent)
    /\ UNCHANGED <<script, running, roster, everyone, names>>

-----------------------------------------------------------------------------
(* The programs *)

\* main of the scripts: the agents, the handshake, the whole discussion.
RunScript ==
    /\ script \in Scripts /\ running = "new"
    /\ LoadScenario
    /\ running' = "on"
    /\ agenda' = CASE script = "plato" -> PlatoAgenda(Scenario)
                   [] script = "consciencia" -> ConscienciaAgenda(Scenario)
                   [] script = "dual" -> DualAgenda(Scenario, names')
                   [] script = "dualDelta" -> DualDeltaAgenda(Scenario, names')
    /\ UNCHANGED <<script, said, heard, monitor>>

\* The loop of net1337.main reads a command when the last one is done.
AtPrompt == script = "prompt" /\ running # "dead" /\ agenda = <<>> /\ Len(said) < MaxSaid

ChangeRoster ==
    /\ AtPrompt
    /\ \/ LoadScenario
       \/ \E name \in {1, ScenarioSize + 1} : AddAgent(name)
       \/ \E name \in Range(names) : RemoveAgent(name)
    /\ running' = "on"
    /\ UNCHANGED <<script, agenda, said, heard, monitor>>

\* Mutant of ChatAllowed: a lone agent may chat.
ChatAllowedAlone == roster # <<>>

ChatAllowed == Len(roster) >= 2

Command ==
    /\ AtPrompt
    /\ \/ agenda' = InjectAgenda /\ roster # <<>>
       \/ \E a \in Range(roster) : agenda' = TalkAgenda(a)
       \/ agenda' = ChatAgenda /\ ChatAllowed
    /\ running' = "on"
    /\ UNCHANGED <<script, roster, everyone, names, said, heard, netLog, monitor>>

\* Nothing leaves a dead program.
DebateNext ==
    \/ RunScript
    \/ ChangeRoster
    \/ Command
    \/ running = "on" /\ (Turn \/ RespondFails \/ Skip)

DebateSpec == DebateInit /\ [][DebateNext]_debateVars

-----------------------------------------------------------------------------
(* Properties *)

\* Nobody answers a message of its own, and a message is answered only after
\* it was said by somebody the network still knows when the turn comes.
NobodyAnswersItself ==
    \A i \in DOMAIN said : said[i].answers # 0 =>
        said[i].answers < i /\ said[said[i].answers].from # said[i].from

\* What an agent has in its history is, in turn, a message it heard and its
\* answer to it; only the last may lack its answer, in a program that died.
Paired ==
    \A a \in Made :
        /\ Len(heard[a]) = 2 * Len(SaidBy(a)) + (Len(heard[a]) % 2)
        /\ Len(heard[a]) % 2 = 1 => running = "dead"
        /\ \A i \in DOMAIN SaidBy(a) :
            heard[a][2 * i] = SaidBy(a)[i] /\ heard[a][2 * i - 1] = said[SaidBy(a)[i]].answers

\* When a script is through, every agent has had its turn in the opening and
\* in each round of every topic it took part in.
Took(a) ==
    IF script \in {"plato", "consciencia"} THEN 1 + Rounds
    ELSE Cardinality({t \in DOMAIN Topics : Reads(a, Topics[t], names)}) * (1 + Rounds)

EveryoneAnswers ==
    script \in Scripts /\ running = "on" /\ agenda = <<>>
        => \A a \in Range(roster) : Len(SaidBy(a)) = Took(a)

\* The monitors count every answer, with its intent and a book of the agent.
MonitorExact ==
    script \in Scripts => \A a \in Range(roster) :
        /\ monitor[a].messages = Len(SaidBy(a))
        /\ script = "consciencia" =>
            monitor[a].deltas =
                Cardinality({i \in DOMAIN said : said[i].from = a /\ said[i].intent = "DELTA"})
        /\ Range(monitor[a].books) \subseteq Range(BooksOf(names[a]))

\* Each answer of a dialogue is to the newest message of the one answered.
Newest ==
    \A i \in DOMAIN said : said[i].answers # 0 =>
        \A j \in said[i].answers + 1..i - 1 : said[j].from # said[said[i].answers].from

\* The discussions of the network: nobody talks to itself or to old news,
\* histories and statistics tell what happened, everybody gets its turns.
DebateSound ==
    NobodyAnswersItself /\ Paired /\ EveryoneAnswers /\ MonitorExact /\ Newest

\* announce: "R20: COGON_ZERO antes de tudo".  No message of an agent is in
\* the log before its announcement.
AnnouncedBeforeAll ==
    \A i \in DOMAIN netLog : netLog[i].who # Human /\ netLog[i].what # 0 =>
        \E j \in 1..i - 1 : netLog[j] = [who |-> netLog[i].who, what |-> 0]
=============================================================================
