--------------------------- MODULE VersusEnglish ---------------------------
(***************************************************************************)
(* The debate of consciencia_vs_english.py: run_debate lets the same       *)
(* agents talk for the same rounds twice, in the 1337 protocol and in      *)
(* plain text, and the report compares the two.  The state that carries a  *)
(* debate from turn to turn is a pair of dictionaries: what each agent     *)
(* said last, as text and as COGON, overwritten by a provocation.          *)
(*                                                                         *)
(* Everything that is said has a number; a COGON is the number of the text *)
(* it was projected from.                                                  *)
(***************************************************************************)
EXTENDS Naturals, Sequences, FiniteSets, Functions

CONSTANTS
    Speakers,      \* len(AGENTS_CONFIG)
    VsRounds,      \* rounds
    Provocations   \* the rounds that have a provocation

ASSUME VersusAssumption ==
    Speakers \in Nat \ {0} /\ VsRounds \in Nat /\ Provocations \subseteq 1..VsRounds

VARIABLES
    mode,        \* "1337", "english", "done", or "raised" by the API
    vsRound,     \* r
    vsTurn,      \* the index of the agent whose turn it is, 0 before the round
    utterances,  \* how many texts there are so far, the stimulus the first
    prevTexts,   \* prev_texts_1337, then prev_texts_eng
    prevCogons,  \* prev_cogons_1337, then prev_cogons_eng
    vsHistory,   \* of each mode and agent, history
    turns        \* of each mode, metrics.turns

vsVars == <<mode, vsRound, vsTurn, utterances, prevTexts, prevCogons, vsHistory, turns>>

Speaker == 1..Speakers
Modes == {"1337", "english"}
Stimulus == 1
AllSay(n) == [a \in Speaker |-> n]

VersusTypeOK ==
    /\ mode \in Modes \cup {"done", "raised"}
    /\ vsRound \in 1..VsRounds + 1 /\ vsTurn \in 0..Speakers
    /\ prevTexts \in [Speaker -> 1..utterances] /\ prevCogons \in [Speaker -> 1..utterances]
    /\ vsHistory \in [Modes -> [Speaker -> Seq(1..utterances)]]
    /\ \A m \in Modes : \A t \in Range(turns[m]) :
            t.agent \in Speaker /\ t.intent \in {"ASSERT", "DELTA"}

VersusInit ==
    /\ mode = "1337" /\ vsRound = 1 /\ vsTurn = 0 /\ utterances = Stimulus
    /\ prevTexts = AllSay(Stimulus) /\ prevCogons = AllSay(Stimulus)
    /\ vsHistory = [m \in Modes |-> [a \in Speaker |-> <<>>]]
    /\ turns = [m \in Modes |-> <<>>]

-----------------------------------------------------------------------------

\* The provocation replaces what everybody said last; the second phase
\* replaces the texts only, and its COGONs are not used.
Provoke ==
    /\ vsRound \in Provocations
    /\ utterances' = utterances + 1
    /\ prevTexts' = AllSay(utterances + 1)
    /\ prevCogons' = IF mode = "1337" THEN AllSay(utterances + 1) ELSE prevCogons

BeginRound ==
    /\ mode \in Modes /\ vsTurn = 0 /\ vsRound <= VsRounds
    /\ \/ Provoke
       \/ vsRound \notin Provocations /\ UNCHANGED <<utterances, prevTexts, prevCogons>>
    /\ vsTurn' = 1
    /\ UNCHANGED <<mode, vsRound, vsHistory, turns>>

\* Mutant of Heard: the agent after.
HeardNext(a) == (a % Speakers) + 1

\* agent_list[(i - 1) % len(agent_list)]
Heard(a) == IF a = 1 THEN Speakers ELSE a - 1

\* The wire intent of the first phase: DELTA when few axes changed since the
\* agent's own last message.
Intent1337(a, few) == IF vsHistory["1337"][a] # <<>> /\ few THEN "DELTA" ELSE "ASSERT"

IntentEnglish == "ASSERT"

\* A turn of Session1337.run_round, and the end of the round after the last.
EndTurn(a) ==
    IF a < Speakers THEN vsTurn' = a + 1 /\ UNCHANGED vsRound
    ELSE vsTurn' = 0 /\ vsRound' = vsRound + 1

Speak(a, intent) ==
    /\ utterances' = utterances + 1
    /\ vsHistory' = [vsHistory EXCEPT ![mode][a] = Append(@, utterances + 1)]
    /\ turns' = [turns EXCEPT ![mode] = Append(@,
            [agent |-> a, round |-> vsRound, intent |-> intent, says |-> utterances + 1,
             hears |-> prevTexts[Heard(a)], summary |-> prevCogons[Heard(a)]])]
    /\ prevTexts' = [prevTexts EXCEPT ![a] = utterances + 1]
    /\ prevCogons' = [prevCogons EXCEPT ![a] = utterances + 1]
    /\ EndTurn(a)
    /\ UNCHANGED mode

Turn1337 ==
    /\ mode = "1337" /\ vsTurn # 0
    /\ \E few \in BOOLEAN : Speak(vsTurn, Intent1337(vsTurn, few))

TurnEnglish ==
    /\ mode = "english" /\ vsTurn # 0
    /\ Speak(vsTurn, IntentEnglish)

\* chat() raises: neither session catches it, and no report is written.
ChatRaises ==
    /\ mode \in Modes /\ vsTurn # 0
    /\ mode' = "raised"
    /\ UNCHANGED <<vsRound, vsTurn, utterances, prevTexts, prevCogons, vsHistory, turns>>

\* Mutant of Again: the second phase goes on where the first one ended.
AgainContinued == prevTexts

\* The second phase starts from copies of the dictionaries of the beginning.
Again == AllSay(Stimulus)

SecondPhase ==
    /\ mode = "1337" /\ vsTurn = 0 /\ vsRound > VsRounds
    /\ mode' = "english" /\ vsRound' = 1
    /\ prevTexts' = Again /\ prevCogons' = Again
    /\ UNCHANGED <<vsTurn, utterances, vsHistory, turns>>

DebateOver ==
    /\ mode = "english" /\ vsTurn = 0 /\ vsRound > VsRounds
    /\ mode' = "done"
    /\ UNCHANGED <<vsRound, vsTurn, utterances, prevTexts, prevCogons, vsHistory, turns>>

VersusNext ==
    BeginRound \/ Turn1337 \/ TurnEnglish \/ ChatRaises \/ SecondPhase \/ DebateOver

VersusSpec == VersusInit /\ [][VersusNext]_vsVars

-----------------------------------------------------------------------------
(* Properties *)

\* influence_matrix counts the DELTA turns of an agent.
DeltaTurns(a) ==
    {n \in DOMAIN turns["1337"] : turns["1337"][n].agent = a /\ turns["1337"][n].intent = "DELTA"}
Influenced(a) == Cardinality(DeltaTurns(a))

\* The two phases can be compared turn by turn: the same agent, the same
\* round, and what it hears was said by the same one, or by the moderator,
\* in the same turn of its own phase.
Source(m, n) ==
    LET t == turns[m][n]
        by == {k \in 1..n - 1 : turns[m][k].says = t.hears}
    IN IF by = {} THEN 0 ELSE CHOOSE k \in by : TRUE

Comparable ==
    \A n \in DOMAIN turns["english"] :
        LET t == turns["1337"][n] u == turns["english"][n] IN
        /\ t.agent = u.agent /\ t.round = u.round
        /\ Source("1337", n) = Source("english", n)
        /\ t.hears = Stimulus <=> u.hears = Stimulus

\* In the 1337 phase the text quoted in a prompt is the one its COGON
\* summary was projected from.
SummaryOfText == \A t \in Range(turns["1337"]) : t.hears = t.summary

\* Everybody but the first answers what was said in this very round.
AnswersThisRound ==
    \A m \in Modes : \A n \in DOMAIN turns[m] :
        turns[m][n].agent # 1 => turns[m][n].hears = turns[m][n - 1].says

\* The first agent is the only one to hear the moderator.
OneHearsProvocation ==
    \A m \in Modes : \A n \in DOMAIN turns[m] :
        turns[m][n].agent = 1 =>
            (Source(m, n) = 0 <=> turns[m][n].round \in Provocations \cup {1})

\* An agent holds at most its later turns against it.
InfluenceBounded ==
    \A a \in Speaker : Influenced(a) < Len(vsHistory["1337"][a]) \/ vsHistory["1337"][a] = <<>>

\* The two debates are the same experiment.
VersusSound ==
    Comparable /\ SummaryOfText /\ AnswersThisRound /\ OneHearsProvocation /\ InfluenceBounded
=============================================================================
