------------------------------- MODULE IdeAdapter -------------------------------
(***************************************************************************)
(* python/leet/adapters: the adapters that drive coding assistants (claude, *)
(* codex, kimi, aider) through their command lines, and leet-ide, the      *)
(* command that drives one adapter.                                        *)
(*                                                                         *)
(* Tasks of one event loop share an adapter.  A message is a number; what  *)
(* a tool answers is kept as its exit code, and its edits as the set of    *)
(* messages whose edits are in the project.  The tool runs as a child      *)
(* process: it edits while it runs, and nothing in the adapters ends it.   *)
(***************************************************************************)
EXTENDS Naturals, FiniteSets, Sequences, Subsequences

CONSTANTS IdeTasks, MaxAsked    \* tasks that send; messages sent in all

ASSUME IdeAssumption == MaxAsked \in Nat /\ IdeTasks # {}

VARIABLES
    ide,          \* [tool, key, project]: the adapter, whether it has an API key, auto_project
    asks,         \* what each task does: [at, msg]
    asked,        \* number of messages sent
    toolRuns,     \* messages whose child process runs
    servedBy,     \* how each message was served: a set of "cli" and "api"
    answerOf,     \* what send_message gave back for it
    ideHistory,   \* _history: messages with whether they were projected
    ideCogons,    \* _session_cogons
    forgottenAsks,\* messages clear_history took away
    command,      \* the leet-ide process: [at, adapter, stream, export]
    leetIdeExit   \* its exit code

ideVars == <<ide, asks, asked, toolRuns, servedBy, answerOf, ideHistory, ideCogons,
             forgottenAsks, command, leetIdeExit>>

Tools == {"claude", "codex", "kimi", "aider"}
Asked == 1..MaxAsked
Answers == {"none", "done", "failed", "minus1", "raised"}

IdeTypeOK ==
    /\ ide \in [tool : Tools, key : BOOLEAN, project : BOOLEAN]
    /\ asks \in [IdeTasks -> [at : {"idle", "probe", "spawn", "run", "project", "api", "apiProject"},
                              msg : 0..MaxAsked]]
    /\ asked \in 0..MaxAsked
    /\ toolRuns \subseteq Asked
    /\ servedBy \in [Asked -> SUBSET {"cli", "api"}]
    /\ answerOf \in [Asked -> Answers]
    /\ \A i \in DOMAIN ideHistory : ideHistory[i] \in Asked \X BOOLEAN
    /\ \A i \in DOMAIN ideCogons : ideCogons[i] \in Asked
    /\ forgottenAsks \subseteq Asked
    /\ command \in [at : {"none", "create", "check", "send", "wait", "end"},
                    stream : BOOLEAN, export : BOOLEAN, wants : Tools \cup {"auto"}]
    /\ leetIdeExit \in {"none", "0", "1"}

\* The adapters' constructors.  The process is a program that uses the adapter
\* as a library, or leet-ide, which makes it itself.
IdeInit ==
    /\ ide \in [tool : Tools, key : BOOLEAN, project : BOOLEAN]
    /\ asks = [t \in IdeTasks |-> [at |-> "idle", msg |-> 0]]
    /\ asked = 0 /\ toolRuns = {} /\ servedBy = [m \in Asked |-> {}]
    /\ answerOf = [m \in Asked |-> "none"]
    /\ ideHistory = <<>> /\ ideCogons = <<>> /\ forgottenAsks = {}
    /\ \/ command = [at |-> "none", stream |-> FALSE, export |-> FALSE, wants |-> ide.tool]
       \/ command \in [at : {"create"}, stream : BOOLEAN, export : BOOLEAN,
                       wants : {ide.tool, "auto"}]
    /\ leetIdeExit = "none"

\* Task t's call goes on to the next point where it awaits.
Goes(t, at) == asks' = [asks EXCEPT ![t].at = at]

\* Task t's call ends: send_message returns an answer or raises.
Ends(t, answer) ==
    /\ answerOf' = [answerOf EXCEPT ![asks[t].msg] = answer]
    /\ Goes(t, "idle")

Serve(t, by) == servedBy' = [servedBy EXCEPT ![asks[t].msg] = @ \cup {by}]

---------------------------------------------------------------------------
\* A task of the program calls send_message (or a method that is a message:
\* analyze_project, explain_file, commit, undo ...).
Ask(t) ==
    /\ command.at = "none" /\ asks[t].at = "idle" /\ asked < MaxAsked
    /\ asked' = asked + 1
    /\ asks' = [asks EXCEPT ![t] = [at |-> "probe", msg |-> asked + 1]]
    /\ UNCHANGED <<ide, toolRuns, servedBy, answerOf, ideHistory, ideCogons, forgottenAsks,
                   command, leetIdeExit>>

\* is_available() runs `tool --version`: it is asked again for every message.
ClaudeProbe(t, there) ==
    /\ ide.tool = "claude"
    /\ IF there THEN Goes(t, "spawn") /\ UNCHANGED answerOf ELSE Ends(t, "raised")

\* Codex refuses to run without an OpenAI key.
CodexProbe(t, there) ==
    /\ ide.tool = "codex"
    /\ IF there /\ ide.key THEN Goes(t, "spawn") /\ UNCHANGED answerOf ELSE Ends(t, "raised")

AiderProbe(t, there) ==
    /\ ide.tool = "aider"
    /\ IF there THEN Goes(t, "spawn") /\ UNCHANGED answerOf ELSE Ends(t, "raised")

\* Kimi falls back on the HTTP API.
KimiProbe(t, there) ==
    /\ ide.tool = "kimi"
    /\ Goes(t, IF there THEN "spawn" ELSE "api")
    /\ UNCHANGED answerOf

Probe(t) ==
    /\ asks[t].at = "probe"
    /\ \E there \in BOOLEAN : \/ ClaudeProbe(t, there) \/ CodexProbe(t, there)
                              \/ AiderProbe(t, there) \/ KimiProbe(t, there)
    /\ UNCHANGED <<ide, asked, toolRuns, servedBy, ideHistory, ideCogons, forgottenAsks,
                   command, leetIdeExit>>

\* What an exception after the probe comes to: the three adapters answer exit
\* code -1, Kimi gives the message to the API, whatever the exception was.
Breaks(t) ==
    IF ide.tool = "kimi" THEN Goes(t, "api") /\ UNCHANGED answerOf ELSE Ends(t, "minus1")

\* create_subprocess_exec starts the tool, or raises.
Spawn(t) ==
    /\ asks[t].at = "spawn"
    /\ \/ /\ toolRuns' = toolRuns \cup {asks[t].msg}
          /\ Serve(t, "cli") /\ Goes(t, "run") /\ UNCHANGED answerOf
       \/ Breaks(t) /\ UNCHANGED <<toolRuns, servedBy>>
    /\ UNCHANGED <<ide, asked, ideHistory, ideCogons, forgottenAsks, command, leetIdeExit>>

\* Mutant of AddToHistory: the cogon is put first in the list.
AddToHistoryFront(m, projected) ==
    /\ ideHistory' = Append(ideHistory, <<m, projected>>)
    /\ ideCogons' = IF projected THEN <<m>> \o ideCogons ELSE ideCogons

\* _add_to_history: the response, and its cogon if it has one.
AddToHistory(m, projected) ==
    /\ ideHistory' = Append(ideHistory, <<m, projected>>)
    /\ ideCogons' = IF projected THEN Append(ideCogons, m) ELSE ideCogons

\* The child has ended: without auto_project the answer is recorded at once,
\* otherwise the projection is awaited first.
ToolEnds(t) ==
    /\ asks[t].at = "run"
    /\ toolRuns' = toolRuns \ {asks[t].msg}
    /\ IF ide.project
       THEN Goes(t, "project") /\ UNCHANGED <<answerOf, ideHistory, ideCogons>>
       ELSE /\ \E code \in {"done", "failed"} : Ends(t, code)
            /\ AddToHistory(asks[t].msg, FALSE)
    /\ UNCHANGED <<ide, asked, servedBy, forgottenAsks, command, leetIdeExit>>

\* Mutant of ToolTimesOut: the timeout is answered as the tool's own failure
\* and recorded like one.
ToolTimesOutRecorded(t) ==
    /\ asks[t].at = "run"
    /\ Ends(t, "failed")
    /\ AddToHistory(asks[t].msg, FALSE)
    /\ UNCHANGED <<ide, asked, toolRuns, servedBy, forgottenAsks, command, leetIdeExit>>

\* wait_for gives up after 120 s (180 s for aider): communicate() is
\* cancelled, the child runs on.
ToolTimesOut(t) ==
    /\ asks[t].at = "run"
    /\ Breaks(t)
    /\ UNCHANGED <<ide, asked, toolRuns, servedBy, ideHistory, ideCogons, forgottenAsks,
                   command, leetIdeExit>>

\* A child nobody waits for ends at last.
OrphanEnds(m) ==
    /\ m \in toolRuns
    /\ \A t \in IdeTasks : asks[t].at # "run" \/ asks[t].msg # m
    /\ toolRuns' = toolRuns \ {m}
    /\ UNCHANGED <<ide, asks, asked, servedBy, answerOf, ideHistory, ideCogons, forgottenAsks,
                   command, leetIdeExit>>

\* project_to_cogon returns, or raises after the tool has done its work.
Projected(t) ==
    /\ asks[t].at = "project"
    /\ \/ /\ \E code \in {"done", "failed"} : Ends(t, code)
          /\ AddToHistory(asks[t].msg, TRUE)
       \/ Breaks(t) /\ UNCHANGED <<ideHistory, ideCogons>>
    /\ UNCHANGED <<ide, asked, toolRuns, servedBy, forgottenAsks, command, leetIdeExit>>

\* _send_via_api: without a key, exit code -1; otherwise the request is
\* answered, refused, or fails before or after the service acted.  Nothing of
\* it is recorded.
SendViaApi(t) ==
    /\ asks[t].at = "api"
    /\ \/ ~ide.key /\ Ends(t, "minus1") /\ UNCHANGED servedBy
       \/ ide.key /\ Ends(t, "minus1") /\ (Serve(t, "api") \/ UNCHANGED servedBy)
       \/ /\ ide.key /\ Serve(t, "api")
          /\ IF ide.project THEN Goes(t, "apiProject") /\ UNCHANGED answerOf ELSE Ends(t, "done")
    /\ UNCHANGED <<ide, asked, toolRuns, ideHistory, ideCogons, forgottenAsks, command, leetIdeExit>>

\* The projection of the API's answer, which may fail as well.
ApiProjected(t) ==
    /\ asks[t].at = "apiProject"
    /\ Ends(t, "done") \/ Ends(t, "minus1")
    /\ UNCHANGED <<ide, asked, toolRuns, servedBy, ideHistory, ideCogons, forgottenAsks,
                   command, leetIdeExit>>

\* clear_history
ClearHistory ==
    /\ command.at = "none" /\ ideHistory # <<>>
    /\ forgottenAsks' = forgottenAsks \cup {ideHistory[i][1] : i \in DOMAIN ideHistory}
    /\ ideHistory' = <<>> /\ ideCogons' = <<>>
    /\ UNCHANGED <<ide, asks, asked, toolRuns, servedBy, answerOf, command, leetIdeExit>>

---------------------------------------------------------------------------
\* leet-ide.  One task carries its message.
Teller == CHOOSE t \in IdeTasks : TRUE

\* main_async: "auto" takes the first tool of list_adapters that is installed.
\* Aider's constructor raises without a project directory, so it never is.
AutoDetect ==
    /\ command.at = "create" /\ command.wants = "auto"
    /\ \/ /\ ide.tool # "aider"
          /\ command' = [command EXCEPT !.wants = ide.tool]
          /\ UNCHANGED leetIdeExit
       \/ command' = [command EXCEPT !.at = "end"] /\ leetIdeExit' = "1"
    /\ UNCHANGED <<ide, asks, asked, toolRuns, servedBy, answerOf, ideHistory, ideCogons,
                   forgottenAsks>>

Leave(code) ==
    /\ command' = [command EXCEPT !.at = "end"]
    /\ leetIdeExit' = code

\* run_adapter: the adapter is made (a project directory that is not there is a
\* ValueError), asked whether the tool is installed, and given the message.
RunAdapter ==
    /\ command.at = "create" /\ command.wants # "auto" /\ MaxAsked > 0
    /\ \/ Leave("1") /\ UNCHANGED <<asks, asked, servedBy, answerOf>>
       \/ /\ command' = [command EXCEPT !.at = "wait"]
          /\ asked' = 1 /\ UNCHANGED <<leetIdeExit, servedBy, answerOf>>
          /\ asks' = [asks EXCEPT ![Teller] = [at |-> "probe", msg |-> 1]]
       \/ \* KimiAdapter.stream_message: the tool went missing since the check, and
          \* the API streams (errors are chunks of text): no history.
          /\ command.stream /\ ide.tool = "kimi" /\ ide.key
          /\ command' = [command EXCEPT !.at = "wait"]
          /\ asked' = 1 /\ UNCHANGED <<asks, leetIdeExit>>
          /\ \E served \in SUBSET {"api"} : servedBy' = [servedBy EXCEPT ![1] = served]
          /\ answerOf' = [answerOf EXCEPT ![1] = "done"]
    /\ UNCHANGED <<ide, toolRuns, ideHistory, ideCogons, forgottenAsks>>

\* Mutant of ExitCode: the tool's own failure is leet-ide's.
ExitCodeOfTool(answer) == IF answer = "done" THEN "0" ELSE "1"

\* What run_adapter makes of the answer: any answer at all is a success, an
\* exception is 1.
ExitCode(answer) == IF answer = "raised" THEN "1" ELSE "0"

\* The answer is printed, the session exported (the file may not open).
RunAdapterEnds ==
    /\ command.at = "wait" /\ asks[Teller].at = "idle"
    /\ \/ Leave(ExitCode(answerOf[1]))
       \/ command.export /\ Leave("1")
    /\ UNCHANGED <<ide, asks, asked, toolRuns, servedBy, answerOf, ideHistory, ideCogons,
                   forgottenAsks>>

---------------------------------------------------------------------------
IdeNext ==
    \/ \E t \in IdeTasks : \/ Ask(t) \/ Probe(t) \/ Spawn(t) \/ ToolEnds(t) \/ ToolTimesOut(t)
                           \/ Projected(t) \/ SendViaApi(t) \/ ApiProjected(t)
    \/ \E m \in Asked : OrphanEnds(m)
    \/ ClearHistory
    \/ AutoDetect \/ RunAdapter \/ RunAdapterEnds

IdeSpec == IdeInit /\ [][IdeNext]_ideVars

---------------------------------------------------------------------------
\* The session's cogons are those of the history, in its order; the history
\* and what was cleared from it are exactly the messages a tool answered for
\* itself, each once.
SessionExact ==
    LET kept == {ideHistory[i][1] : i \in DOMAIN ideHistory}
        messages == [i \in DOMAIN ideHistory |-> ideHistory[i][1]]
    IN /\ ideCogons = Keeping(messages, {i \in DOMAIN ideHistory : ideHistory[i][2]})
       /\ Cardinality(kept) = Len(ideHistory)
       /\ kept \cap forgottenAsks = {}
       /\ \A m \in kept \cup forgottenAsks :
              answerOf[m] \in {"done", "failed"} /\ servedBy[m] = {"cli"}
       /\ \A m \in Asked :
              answerOf[m] \in {"done", "failed"} /\ servedBy[m] = {"cli"}
                  => m \in kept \cup forgottenAsks

\* A tool that runs on after its answer (and may still edit the project) is one
\* whose message was answered with exit code -1 or by Kimi's API: a caller who
\* got the tool's own answer may touch the project.
ToolsEnd ==
    \A m \in toolRuns : answerOf[m] \in {"done", "failed"} => "api" \in servedBy[m]

\* Exit code 1 of leet-ide means that no tool and no service took the message,
\* unless the export of the session is what failed.
ExitTells ==
    leetIdeExit = "1" /\ ~command.export => \A m \in Asked : servedBy[m] = {}

\* A message is taken twice, by the tool and by the API, only with Kimi.
TwiceOnlyByKimi == \A m \in Asked : servedBy[m] = {"cli", "api"} => ide.tool = "kimi"

IdeSound == SessionExact /\ ToolsEnd /\ ExitTells /\ TwiceOnlyByKimi

\* kimi.py:199, of the API: "Used when the CLI is unavailable."  A message the
\* command line took is not sent to the API as well.
ApiOnlyWithoutCli == \A m \in Asked : servedBy[m] # {"cli", "api"}
===============================================================================
