------------------------------- MODULE SetupMenu -------------------------------
(***************************************************************************)
(* setup.py: a menu that loads .env, changes the settings in memory, and   *)
(* writes .env when asked to; on the way it rewrites docker-compose.yml    *)
(* and installs leet-mcp.  It is run again and again, and killed between   *)
(* two prompts or inside a write.  One key stands for all that a section   *)
(* asks in the same way: "port" for the service, "host" for the SDK,       *)
(* "rounds" for the experiment, "api" for the providers.                   *)
(***************************************************************************)
EXTENDS Naturals, Sequences, Subsequences

CONSTANTS
    EnvFiles,       \* what .env may be at first: sequences of Lines
    MaxMenu,        \* bound: choices made in all
    MaxSetups       \* bound: runs of setup.py

VARIABLES
    envFile,      \* .env, line by line
    env,          \* the dict in memory, in order of insertion
    osEnviron,    \* whether the process has a key of its own in its environment
    compose,      \* docker-compose.yml: the values of its variables
    backup,       \* docker-compose.yml.bak
    installed,    \* what option 7 has installed
    menuAt,       \* "off", "menu", "copied" (the backup is made), "saved"
    loadedFrom,   \* history: .env as this run found it
    lastWhole,    \* history: the last docker-compose.yml that was whole
    killed,       \* history: a run was killed while it wrote .env
    menuChoices, setups

setupVars == <<envFile, env, osEnviron, compose, backup, installed, menuAt, loadedFrom,
               lastWhole, killed, menuChoices, setups>>

\* A comment or an empty line, and a line that is neither one nor a setting.
Comment == [key |-> "#", val |-> ""]
Junk == [key |-> "?", val |-> ""]
EnvKeys == {"port", "store", "embed", "embedKey", "w", "api", "host", "rounds"}
DockerKeys == {"port", "store", "embed"}
\* "cut" is what is left of a value that was cut off.
EnvValues == {"", "memory", "mock", "d", "v", "shell", "cut"}
Assignments == [key : EnvKeys, val : EnvValues]
Lines == Assignments \cup {Comment, Junk}

ASSUME SetupAssumption ==
    MaxMenu \in Nat /\ MaxSetups \in Nat /\ \A file \in EnvFiles : file \in Seq(Lines)

Torn == [k \in DockerKeys |-> "torn"]
Nothing == [k \in DockerKeys |-> "none"]
Shipped == [k \in DockerKeys |-> "shipped"]

SetupTypeOK ==
    /\ envFile \in Seq(Lines) /\ loadedFrom \in Seq(Lines) /\ env \in Seq(Assignments)
    /\ \A i, j \in DOMAIN env : env[i].key = env[j].key => i = j
    /\ osEnviron \in BOOLEAN /\ killed \in BOOLEAN
    /\ {compose, backup, lastWhole} \subseteq [DockerKeys -> EnvValues \cup {"shipped", "torn", "none"}]
    /\ installed \subseteq {"mcp", "cli", "claude"}
    /\ menuAt \in {"off", "menu", "copied", "saved"}
    /\ menuChoices \in 0..MaxMenu /\ setups \in 0..MaxSetups

SetupInit ==
    /\ envFile \in EnvFiles /\ loadedFrom = <<>> /\ env = <<>>
    /\ osEnviron \in BOOLEAN /\ killed = FALSE
    /\ compose = Shipped /\ backup = Nothing /\ lastWhole = Shipped
    /\ installed = {} /\ menuAt = "off" /\ menuChoices = 0 /\ setups = 0

-----------------------------------------------------------------------------
(* The dict *)

KeysIn(d) == {d[i].key : i \in DOMAIN d}
ValueIn(d, k) == d[CHOOSE i \in DOMAIN d : d[i].key = k].val

Assign(d, k, v) ==
    IF k \in KeysIn(d)
    THEN [i \in DOMAIN d |-> IF d[i].key = k THEN [key |-> k, val |-> v] ELSE d[i]]
    ELSE Append(d, [key |-> k, val |-> v])

Del(d, k) == Keeping(d, {i \in DOMAIN d : d[i].key # k})

\* get: an empty value counts as none.
Get(d, k, default) ==
    IF k \in KeysIn(d) /\ ValueIn(d, k) # "" THEN ValueIn(d, k)
    ELSE IF osEnviron /\ k = "api" THEN "shell" ELSE default

\* ask, ask_secret, ask_choice: Enter, end of input and interruption keep what
\* is there.
Replies(current, typed) == {current} \cup typed

-----------------------------------------------------------------------------
(* .env *)

\* load_env: a key is where its first line is, and has the value of its last.
FirstLines(file) ==
    {i \in DOMAIN file : file[i] \in Assignments /\ \A j \in 1..(i - 1) : file[j].key # file[i].key}

LastValue(file, k) ==
    file[CHOOSE i \in DOMAIN file :
           file[i].key = k /\ \A j \in DOMAIN file : file[j].key = k => j <= i].val

LoadEnv(file) ==
    LET lines == Keeping(file, FirstLines(file))
    IN [n \in DOMAIN lines |-> [key |-> lines[n].key, val |-> LastValue(file, lines[n].key)]]

\* The lines save_env goes by: one that is neither a comment nor a setting is lost.
KeptLines(file) == Keeping(file, {i \in DOMAIN file : file[i] # Junk})

\* Mutant of SavedLine: of several lines of a key only the first is rewritten.
SavedLineOnce(lines, i) ==
    IF lines[i].key \in KeysIn(env) /\ \A j \in 1..(i - 1) : lines[j].key # lines[i].key
    THEN [lines[i] EXCEPT !.val = ValueIn(env, lines[i].key)] ELSE lines[i]

\* A line of .env as save_env writes it: comments, and keys the dict has not
\* got, as they are.
SavedLine(lines, i) ==
    IF lines[i].key \in KeysIn(env)
    THEN [lines[i] EXCEPT !.val = ValueIn(env, lines[i].key)] ELSE lines[i]

SavedEnv ==
    LET kept == KeptLines(envFile)
    IN [i \in DOMAIN kept |-> SavedLine(kept, i)]
         \o Keeping(env, {i \in DOMAIN env : env[i].key \notin KeysIn(kept)})

\* What is left of a line that was cut off: nothing, a part of the key, the key
\* and a part of the value.
Remains(line) ==
    {<<>>} \cup
    IF line = Comment THEN {<<Comment>>}
    ELSE {<<Junk>>} \cup
         IF line.val = "" THEN {} ELSE {<<[line EXCEPT !.val = part]>> : part \in {"", "cut"}}

-----------------------------------------------------------------------------
(* The menu *)

Chosen ==
    /\ menuAt = "menu" /\ menuChoices < MaxMenu
    /\ menuChoices' = menuChoices + 1

Elsewhere == UNCHANGED <<envFile, osEnviron, compose, backup, installed, menuAt, loadedFrom,
                         lastWhole, killed, setups>>

\* main up to the menu.
StartSetup ==
    /\ menuAt = "off" /\ setups < MaxSetups
    /\ menuAt' = "menu" /\ setups' = setups + 1
    /\ env' = LoadEnv(envFile) /\ loadedFrom' = envFile
    /\ UNCHANGED <<envFile, osEnviron, compose, backup, installed, lastWhole, killed, menuChoices>>

\* The type of the store first, then its URL, with what is set as the answer
\* to Enter, "memory" included.
ConfigureService ==
    /\ Chosen
    /\ \E p \in Replies(Get(env, "port", "d"), {"v"}), memory \in BOOLEAN :
       \E s \in IF memory THEN {"memory"} ELSE Replies(Get(env, "store", "d"), {"v"}) :
          env' = Assign(Assign(env, "port", p), "store", s)
    /\ Elsewhere

\* An empty path keeps the one that is set, so that only an empty one goes.
ConfigureEmbedding ==
    /\ Chosen
    /\ \E m \in Replies(Get(env, "embed", "mock"), {"mock", "v"}), w \in Replies(Get(env, "w", ""), {"v"}) :
       \E key \in Replies(Get(env, "embedKey", ""), {"v"}) :
          LET asked == IF m = "v" THEN Assign(Assign(env, "embed", m), "embedKey", key) ELSE Assign(env, "embed", m)
          IN env' = IF w # "" THEN Assign(asked, "w", w) ELSE Del(asked, "w")
    /\ Elsewhere

\* A key that is set, here or in the shell, is asked for without a question;
\* only one that is set to nothing can be removed.
ConfigureApiKeys ==
    /\ Chosen
    /\ \E val \in Replies(Get(env, "api", ""), {"v"}), remove \in BOOLEAN :
          env' = IF val # "" THEN Assign(env, "api", val) ELSE IF remove THEN Del(env, "api") ELSE env
    /\ Elsewhere

ConfigurePythonSdk ==
    /\ Chosen
    /\ \E h \in Replies(Get(env, "host", "d"), {"v"}) : env' = Assign(env, "host", h)
    /\ Elsewhere

ConfigureExperiment ==
    /\ Chosen
    /\ \E r \in Replies(Get(env, "rounds", "d"), {"v"}) : env' = Assign(env, "rounds", r)
    /\ Elsewhere

\* Each program is installed after the one before it, or the section ends.
ConfigureClaudeCode ==
    /\ Chosen
    /\ \E n \in 0..3 : installed' = installed \cup {<<"mcp", "cli", "claude">>[i] : i \in 1..n}
    /\ UNCHANGED <<envFile, env, osEnviron, compose, backup, menuAt, loadedFrom, lastWhole, killed, setups>>

\* Mutant of CopyCompose: the first backup is the one that is kept.
CopyComposeOnce ==
    /\ Chosen
    /\ backup' = IF backup = Nothing THEN compose ELSE backup
    /\ menuAt' = "copied"
    /\ UNCHANGED <<envFile, env, osEnviron, compose, installed, loadedFrom, lastWhole, killed, setups>>

\* configure_docker copies the file before it writes it.
CopyCompose ==
    /\ Chosen
    /\ backup' = compose /\ menuAt' = "copied"
    /\ UNCHANGED <<envFile, env, osEnviron, compose, installed, loadedFrom, lastWhole, killed, setups>>

\* What the program shows, not what .env holds, goes into the file; a file
\* that was cut off has lost its variables.
ConfigureDocker ==
    /\ menuAt = "copied" /\ menuAt' = "menu"
    /\ compose' = IF compose = Torn THEN Torn
                  ELSE [port |-> Get(env, "port", "d"), store |-> Get(env, "store", "memory"),
                        embed |-> Get(env, "embed", "mock")]
    /\ lastWhole' = IF compose = Torn THEN lastWhole ELSE compose'
    /\ UNCHANGED <<envFile, env, osEnviron, backup, installed, loadedFrom, killed, menuChoices, setups>>

Save ==
    /\ menuAt = "menu" /\ menuAt' = "saved"
    /\ envFile' = SavedEnv
    /\ UNCHANGED <<env, osEnviron, compose, backup, installed, loadedFrom, lastWhole, killed,
                   menuChoices, setups>>

\* "q", the end of the input, or the end of the process.
Quit ==
    /\ menuAt # "off" /\ menuAt' = "off"
    /\ env' = <<>>
    /\ UNCHANGED <<envFile, osEnviron, compose, backup, installed, loadedFrom, lastWhole, killed,
                   menuChoices, setups>>

\* write_text empties a file before it writes it: the process ends in between,
\* perhaps inside a line.
KilledInSave ==
    /\ menuAt = "menu" /\ menuAt' = "off" /\ killed' = TRUE
    /\ \E n \in 0..(Len(SavedEnv) - 1) : \E rest \in Remains(SavedEnv[n + 1]) :
          envFile' = SubSeq(SavedEnv, 1, n) \o rest
    /\ env' = <<>>
    /\ UNCHANGED <<osEnviron, compose, backup, installed, loadedFrom, lastWhole, menuChoices, setups>>

KilledInDocker ==
    /\ menuAt \in {"menu", "copied"} /\ menuAt' = "off"
    /\ IF menuAt = "copied" THEN compose' = Torn /\ UNCHANGED backup
                            ELSE backup' = Torn /\ UNCHANGED compose
    /\ env' = <<>>
    /\ UNCHANGED <<envFile, osEnviron, installed, loadedFrom, lastWhole, killed, menuChoices, setups>>

SetupNext ==
    \/ StartSetup \/ ConfigureService \/ ConfigureEmbedding \/ ConfigureApiKeys
    \/ ConfigurePythonSdk \/ ConfigureExperiment \/ ConfigureClaudeCode
    \/ CopyCompose \/ ConfigureDocker \/ Save \/ Quit \/ KilledInSave \/ KilledInDocker

SetupSpec == SetupInit /\ [][SetupNext]_setupVars

-----------------------------------------------------------------------------
(* Properties *)

\* What is saved is what the next run will load, duplicated lines included
\* (setup.py:60).
SavedIsLoaded ==
    menuAt = "saved" =>
        \A k \in KeysIn(env) :
            k \in KeysIn(LoadEnv(envFile)) /\ ValueIn(LoadEnv(envFile), k) = ValueIn(env, k)

\* save_env "preserving order and existing comments" (setup.py:48): the comments
\* and settings the run found are still there, in their order, with values of
\* their own keys, and what it adds goes behind them.  A line that is neither,
\* which a save that was killed can leave, is not kept (setup.py:53-62).
LinesKept ==
    menuAt = "saved" =>
        LET found == KeptLines(loadedFrom)
        IN /\ Len(envFile) >= Len(found)
           /\ \A i \in DOMAIN found : envFile[i].key = found[i].key

\* One of docker-compose.yml and its backup is always the last file that was
\* whole, until a run copies a file that was cut off over it (setup.py:424).
ComposeRecoverable == compose = lastWhole \/ backup = lastWhole \/ {compose, backup} = {Torn}

SetupSound == SavedIsLoaded /\ LinesKept /\ ComposeRecoverable
=============================================================================
