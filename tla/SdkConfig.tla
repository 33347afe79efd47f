------------------------------- MODULE SdkConfig -------------------------------
(***************************************************************************)
(* python/leet/config.py: LeetConfig.load, which puts a file and the       *)
(* environment together, and the process-wide configuration.               *)
(*                                                                         *)
(* One field stands for each kind the merge tells apart:                   *)
(*   host   a string of a sub-configuration (server.host, cache.backend,   *)
(*          every number and flag of retry, circuit_breaker, metrics)      *)
(*   size   one of them that from_env never reads (cache.max_size)         *)
(*   key    an optional of a sub-configuration (projection.*_api_key)      *)
(*   hosts  a list of a sub-configuration (server.fallback_hosts)          *)
(*   debug  a flag of LeetConfig itself                                    *)
(*   level  a string of LeetConfig itself (log_level, version)             *)
(***************************************************************************)
EXTENDS Naturals, FiniteSets

CONSTANTS
    MaxLoads,     \* bound on calls that load a configuration
    MaxEdits      \* bound on changes of the environment and of the file

ASSUME CfgAssumption == MaxLoads \in Nat /\ MaxEdits \in Nat

VARIABLES
    environ,       \* the environment variables: a value, or "unset"
    configFile,    \* the fields the file sets
    globalConfig,  \* _global_config; Unset while it is None
    origin,        \* who set it, and what it was loaded from
    loads,         \* number of loads
    edits          \* number of changes

cfgVars == <<environ, configFile, globalConfig, origin, loads, edits>>

Fields == {"host", "size", "key", "hosts", "debug", "level"}
Nested == {"host", "size", "key", "hosts"}
FieldsOfEnv == Fields \ {"size"}

\* The defaults of the dataclasses; "none" is None and "empty" the empty list.
Defaults == [host |-> "localhost", size |-> "10000", key |-> "none", hosts |-> "empty",
             debug |-> "false", level |-> "INFO"]

Settable == [host |-> {"localhost", "h"}, size |-> {"9"}, key |-> {"k"}, hosts |-> {"l"},
             debug |-> {"true", "false"}, level |-> {"DEBUG"}]

ValuesOf(f) == {Defaults[f]} \cup Settable[f] \cup {"given"}

Unset == [f \in Fields |-> "unset"]

CfgTypeOK ==
    /\ \A f \in Fields : environ[f] \in Settable[f] \cup {"unset", "bad"}
    /\ \A f \in Fields : configFile.sets[f] \in Settable[f] \cup {"unset"}
    /\ configFile.state \in {"missing", "unsupported", "broken", "good"}
    /\ \A f \in Fields : globalConfig[f] \in ValuesOf(f) \cup {"unset"}
    /\ loads \in 0..MaxLoads /\ edits \in 0..MaxEdits

\* The module is imported: _global_config is None.
CfgInit ==
    /\ environ = Unset
    /\ configFile = [state |-> "good", sets |-> Unset]
    /\ globalConfig = Unset /\ loads = 0 /\ edits = 0
    /\ origin = [by |-> "nobody", env |-> Unset, file |-> Unset, given |-> {}]

---------------------------------------------------------------------------
\* from_env: the defaults, and what the environment sets (a value that is not
\* a number raises, when a number is read).
FromEnv(env) ==
    [f \in Fields |-> IF f \in FieldsOfEnv /\ env[f] # "unset" THEN env[f] ELSE Defaults[f]]

EnvRaises(env) == \E f \in FieldsOfEnv : env[f] = "bad"

\* from_json, from_yaml, from_toml, by way of from_dict: the defaults, and what
\* the file sets.
FromFile(file) == [f \in Fields |-> IF file.sets[f] # "unset" THEN file.sets[f] ELSE Defaults[f]]

\* No such file, a suffix that is not known, text or a field that is not.
FileRaises(file) == file.state # "good"

\* _merge_dataclasses: the environment's value unless it is None or empty.
MergedNested(base, override) == IF override \in {"none", "empty"} THEN base ELSE override

\* _merge_configs.is_default, for the fields of LeetConfig itself.
IsDefault(value) == value \in {"none", "empty", "false", "0", ""}

\* Mutant of MergedConfig: an optional that the environment leaves out is None.
MergedConfigWithNone(base, override) ==
    [f \in Fields |-> IF f \in Nested \/ ~IsDefault(override[f]) THEN override[f] ELSE base[f]]

\* _merge_configs: sub-configurations field by field, the fields of
\* LeetConfig unless the environment's value looks like a default.
MergedConfig(base, override) ==
    [f \in Fields |-> IF f \in Nested THEN MergedNested(base[f], override[f])
                      ELSE IF IsDefault(override[f]) THEN base[f] ELSE override[f]]

\* load(path): defaults, then the file, then the environment.
Loaded(file, withFile, env) ==
    MergedConfig(IF withFile THEN FromFile(file) ELSE Defaults, FromEnv(env))

LoadRaises(file, withFile, env) == (withFile /\ FileRaises(file)) \/ EnvRaises(env)

---------------------------------------------------------------------------
\* The user sets or unsets a variable, edits the file.
SetVariable(f, v) ==
    /\ edits < MaxEdits /\ edits' = edits + 1
    /\ f \in FieldsOfEnv /\ environ[f] # v
    /\ environ' = [environ EXCEPT ![f] = v]
    /\ UNCHANGED <<configFile, globalConfig, origin, loads>>

WriteFile(f, v, state) ==
    /\ edits < MaxEdits /\ edits' = edits + 1
    /\ configFile' = [state |-> state, sets |-> [configFile.sets EXCEPT ![f] = v]]
    /\ configFile' # configFile
    /\ UNCHANGED <<environ, globalConfig, origin, loads>>

\* get_config: the first call loads, without a file; later ones give the same
\* object whatever the environment has become.  A load that raises leaves none.
GetConfig ==
    /\ loads < MaxLoads /\ loads' = loads + 1
    /\ IF globalConfig = Unset /\ ~LoadRaises(configFile, FALSE, environ)
       THEN /\ globalConfig' = Loaded(configFile, FALSE, environ)
            /\ origin' = [by |-> "load", env |-> environ, file |-> Unset, given |-> {}]
       ELSE UNCHANGED <<globalConfig, origin>>
    /\ UNCHANGED <<environ, configFile, edits>>

\* set_config(config)
SetConfig ==
    /\ loads < MaxLoads /\ loads' = loads + 1
    /\ globalConfig' = [f \in Fields |-> "given"] 
    /\ origin' = [origin EXCEPT !.by = "caller"]
    /\ UNCHANGED <<environ, configFile, edits>>

\* init_config(path, **overrides): the load comes first, so one that raises
\* keeps the configuration there was; then the overrides are set, of the names
\* LeetConfig has.
InitConfig(withFile, given) ==
    /\ loads < MaxLoads /\ loads' = loads + 1
    /\ IF LoadRaises(configFile, withFile, environ)
       THEN UNCHANGED <<globalConfig, origin>>
       ELSE /\ globalConfig' = [f \in Fields |->
                   IF f \in given THEN "given" ELSE Loaded(configFile, withFile, environ)[f]]
            /\ origin' = [by |-> "load", env |-> environ, given |-> given,
                          file |-> IF withFile THEN configFile.sets ELSE Unset]
    /\ UNCHANGED <<environ, configFile, edits>>

CfgNext ==
    \/ \E f \in FieldsOfEnv : \E v \in Settable[f] \cup {"unset"} : SetVariable(f, v)
    \/ SetVariable("host", "bad")
    \/ \E f \in Fields : \E v \in Settable[f] \cup {"unset"} : WriteFile(f, v, "good")
    \/ \E state \in {"missing", "unsupported", "broken"} :
           WriteFile("host", configFile.sets["host"], state)
    \/ GetConfig \/ SetConfig
    \/ \E withFile \in BOOLEAN, given \in SUBSET {"debug"} : InitConfig(withFile, given)

CfgSpec == CfgInit /\ [][CfgNext]_cfgVars

---------------------------------------------------------------------------
\* What the process runs with is put together from the environment, the file
\* and the defaults as they were at one load, and from nothing else: a field that
\* the environment gave has that value, but for "false" for a flag of LeetConfig;
\* another has the value of the file or the default, and if it is an optional, a
\* list or a flag, the file's if the file has one.
ConfigSound ==
    origin.by = "load" =>
        \A f \in Fields \ origin.given :
            LET env == IF f \in FieldsOfEnv THEN origin.env[f] ELSE "unset"
                file == IF origin.file[f] = "unset" THEN Defaults[f] ELSE origin.file[f]
                given == env # "unset" /\ ~(f = "debug" /\ env = "false")
            IN /\ given => globalConfig[f] = env
               /\ ~given => globalConfig[f] \in {file, Defaults[f]}
               /\ ~given /\ f \in {"key", "hosts", "debug"} => globalConfig[f] = file

\* config.py:248-251: "Precedence order (highest priority first): 1. Environment
\* variables 2. Configuration file 3. Defaults".  A field that the file sets and
\* the environment does not has the file's value.
FileOverDefaults ==
    origin.by = "load" =>
        \A f \in Fields \ origin.given :
            origin.file[f] # "unset" /\ origin.env[f] = "unset"
                => globalConfig[f] = origin.file[f]
===============================================================================
