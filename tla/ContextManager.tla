----------------------------- MODULE ContextManager -----------------------------
(***************************************************************************)
(* python/leet/context.py: profiles, and the managers that blend one of    *)
(* them with the recent cogons into a context.                             *)
(*                                                                         *)
(* A profile is an object, known by a number: the built-in ones are shared *)
(* by every manager of the process, a manager's own are kept by name.  Of  *)
(* its 32 axes one is kept, as a weight in 0..1000 with a temperature in   *)
(* tenths; a cogon is its value on that axis.                              *)
(***************************************************************************)
EXTENDS Integers, FiniteSets, Sequences, SequencesExt, FiniteSetsExt

CONSTANTS
    Managers,      \* the ContextManagers of the process
    WindowSize,    \* window_size of their histories
    CogonValues,   \* values a projection may have
    MaxProfiles,   \* bound on profile objects
    MaxUses        \* bound on calls of set_profile

ASSUME ContextAssumption ==
    /\ WindowSize \in Nat \ {0} /\ CogonValues \subseteq 0..1000
    /\ MaxProfiles \in Nat \ {0} /\ MaxUses \in Nat

VARIABLES
    profiles,        \* the profile objects: [name, weight, temperature, usage]
    recent,          \* history of each manager, oldest first
    currentProfile,  \* its profile object, 0 for None
    customProfiles,  \* the objects it knows under each name, 0 for none
    contextCogon,    \* _context_cogon: its value, or NoContext
    uses             \* set_profile calls that chose each object

ctxVars == <<profiles, recent, currentProfile, customProfiles, contextCogon, uses>>

NoContext == -1
ProfileNames == {"emergency", "mine"}

\* BUILTIN_PROFILES: one of them, "emergency", on its axis C1_URGENCIA.
Builtins == <<[name |-> "emergency", weight |-> 1000, temperature |-> 13, usage |-> 0]>>
Builtin(name) == IF name = "emergency" THEN 1 ELSE 0

ContextTypeOK ==
    /\ \A i \in DOMAIN profiles :
           profiles[i] \in [name : ProfileNames, weight : 0..1000, temperature : 1..20, usage : Nat]
    /\ \A m \in Managers : /\ recent[m] \in BoundedSeq(CogonValues, WindowSize)
                           /\ currentProfile[m] \in 0..Len(profiles)
                           /\ customProfiles[m] \in [ProfileNames -> 0..Len(profiles)]
                           /\ contextCogon[m] \in Int
    /\ \A i \in 1..MaxProfiles : uses[i] \in 0..MaxUses

ContextInit ==
    /\ profiles = Builtins
    /\ recent = [m \in Managers |-> <<>>]
    /\ currentProfile = [m \in Managers |-> 0]
    /\ customProfiles = [m \in Managers |-> [n \in ProfileNames |-> 0]]
    /\ contextCogon = [m \in Managers |-> NoContext]
    /\ uses = [i \in 1..MaxProfiles |-> 0]

---------------------------------------------------------------------------
\* ContextProfile.to_cogon: 0.5 + (w - 0.5) * temperature.
ToCogon(p) == 500 + ((p.weight - 500) * p.temperature) \div 10

\* ContextProfile.__post_init__: the temperature is held between 0.1 and 2.
Temperature(t) == IF t < 1 THEN 1 ELSE IF t > 20 THEN 20 ELSE t

\* The mean of a history, each cogon weighing 0.8 of the one after it.
Weighted(h) ==
    LET n == Len(h)
        weight(i) == 4 ^ (n - i) * 5 ^ i
    IN FoldSet(LAMBDA i, s : s + h[i] * weight(i), 0, 1..n)
           \div FoldSet(LAMBDA i, s : s + weight(i), 0, 1..n)

\* What get_context_cogon computes from a profile object and a history.
ContextOf(p, h) ==
    LET base == IF p = 0 THEN 500 ELSE ToCogon(profiles[p])
    IN IF h = <<>> THEN base ELSE (base + Weighted(h)) \div 2

Invalidated(m) == [contextCogon EXCEPT ![m] = NoContext]

\* set_profile: a built-in name first, then the manager's own; an unknown one
\* raises.
SetProfile(m, name) ==
    LET p == IF Builtin(name) # 0 THEN Builtin(name) ELSE customProfiles[m][name]
    IN /\ p # 0 /\ uses[p] < MaxUses
       /\ currentProfile' = [currentProfile EXCEPT ![m] = p]
       /\ profiles' = [profiles EXCEPT ![p].usage = @ + 1]
       /\ uses' = [uses EXCEPT ![p] = @ + 1]
       /\ contextCogon' = Invalidated(m)
       /\ UNCHANGED <<recent, customProfiles>>

\* Mutant of AddToContext: the context is kept once the window is full.
AddToContextFull(m, c) ==
    /\ recent' = [recent EXCEPT ![m] =
           IF Len(@) < WindowSize THEN Append(@, c) ELSE Append(Tail(@), c)]
    /\ contextCogon' = IF Len(recent[m]) < WindowSize THEN Invalidated(m) ELSE contextCogon
    /\ UNCHANGED <<profiles, currentProfile, customProfiles, uses>>

\* add_to_history: the deque drops the oldest.
AddToContext(m, c) ==
    /\ recent' = [recent EXCEPT ![m] =
           IF Len(@) < WindowSize THEN Append(@, c) ELSE Append(Tail(@), c)]
    /\ contextCogon' = Invalidated(m)
    /\ UNCHANGED <<profiles, currentProfile, customProfiles, uses>>

\* get_context_cogon: the cached one, or a new one unless there is neither a
\* history nor a profile.
Known(m) == recent[m] # <<>> \/ currentProfile[m] # 0

GetContext(m) ==
    /\ contextCogon' = IF contextCogon[m] = NoContext /\ Known(m)
                       THEN [contextCogon EXCEPT ![m] = ContextOf(currentProfile[m], recent[m])]
                       ELSE contextCogon
    /\ UNCHANGED <<profiles, recent, currentProfile, customProfiles, uses>>

\* adjust_projection: 80 % of the projection, 20 % of the context.  It reads
\* the context, and so fills the cache.
Adjusted(m, c) ==
    IF contextCogon[m] = NoContext /\ ~Known(m) THEN c
    ELSE (8 * c + 2 * (IF contextCogon[m] = NoContext
                       THEN ContextOf(currentProfile[m], recent[m]) ELSE contextCogon[m])) \div 10

AdjustProjection(m) == GetContext(m)

\* detect_context_drift looks at two cogons or more, and reads the context too.
DetectDrift(m) == Len(recent[m]) >= 2 /\ GetContext(m)

\* The profile object a name is given; one that had the name before lives on
\* as the current profile of whoever chose it.
Define(m, p) ==
    /\ Len(profiles) < MaxProfiles
    /\ profiles' = Append(profiles, p)
    /\ customProfiles' = [customProfiles EXCEPT ![m][p.name] = Len(profiles) + 1]
    /\ UNCHANGED <<recent, currentProfile, contextCogon, uses>>

\* create_custom_profile: the weights are the mean of the samples.
CreateProfile(m, name, samples) ==
    /\ samples # {}
    /\ \E t \in {0, 20} :
         Define(m, [name |-> name, weight |-> SumSet(samples) \div Cardinality(samples),
                    temperature |-> Temperature(t), usage |-> 0])

\* import_profile, of a file that export_profile wrote.
ImportProfile(m, p) == Define(m, profiles[p])

\* auto_select_profile: the nearest of the built-in profiles and the manager's
\* own, which shadow them here.
AutoSelect(m, c) ==
    LET known == {IF customProfiles[m][n] # 0 THEN customProfiles[m][n] ELSE Builtin(n)
                      : n \in ProfileNames} \ {0}
        away(p) == IF ToCogon(profiles[p]) > c THEN ToCogon(profiles[p]) - c
                   ELSE c - ToCogon(profiles[p])
    IN {p \in known : \A q \in known : away(p) <= away(q)}

ContextNext ==
    \E m \in Managers :
        \/ \E name \in ProfileNames : SetProfile(m, name)
        \/ \E c \in CogonValues : AddToContext(m, c)
        \/ GetContext(m) \/ AdjustProjection(m) \/ DetectDrift(m)
        \/ \E name \in ProfileNames, samples \in SUBSET CogonValues : CreateProfile(m, name, samples)
        \/ \E p \in DOMAIN profiles : ImportProfile(m, p)

ContextSpec == ContextInit /\ [][ContextNext]_ctxVars

---------------------------------------------------------------------------
\* A context that is kept is the one of the history and of the profile as they
\* are now: nothing that changes either leaves an old one behind.
ContextFresh ==
    \A m \in Managers :
        contextCogon[m] # NoContext => contextCogon[m] = ContextOf(currentProfile[m], recent[m])

\* A profile's usage count counts the choices of it by every manager of the
\* process, after those it was imported with; no manager uses a profile it
\* never chose.
UsageExact ==
    /\ \A p \in DOMAIN profiles : profiles[p].usage >= uses[p]
    /\ profiles[1].usage = uses[1]
    /\ \A m \in Managers : currentProfile[m] # 0 => uses[currentProfile[m]] > 0

ContextSound == ContextFresh /\ UsageExact

\* context.py:64, of to_cogon: "sem = weights adjusted to stay within [0, 1]".
\* Projections that lie in the range are adjusted into the range.
AdjustedInRange == \A m \in Managers : \A c \in CogonValues : Adjusted(m, c) \in 0..1000
===============================================================================
