------------------------------- MODULE Absorb -------------------------------
(***************************************************************************)
(* `leet absorb` imports the sessions of Claude Code into store.bin, while *)
(* the MCP server may have the store open: it appends records of its own   *)
(* making, without opening the store, truncating a torn end, or touching   *)
(* index.bin.  A session is known by the time of its latest turn.          *)
(*                                                                         *)
(* absorb looks for store.bin and creates it in two steps (LooksForStore,  *)
(* AbsorbHeader), the server in one (OpenCreate); either may find that the *)
(* other has created it in between or is about to write its header.        *)
(***************************************************************************)
EXTENDS PersonalStore

CONSTANTS
  Sessions,  \* the Claude Code sessions of the project, numbered from 1
  MaxCells   \* bound: absorb starts only while store.bin has fewer records

ASSUME AbsorbAssumption == Sessions \subseteq Nat \ {0} /\ MaxCells \in Nat

VARIABLES
  latest,   \* of each session, the time of its latest turn: -1 before the first,
            \* 0 as long as no turn has a timestamp that can be read
  phase,    \* of the absorb process: "off", "found", "copy", "create", "write", "done"
  flags,    \* those of --force and --dry-run it was given
  found,    \* the sessions it discovered, each with its latest turn
  todo,     \* those it has not looked at yet
  seen      \* existing_stamps: the unix_ns of the records there were

absorbing == <<phase, flags, found, todo, seen>>
absorbVars == <<vars, latest, absorbing>>

\* The summary of session s as it was at time t, as a memory like no other.
SessionId(s, t) == (MaxNow + 1) * s + t
SessionRecord(d) == [ids |-> {SessionId(d[1], d[2])}, unix_ns |-> d[2]]

AbsorbInit ==
  /\ Init
  /\ latest = [s \in Sessions |-> -1]
  /\ phase = "off" /\ flags = {} /\ found = {} /\ todo = {} /\ seen = {}

\* Turns are added to some sessions at one time, or with no readable time.
Turn ==
  /\ now < MaxNow /\ now' = now + 1
  /\ \E S \in (SUBSET Sessions) \ {{}}, t \in {0, now'} :
       latest' = [s \in Sessions |-> IF s \in S THEN Max({latest[s], t}) ELSE latest[s]]
  /\ UNCHANGED <<disk, pc, role, mem, loop, opens, pending, past, absorbing>>

\* discover_sessions: the sessions whose latest turn is not before --since, 0
\* standing for no --since.
Discover ==
  /\ phase = "off" /\ Len(cells) < MaxCells
  /\ \E cutoff \in 0 .. now :
       found' = {d \in Sessions \X (0 .. now) : d[2] = latest[d[1]] /\ d[2] >= cutoff}
  /\ todo' = found' /\ found' # {}
  /\ flags' \in SUBSET {"force", "dry_run"}
  /\ phase' = "found"
  /\ UNCHANGED <<vars, latest, seen>>

\* Mutant of LoadExistingTimestamps: only the newest record is looked at.
LoadNewestTimestamp ==
  /\ phase = "found" /\ phase' = "copy"
  /\ seen' = IF "force" \in flags \/ header # "ok" \/ cells = <<>> THEN {}
             ELSE {cells[Len(cells)].unix_ns}
  /\ UNCHANGED <<vars, latest, flags, found, todo>>

LoadExistingTimestamps ==
  /\ phase = "found" /\ phase' = "copy"
  /\ seen' = IF "force" \in flags \/ header # "ok" THEN {}
             ELSE {cells[i].unix_ns : i \in DOMAIN cells} \ {Corrupt.unix_ns}
  /\ UNCHANGED <<vars, latest, flags, found, todo>>

\* Its time is that of a record, or its text gets no vector (the embedding
\* failed): it is passed over.
Skip(d) ==
  /\ phase = "copy" /\ d \in todo
  /\ todo' = todo \ {d}
  /\ UNCHANGED <<vars, latest, phase, flags, found, seen>>

AbsorbGone ==
  phase' = "off" /\ flags' = {} /\ found' = {} /\ todo' = {} /\ seen' = {}

\* --dry-run only reports.
DryRun(d) ==
  /\ phase = "copy" /\ d \in todo /\ d[2] \notin seen /\ "dry_run" \in flags
  /\ todo' = todo \ {d}
  /\ UNCHANGED <<vars, latest, phase, flags, found, seen>>

Takes(d) == d \in todo /\ d[2] \notin seen /\ "dry_run" \notin flags

\* append_record finds no store.bin.
LooksForStore(d) ==
  /\ phase = "copy" /\ Takes(d)
  /\ header = "absent" /\ phase' = "create"
  /\ UNCHANGED <<vars, latest, flags, found, todo, seen>>

\* fs::write of the header cuts off what another process has written since.
\* Mutant of AbsorbHeader: in any store, found or not.
AbsorbHeaderAlways ==
  /\ phase \in {"copy", "create"} /\ phase' = "write"
  /\ \E d \in todo : Takes(d)
  /\ header' = "ok" /\ cells' = <<>> /\ torn' = NoTail /\ spoiled' = spoiled
  /\ UNCHANGED <<index, pc, role, mem, loop, now, opens, pending, past,
                 latest, flags, found, todo, seen>>
AbsorbHeader ==
  /\ phase = "create" /\ phase' = "write"
  /\ header' = "ok" /\ cells' = <<>> /\ torn' = NoTail
  /\ spoiled' = (spoiled \/ cells # <<>>)
  /\ UNCHANGED <<index, pc, role, mem, loop, now, opens, pending, past,
                 latest, flags, found, todo, seen>>

\* The process is gone before the header of a store it created is complete.
AbsorbHeaderFails ==
  /\ phase = "create" /\ Faults \cap {"crash", "write"} # {}
  /\ header = "absent" /\ header' = "short"
  /\ AbsorbGone
  /\ UNCHANGED <<cells, torn, index, spoiled, pc, role, mem, loop, now, opens, pending,
                 past, latest>>

\* A record in a file without its header lies where the header should be: of its
\* 360 bytes 344 are left behind the 16 that a server may still write there.
AppendRecord(d) ==
  /\ phase \in {"copy", "write"} /\ Takes(d) /\ header # "absent"
  /\ IF header = "ok" \/ torn # NoTail
       THEN WriteWhole(SessionRecord(d))
       ELSE torn' = Corrupt /\ UNCHANGED <<cells, spoiled>>
  /\ todo' = todo \ {d} /\ phase' = "copy"
  /\ UNCHANGED <<header, index, pc, role, mem, loop, now, opens, pending, past,
                 latest, flags, found, seen>>

\* The write ends early, and the process with it.
AppendRecordFails(d) ==
  /\ phase \in {"copy", "write"} /\ Takes(d) /\ header = "ok"
  /\ Faults \cap {"crash", "write"} # {}
  /\ WritePart(SessionRecord(d))
  /\ AbsorbGone
  /\ UNCHANGED <<header, index, pc, role, mem, loop, now, opens, pending, past, latest>>

AbsorbDone ==
  /\ phase = "copy" /\ todo = {} /\ phase' = "done"
  /\ UNCHANGED <<vars, latest, flags, found, todo, seen>>

\* The process is gone, at its end or before it.
AbsorbEnds ==
  /\ phase # "off" /\ (phase # "done" => Faults \cap {"crash", "fsync"} # {})
  /\ AbsorbGone
  /\ UNCHANGED <<vars, latest>>

Absorbing ==
  \/ Discover \/ LoadExistingTimestamps
  \/ \E d \in todo : \/ Skip(d) \/ DryRun(d) \/ LooksForStore(d)
                      \/ AppendRecord(d) \/ AppendRecordFails(d)
  \/ AbsorbHeader \/ AbsorbHeaderFails
  \/ AbsorbDone \/ AbsorbEnds

AbsorbNext ==
  \/ Next /\ UNCHANGED <<latest, absorbing>>
  \/ Turn
  \/ Absorbing

AbsorbSpec == AbsorbInit /\ [][AbsorbNext]_absorbVars

-----------------------------------------------------------------------------
(***************************************************************************)
(* Properties.                                                             *)
(***************************************************************************)
\* What the store was told to keep it keeps, though another process writes to
\* its file behind its back: a memory that was reported as remembered can be
\* recalled from every store that was intact when it was loaded.
AckedSurvivesAbsorb == AckedRecallable /\ NothingHidden

\* The chunks that hold the summary of session s as it was at time t.
Imports(s, t) == {i \in DOMAIN cells : cells[i].ids = {SessionId(s, t)}}

\* absorb is done with a session
Taken == phase \in {"copy", "write"} /\ todo' # todo /\ "force" \notin flags

\* Without --force a session that has not changed is imported once into a store
\* that stays intact, however often absorb runs, ends early or runs next to the
\* server.
UnchangedOnce ==
  [][Taken /\ Intact' => \A s \in Sessions, t \in 0 .. MaxNow :
       Imports(s, t) # {} => Imports(s, t)' = Imports(s, t)]_absorbVars

\* absorb.rs: "Idempotent - won't double-import the same session."
NeverTwice ==
  [][Taken => \A s \in Sessions :
       LET All == UNION {Imports(s, t) : t \in 0 .. MaxNow}
       IN  All # {} => All' = All]_absorbVars
=============================================================================
