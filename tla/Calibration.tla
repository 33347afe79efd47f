------------------------------ MODULE Calibration ------------------------------
(***************************************************************************)
(* calibration/run_pipeline.py and the four programs it starts one after   *)
(* the other: generate_dataset.py scores texts into a file it can resume,  *)
(* train_w.py fits W to them, evaluate_w.py tests W, and export_w.py       *)
(* copies it to the service.  Any of them may fail or be killed, and the   *)
(* next run finds the files as they are.                                   *)
(***************************************************************************)
EXTENDS Naturals, Sequences, SequencesExt, FiniteSets

CONSTANTS
    SeedTexts,     \* the number of texts in seed_texts.txt
    MinRecords,    \* records that train_w.py asks for (5)
    MaxPipelines   \* bound: runs of the pipeline

ASSUME CalAssumption == SeedTexts \in Nat /\ MinRecords \in Nat /\ MaxPipelines \in Nat

VARIABLES
    dataset,     \* dataset.jsonl, line by line: the text, or Malformed
    lineEnd,     \* how the last line ends: "newline", "none" or "half" a record
    existing,    \* existing in generate_dataset.py
    nextText,    \* the text it is at
    wNpy, wBin,  \* W.npy and W.bin: what they were trained on
    exported,    \* W.bin of the service
    step, skipGenerate,   \* --step, --skip-generate
    stage,       \* the program that runs, or "idle", "complete", "incomplete"
    failed,      \* errors is not empty
    cleanStart,  \* history: the file ended with a newline when generate began
    generated,   \* history: generate succeeded in this run
    pipelines

calVars == <<dataset, lineEnd, existing, nextText, wNpy, wBin, exported, step, skipGenerate,
             stage, failed, cleanStart, generated, pipelines>>

Malformed == 0
Texts == 1..SeedTexts
Stages == <<"generate", "train", "evaluate", "export">>
NoMatrix == [whole |-> FALSE, from |-> {}]
HalfMatrix == [whole |-> FALSE, from |-> Texts]
Matrices == [whole : BOOLEAN, from : SUBSET Texts]

CalTypeOK ==
    /\ dataset \in Seq(Texts \cup {Malformed}) /\ lineEnd \in {"newline", "none", "half"}
    /\ existing \subseteq Texts /\ nextText \in 1..(SeedTexts + 1)
    /\ {wNpy, wBin, exported} \subseteq Matrices
    /\ step \in {"all"} \cup ToSet(Stages) /\ skipGenerate \in BOOLEAN
    /\ stage \in {"idle", "scoring", "binary", "complete", "incomplete"} \cup ToSet(Stages)
    /\ failed \in BOOLEAN /\ cleanStart \in BOOLEAN /\ generated \in BOOLEAN
    /\ pipelines \in 0..MaxPipelines

CalInit ==
    /\ dataset = <<>> /\ lineEnd = "newline" /\ existing = {} /\ nextText = 1
    /\ wNpy = NoMatrix /\ wBin = NoMatrix /\ exported = NoMatrix
    /\ step = "all" /\ skipGenerate = FALSE /\ stage = "idle"
    /\ failed = FALSE /\ cleanStart = TRUE /\ generated = FALSE /\ pipelines = 0

-----------------------------------------------------------------------------
(* The file of records *)

\* load_dataset, and the resumption of generate: lines that do not parse are
\* passed over, an unfinished one at the end among them.
Records == ToSet(IF lineEnd = "half" THEN Front(dataset) ELSE dataset) \ {Malformed}

\* Mutant of Existing: a file with a line that does not parse is not resumed.
ExistingAllOrNone == IF lineEnd = "half" \/ Malformed \in ToSet(dataset) THEN {} ELSE ToSet(dataset)

Existing == Records

\* A record goes behind whatever the file ends with: behind a line without its
\* newline it makes one line of the two, which no longer parses.
Appended(t) ==
    IF lineEnd = "newline" THEN Append(dataset, t)
    ELSE Append(Front(dataset), Malformed)

-----------------------------------------------------------------------------
(* run_pipeline.py *)

Wanted(s) == step \in {"all", s} /\ ~(s = "generate" /\ skipGenerate)

\* The stage after s, or the end.
After(s, bad) ==
    LET later == {i \in DOMAIN Stages : (\A j \in DOMAIN Stages : Stages[j] = s => j < i) /\ Wanted(Stages[i])}
    IN IF later # {} THEN Stages[CHOOSE i \in later : \A j \in later : i <= j]
       ELSE IF bad THEN "incomplete" ELSE "complete"

\* main, up to its first program.
StartPipeline ==
    /\ stage \in {"idle", "complete", "incomplete"} /\ pipelines < MaxPipelines
    /\ pipelines' = pipelines + 1
    /\ step' \in {"all"} \cup ToSet(Stages) /\ skipGenerate' \in BOOLEAN
    /\ failed' = FALSE /\ generated' = FALSE
    /\ stage' = IF step' \in {"all", "generate"} /\ ~skipGenerate' THEN "generate"
                ELSE IF step' = "all" THEN "train"
                ELSE IF step' = "generate" THEN "complete" ELSE step'
    /\ UNCHANGED <<dataset, lineEnd, existing, nextText, wNpy, wBin, exported, cleanStart>>

\* Mutant of ProgramEnds: only a program that was asked for alone counts.
ProgramEndsLeniently(s, ok) ==
    /\ failed' = (failed \/ (~ok /\ step = s))
    /\ stage' = IF ~ok /\ step = s THEN "incomplete" ELSE After(s, failed')

\* run_step: a program that fails ends the pipeline when it was the one asked
\* for; otherwise the next one runs, on what is there.
ProgramEnds(s, ok) ==
    /\ failed' = (failed \/ ~ok)
    /\ stage' = IF ~ok /\ step = s THEN "incomplete" ELSE After(s, failed')

PipelineUnchanged == UNCHANGED <<step, skipGenerate, pipelines>>
MatricesUnchanged == UNCHANGED <<wNpy, wBin, exported>>
ScoringUnchanged == UNCHANGED <<dataset, lineEnd, existing, nextText, cleanStart>>

-----------------------------------------------------------------------------
(* generate_dataset.py *)

Resume ==
    /\ stage = "generate" /\ stage' = "scoring"
    /\ existing' = Existing /\ nextText' = 1 /\ cleanStart' = (lineEnd = "newline")
    /\ UNCHANGED <<dataset, lineEnd, failed, generated>> /\ MatricesUnchanged /\ PipelineUnchanged

\* No seed texts, or no key for the provider.
GenerateRefuses ==
    /\ stage = "generate" /\ ProgramEnds("generate", FALSE)
    /\ UNCHANGED generated /\ ScoringUnchanged /\ MatricesUnchanged /\ PipelineUnchanged

Score ==
    /\ stage = "scoring" /\ nextText \in Texts
    /\ nextText' = nextText + 1
    /\ IF nextText \in existing THEN UNCHANGED <<dataset, lineEnd>>
       ELSE dataset' = Appended(nextText) /\ lineEnd' = "newline"
    /\ UNCHANGED <<existing, stage, failed, cleanStart, generated>>
    /\ MatricesUnchanged /\ PipelineUnchanged

\* llm_score: the third attempt fails, and what was written stays.
ScoringFails ==
    /\ stage = "scoring" /\ nextText \in Texts \ existing
    /\ ProgramEnds("generate", FALSE)
    /\ UNCHANGED generated /\ ScoringUnchanged /\ MatricesUnchanged /\ PipelineUnchanged

GenerateEnds ==
    /\ stage = "scoring" /\ nextText = SeedTexts + 1
    /\ generated' = TRUE /\ ProgramEnds("generate", TRUE)
    /\ ScoringUnchanged /\ MatricesUnchanged /\ PipelineUnchanged

\* The process dies, or the disk is full, with the line half written, or
\* written but for its newline.
KilledScoring ==
    /\ stage = "scoring" /\ nextText \in Texts \ existing
    /\ lineEnd' \in {"none", "half"}
    /\ dataset' = Appended(nextText)
    /\ ProgramEnds("generate", FALSE)
    /\ UNCHANGED <<existing, nextText, cleanStart, generated>> /\ MatricesUnchanged /\ PipelineUnchanged

-----------------------------------------------------------------------------
(* train_w.py, evaluate_w.py, export_w.py *)

TrainRefuses ==
    /\ stage = "train" /\ Cardinality(Records) < MinRecords
    /\ ProgramEnds("train", FALSE)
    /\ UNCHANGED generated /\ ScoringUnchanged /\ MatricesUnchanged /\ PipelineUnchanged

\* W.npy is written, then W.bin; each may be cut off.
SaveNpy ==
    /\ stage = "train" /\ Cardinality(Records) >= MinRecords
    /\ wNpy' = [whole |-> TRUE, from |-> Records] /\ stage' = "binary"
    /\ UNCHANGED <<wBin, exported, failed, generated>> /\ ScoringUnchanged /\ PipelineUnchanged

SaveNpyFails ==
    /\ stage = "train" /\ Cardinality(Records) >= MinRecords
    /\ wNpy' = HalfMatrix /\ ProgramEnds("train", FALSE)
    /\ UNCHANGED <<wBin, exported, generated>> /\ ScoringUnchanged /\ PipelineUnchanged

SaveBin ==
    /\ stage = "binary"
    /\ wBin' = wNpy /\ ProgramEnds("train", TRUE)
    /\ UNCHANGED <<wNpy, exported, generated>> /\ ScoringUnchanged /\ PipelineUnchanged

\* Cut off before or behind the header.
SaveBinFails ==
    /\ stage = "binary"
    /\ wBin' \in {NoMatrix, HalfMatrix} /\ ProgramEnds("train", FALSE)
    /\ UNCHANGED <<wNpy, exported, generated>> /\ ScoringUnchanged /\ PipelineUnchanged

\* A W that fails its tests is reported, and evaluate ends well.
Evaluate ==
    /\ stage = "evaluate"
    /\ ProgramEnds("evaluate", wNpy.whole)
    /\ UNCHANGED generated /\ ScoringUnchanged /\ MatricesUnchanged /\ PipelineUnchanged

\* Size and magic are looked at, which a file that is cut off behind its header
\* passes.
Exportable == wBin.from # {}

Export ==
    /\ stage = "export" /\ Exportable
    /\ exported' = wBin /\ ProgramEnds("export", TRUE)
    /\ UNCHANGED <<wNpy, wBin, generated>> /\ ScoringUnchanged /\ PipelineUnchanged

ExportFails ==
    /\ stage = "export"
    /\ exported' = IF Exportable THEN HalfMatrix ELSE exported
    /\ ProgramEnds("export", FALSE)
    /\ UNCHANGED <<wNpy, wBin, generated>> /\ ScoringUnchanged /\ PipelineUnchanged

\* The pipeline itself is interrupted between two programs.
Interrupted ==
    /\ stage \in ToSet(Stages) \cup {"scoring", "binary"}
    /\ stage' = "idle"
    /\ UNCHANGED <<failed, generated>> /\ ScoringUnchanged /\ MatricesUnchanged /\ PipelineUnchanged

CalNext ==
    \/ StartPipeline \/ Interrupted
    \/ Resume \/ GenerateRefuses \/ Score \/ ScoringFails \/ KilledScoring \/ GenerateEnds
    \/ TrainRefuses \/ SaveNpy \/ SaveNpyFails \/ SaveBin \/ SaveBinFails
    \/ Evaluate \/ Export \/ ExportFails

CalSpec == CalInit /\ [][CalNext]_calVars

-----------------------------------------------------------------------------
(* Properties *)

\* However often it was stopped, a generation that ends well has a record of
\* every text, unless it began behind a line without its newline
\* (generate_dataset.py:217); and no text is scored twice.
DatasetSound ==
    /\ (generated /\ cleanStart) => Records = Texts
    /\ \A i, j \in DOMAIN dataset : dataset[i] = dataset[j] /\ dataset[i] # Malformed => i = j

\* "PIPELINE COMPLETE" of a whole run: what the service has is what was
\* trained, and tested, on the records there are (run_pipeline.py:143).
CompleteMeansFresh ==
    (stage = "complete" /\ step = "all") =>
        /\ exported = wBin /\ wBin = wNpy
        /\ exported = [whole |-> TRUE, from |-> Records]

CalibrationSound == DatasetSound /\ CompleteMeansFresh

\* "Load already-processed texts for resume support": a generation that ends
\* well leaves every text in the file.
ResumeCompletes == generated => Records = Texts
=============================================================================
