------------------------------ MODULE InferRun ------------------------------
(***************************************************************************)
(* `ocrbench infer` over one run directory: the models take turns, the     *)
(* pages of a model run concurrently under a semaphore, every page appends *)
(* its row to predictions.jsonl as it completes, and a run that was        *)
(* interrupted is started again over what is on file                       *)
(* (ocr_bench/models/runner.py, ocr_bench/jsonl.py, infer in               *)
(* ocr_bench/cli.py).                                                      *)
(*                                                                         *)
(* An append writes the row, then its newline, with one or more system     *)
(* calls; a process that is killed, or runs out of disk, may stop between  *)
(* any two of them.  Ctrl-C cancels the tasks at an await and tears        *)
(* nothing.                                                                *)
(*                                                                         *)
(* Abstractions.  A row keeps its page, its model, whether it is free of   *)
(* an error, and the settings it was made with.  A start that fails before *)
(* it writes (missing manifest, bad config, client data, an endpoint that  *)
(* is not healthy) changes nothing and is left out.  One `infer` at a time *)
(* works on a run directory.                                               *)
(***************************************************************************)
EXTENDS Naturals, Sequences, FiniteSets, SequencesExt

CONSTANTS
  Manifest,      \* the pages of the manifest, in order
  Models,        \* model names
  Selections,    \* what --models may name: sequences of distinct models
  Settings,      \* settings a model config may have
  Concurrency,   \* pages in flight per model
  None,          \* "absent"
  Broken,        \* a line of predictions.jsonl that is not a row
  MaxErrors,     \* bound: answers that are errors
  MaxStops,      \* bound: runs that are interrupted
  MaxTears       \* bound: those that tear a file as they stop

Pages  == ToSet(Manifest)
Keys   == Pages \X Models
Row    == [page : Pages, model : Models, ok : BOOLEAN, settings : Settings]

ASSUME ConstantsAssumption ==
  /\ Manifest \in Seq(Pages)
  /\ \A i, j \in DOMAIN Manifest : Manifest[i] = Manifest[j] => i = j
  /\ Selections \subseteq Seq(Models)
  /\ Concurrency \in Nat \ {0}
  /\ MaxErrors \in Nat /\ MaxStops \in Nat /\ MaxTears \in Nat
  /\ None \notin Settings
  /\ Broken \notin Row

VARIABLES
  lines,      \* predictions.jsonl
  midline,    \* its last line lacks the newline
  config,     \* the settings per model in config.infer.yaml
  pc,         \* "down", "models" between two models, "pages" within one
  names,      \* the models of this run
  turn,       \* position of the model whose turn it is
  using,      \* the settings this run read
  todo,       \* positions in Manifest of the pages that wait for the semaphore
  flying,     \* pages past the semaphore and not yet appended
  errors, stops, tears    \* counters for the bounds

file   == <<lines, midline>>
run    == <<names, turn, using>>
bounds == <<errors, stops, tears>>
vars   == <<lines, midline, config, pc, names, turn, using, todo, flying, errors, stops, tears>>

Init ==
  /\ lines = <<>> /\ midline = FALSE
  /\ config = [m \in Models |-> None]
  /\ pc = "down"
  /\ names = <<>> /\ turn = 1 /\ using = None
  /\ todo = {} /\ flying = {}
  /\ errors = 0 /\ stops = 0 /\ tears = 0

-----------------------------------------------------------------------------
(* read_rows raises on a line that is not a row. *)
Readable == Broken \notin ToSet(lines)

Rows(k) == {i \in DOMAIN lines : /\ lines[i] # Broken
                                 /\ <<lines[i].page, lines[i].model>> = k}

(* latest_predictions: the last row of a key is the one that counts. *)
Latest(k) == lines[CHOOSE i \in Rows(k) : \A j \in Rows(k) : j <= i]

(* Mutant of Pending: a row with an error counts as an answer. *)
PendingWithoutRow(k) == Rows(k) = {}

(* Mutant of Pending: any error among a key's rows asks for it again. *)
PendingWithAnyError(k) == Rows(k) = {} \/ \E i \in Rows(k) : ~lines[i].ok

(* pending_rows: no prediction yet, or the latest one has an error. *)
Pending(k) == Rows(k) = {} \/ ~Latest(k).ok

Model == names[turn]

(* append_rows: a row goes on a line of its own, unless the line before it *)
(* was left open.                                                          *)
AppendRow(row) ==
  /\ lines' = IF midline THEN Append(Front(lines), Broken) ELSE Append(lines, row)
  /\ midline' = FALSE

(* The process is gone, and its tasks with it. *)
Exit ==
  /\ pc' = "down"
  /\ names' = <<>> /\ turn' = 1 /\ using' = None
  /\ todo' = {} /\ flying' = {}

-----------------------------------------------------------------------------
(* _write_infer_config: the selected models' settings replace what the     *)
(* file says of them, those of other models stay.                          *)
Snapshot(selected, s) ==
  [m \in Models |-> IF m \in ToSet(selected) THEN s ELSE config[m]]

(* The endpoints are healthy: record the settings and begin. *)
Start ==
  /\ pc = "down"
  /\ \E selected \in Selections, s \in Settings :
       /\ config' = Snapshot(selected, s)
       /\ names' = selected
       /\ using' = s
  /\ pc' = "models"
  /\ turn' = 1
  /\ UNCHANGED <<file, todo, flying, bounds>>

(* Read the predictions at the model's turn and queue what is pending, in  *)
(* the order of the manifest.                                              *)
BeginModel ==
  /\ pc = "models"
  /\ turn <= Len(names)
  /\ Readable
  /\ todo' = {n \in DOMAIN Manifest : Pending(<<Manifest[n], Model>>)}
  /\ pc' = "pages"
  /\ UNCHANGED <<file, config, run, flying, bounds>>

(* The predictions cannot be read: the run ends with a traceback. *)
Unreadable ==
  /\ pc = "models"
  /\ ~Readable
  /\ Exit
  /\ UNCHANGED <<file, config, bounds>>

(* asyncio.Semaphore wakes the tasks in the order in which they came. *)
Acquire ==
  /\ pc = "pages"
  /\ Cardinality(flying) < Concurrency
  /\ \E first \in todo :
       /\ \A n \in todo : first <= n
       /\ flying' = flying \cup {Manifest[first]}
       /\ todo' = todo \ {first}
  /\ UNCHANGED <<file, config, pc, run, bounds>>

(* predict_row returned, with whatever went wrong as an error row. *)
Finish(pg, ok) ==
  /\ pg \in flying
  /\ ~ok => errors < MaxErrors
  /\ errors' = IF ok THEN errors ELSE errors + 1
  /\ AppendRow([page |-> pg, model |-> Model, ok |-> ok, settings |-> using])
  /\ flying' = flying \ {pg}
  /\ UNCHANGED <<config, pc, run, todo, stops, tears>>

(* Mutant of AllDone: the tasks in flight are not awaited. *)
AllStarted == todo = {}

AllDone == todo = {} /\ flying = {}

(* The task group is done with this model. *)
EndModel ==
  /\ pc = "pages"
  /\ AllDone
  /\ pc' = "models"
  /\ turn' = turn + 1
  /\ todo' = {} /\ flying' = {}
  /\ UNCHANGED <<file, config, names, using, bounds>>

(* Summaries of all models, then exit code 0, or 1 if a page has no row. *)
Summarize ==
  /\ pc = "models"
  /\ turn = Len(names) + 1
  /\ Readable
  /\ Exit
  /\ UNCHANGED <<file, config, bounds>>

(* The run is interrupted and no append is under way. *)
Stop ==
  /\ pc # "down"
  /\ stops < MaxStops
  /\ stops' = stops + 1
  /\ Exit
  /\ UNCHANGED <<file, config, errors, tears>>

(* The run is killed while a page appends its row: part of the row is on   *)
(* file, or all of it but the newline.                                     *)
StopInAppend(pg) ==
  /\ pg \in flying
  /\ stops < MaxStops
  /\ tears < MaxTears
  /\ stops' = stops + 1
  /\ tears' = tears + 1
  /\ \E line \in {Broken} \cup [page : {pg}, model : {Model}, ok : BOOLEAN, settings : {using}] :
       lines' = IF midline THEN Append(Front(lines), Broken) ELSE Append(lines, line)
  /\ midline' = TRUE
  /\ Exit
  /\ UNCHANGED <<config, errors>>

(* The run is killed as it writes config.infer.yaml, which it has just     *)
(* truncated.                                                              *)
StopInSnapshot ==
  /\ pc = "down"
  /\ stops < MaxStops
  /\ tears < MaxTears
  /\ stops' = stops + 1
  /\ tears' = tears + 1
  /\ config' = [m \in Models |-> None]
  /\ UNCHANGED <<file, pc, run, todo, flying, errors>>

Next ==
  \/ Start \/ BeginModel \/ Unreadable \/ Acquire
  \/ \E pg \in flying, ok \in BOOLEAN : Finish(pg, ok)
  \/ EndModel \/ Summarize
  \/ Stop \/ StopInSnapshot
  \/ \E pg \in flying : StopInAppend(pg)

(* The operator starts a run that stopped again, over and over, and names  *)
(* every model at some time; the event loop runs every task that can run;  *)
(* every request ends, if only by its timeout.                             *)
StartAll == Start /\ ToSet(names') = Models

Fairness ==
  /\ WF_vars(Start)
  /\ SF_vars(StartAll)
  /\ WF_vars(BeginModel) /\ WF_vars(Unreadable) /\ WF_vars(Acquire)
  /\ \A pg \in Pages : WF_vars(\E ok \in BOOLEAN : Finish(pg, ok))
  /\ WF_vars(EndModel) /\ WF_vars(Summarize)

Spec == Init /\ [][Next]_vars /\ Fairness

-----------------------------------------------------------------------------
(* Properties                                                              *)

(* Every variable has its type. *)
TypeOK ==
  /\ lines \in Seq(Row \cup {Broken})
  /\ midline \in BOOLEAN
  /\ config \in [Models -> Settings \cup {None}]
  /\ pc \in {"down", "models", "pages"}
  /\ names \in Selections \cup {<<>>}
  /\ turn \in 1..(Len(names) + 1)
  /\ using \in Settings \cup {None}
  /\ todo \subseteq DOMAIN Manifest
  /\ flying \in SUBSET Pages
  /\ errors \in Nat /\ stops \in Nat /\ tears \in Nat

(* A key is done when a reader of the file takes it as answered. *)
Done(k) == Readable /\ Rows(k) # {} /\ Latest(k).ok

(* No silent drops: when a model's turn is over, every page of the         *)
(* manifest has a row of it, so the row counts of a run that gets to its   *)
(* summary always match.                                                   *)
NoPageDropped ==
  Readable => \A i \in 1..(turn - 1), pg \in Pages : Rows(<<pg, names[i]>>) # {}

(* A row on file is of a model whose settings are on file: the snapshot is *)
(* written first, and a later run for other models adds to it.             *)
RowsAreOfRecordedModels ==
  tears = 0 => \A i \in DOMAIN lines : lines[i] # Broken => config[lines[i].model] # None

(* What a run leaves on file after any interruption is all on record: no   *)
(* page is missing of a model whose turn is over, and no row is of a model *)
(* whose settings are not in config.infer.yaml.                            *)
RunIsOnRecord == NoPageDropped /\ RowsAreOfRecordedModels

(* Inference implements PagePromise: pages that are done stay done and are *)
(* not asked again, as long as no kill tears a file.                       *)
Promise == INSTANCE PagePromise WITH
  answered <- {k \in Keys : Done(k)},
  out <- {<<pg, Model>> : pg \in flying},
  torn <- tears > 0

KeepsPromise == Promise!Spec

(* Runs that are interrupted and started again finish the work: all pages  *)
(* of all models are answered in the end, and stay so, if no kill tears a  *)
(* file.                                                                   *)
AllPagesAnswered == <>(tears > 0) \/ <>[](\A k \in Keys : Done(k))

-----------------------------------------------------------------------------
(* What the documents say and the code does not keep                       *)

(* "an interrupted run loses at most the pages in flight"                  *)
(* (ocr_bench/models/runner.py): a page once done stays done.              *)
LosesOnlyPagesInFlight ==
  [][\A k \in Keys : Done(k) => Done(k)']_vars

(* "The settings used SHALL appear in `config.infer.yaml`"                 *)
(* (specs/model-inference/spec.md): those of every page that is done.      *)
SettingsUsedAreRecorded ==
  \A k \in Keys : Done(k) => Latest(k).settings = config[k[2]]
=============================================================================
