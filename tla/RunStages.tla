----------------------------- MODULE RunStages ------------------------------
(***************************************************************************)
(* The stages of a run directory (ocr_bench/cli.py): prepare, infer,       *)
(* review, score and calibrate, each a command of its own that meets the   *)
(* others in the files they leave behind.  prepare writes an image and the *)
(* ground truth of each page and then the manifest; infer appends          *)
(* predictions; review load stores manual labels; score reads all of that  *)
(* once and writes four files; calibrate joins two of them with the        *)
(* predictions once more.                                                  *)
(*                                                                         *)
(* One of prepare, score and calibrate runs at a time, and may be killed   *)
(* between any two files; infer and review may run beside it.  Contents    *)
(* are reduced to where they come from: an image to the prepare that wrote *)
(* it, a prediction to its image and to whether it is an error, a score to *)
(* the predictions and labels it was made from.                            *)
(***************************************************************************)
EXTENDS Naturals, Sequences

CONSTANTS
  Page,        \* the pages of the datasets, under every condition
  Labelled,    \* bound: the pages a reviewer labels
  MaxPrepares, \* bound: prepares begun
  Null         \* "absent"

ASSUME ConstantsAssumption == Labelled \subseteq Page /\ MaxPrepares \in Nat

VARIABLES
  gen,        \* prepares begun so far
  img,        \* which prepare wrote the image of a page (0: none)
  gt,         \* ... and its ground truth
  manifest,   \* the pages it lists, or Null
  manual,     \* pages with a manual label
  preds,      \* the latest prediction of a page, or Null
  cmd,        \* the command under way: "none", "prepare", "score" or "calibrate"
  todo,       \* what it has yet to write: pages, or files in their order
  read,       \* what score or calibrate has read
  file,       \* the files of score and calibrate
  forced,     \* prepare --force has been used
  cut         \* a score was killed between its first file and its last

made == <<gen, img, gt, manifest, forced>>
vars == <<made, manual, preds, cmd, todo, read, file, cut>>

(* The files of score, less tob_parity.json, which is made of nothing but  *)
(* the code; the four of calibrate count as one.                           *)
ScoreFiles == <<"scores", "fields", "statements", "aggregates">>
CalibrateFiles == <<"calibration">>
File == {ScoreFiles[n] : n \in 1..4} \cup {"calibration"}

Init ==
  /\ gen = 0 /\ forced = FALSE
  /\ img = [p \in Page |-> 0] /\ gt = [p \in Page |-> 0]
  /\ manifest = Null
  /\ manual = {} /\ preds = [p \in Page |-> Null]
  /\ cmd = "none" /\ todo = {} /\ read = Null
  /\ file = [f \in File |-> Null]
  /\ cut = FALSE

-----------------------------------------------------------------------------
(* prepare.                                                                *)
PrepareBegin ==
  /\ cmd = "none" /\ gen < MaxPrepares
  /\ \/ manifest = Null /\ UNCHANGED forced
     \/ manifest # Null /\ forced' = TRUE          \* refused without --force
  /\ gen' = gen + 1
  /\ cmd' = "prepare"
  /\ todo' \in SUBSET Page \ {{}}                  \* --datasets
  /\ read' = todo'
  /\ UNCHANGED <<img, gt, manifest, manual, preds, file, cut>>

(* materialize: the ground truth of a page, and then its image; a photo's  *)
(* own sidecar follows its image and is not told from the ground truth.    *)
PrepareTruth(p) ==
  /\ cmd = "prepare" /\ p \in todo /\ gt[p] # gen
  /\ gt' = [gt EXCEPT ![p] = gen]
  /\ UNCHANGED <<gen, img, manifest, forced, manual, preds, cmd, todo, read, file, cut>>

PrepareImage(p) ==
  /\ cmd = "prepare" /\ p \in todo /\ gt[p] = gen
  /\ img' = [img EXCEPT ![p] = gen]
  /\ todo' = todo \ {p}
  /\ UNCHANGED <<gen, gt, manifest, forced, manual, preds, cmd, read, file, cut>>

(* Mutant of ManifestIsNext: the manifest is written first. *)
ManifestAnyTime == TRUE

ManifestIsNext == todo = {}

PrepareEnd ==
  /\ cmd = "prepare" /\ ManifestIsNext
  /\ manifest' = read
  /\ cmd' = "none" /\ todo' = {} /\ read' = Null
  /\ UNCHANGED <<gen, img, gt, forced, manual, preds, file, cut>>

-----------------------------------------------------------------------------
(* infer and review.                                                       *)

(* Mutant of Pending: every page is asked for again. *)
PendingAll(p) == TRUE

(* No prediction, or an error. *)
Pending(p) == preds[p] \in {Null} \cup [img : 0..gen, ok : {FALSE}]

InferPage(p) ==
  /\ manifest # Null /\ p \in manifest
  /\ Pending(p)
  /\ \E ok \in BOOLEAN : preds' = [preds EXCEPT ![p] = [img |-> img[p], ok |-> ok]]
  /\ UNCHANGED <<made, manual, cmd, todo, read, file, cut>>

(* review load writes the label of a page that review export has queued. *)
ReviewLoad(p) ==
  /\ manifest # Null /\ p \in manifest \cap Labelled
  /\ preds[p] # Null
  /\ manual' = manual \cup {p}
  /\ UNCHANGED <<made, preds, cmd, todo, read, file, cut>>

-----------------------------------------------------------------------------
(* score and calibrate.                                                    *)
Predictions == \E p \in Page : preds[p] # Null     \* predictions.jsonl exists

(* What score makes its rows of: every page of the manifest, its latest    *)
(* prediction (a missing one is a full miss) and its truth.                *)
Inputs == [p \in manifest |-> [pred |-> preds[p], manual |-> p \in manual]]

ScoreBegin ==
  /\ cmd = "none" /\ manifest # Null /\ Predictions
  /\ cmd' = "score" /\ todo' = ScoreFiles /\ read' = Inputs
  /\ UNCHANGED <<made, manual, preds, file, cut>>

(* collect_field_records: the labels of fields.jsonl, the features of the  *)
(* predictions as they are now.                                            *)
CalibrateBegin ==
  /\ cmd = "none" /\ file["fields"] # Null /\ Predictions
  /\ cmd' = "calibrate" /\ todo' = CalibrateFiles
  /\ read' = [p \in DOMAIN file["fields"] |->
                 [label |-> file["fields"][p].pred, features |-> preds[p]]]
  /\ UNCHANGED <<made, manual, preds, file, cut>>

(* Mutant of Contents: the aggregates are made from what is on disk by then. *)
ContentsReread(f) == IF f = "aggregates" THEN Inputs ELSE read

(* Every file is made from what was read at the start. *)
Contents(f) == read

(* write_rows_atomic, or write_text: one file after the other. *)
WriteFile ==
  /\ cmd \in {"score", "calibrate"}
  /\ file' = [file EXCEPT ![Head(todo)] = Contents(Head(todo))]
  /\ IF Len(todo) = 1
       THEN /\ cmd' = "none" /\ todo' = {} /\ read' = Null
       ELSE todo' = Tail(todo) /\ UNCHANGED <<cmd, read>>
  /\ cut' = (cut /\ Head(todo) # "aggregates")
  /\ UNCHANGED <<made, manual, preds>>

(* A command is killed. *)
Kill ==
  /\ cmd # "none"
  /\ cut' = (cut \/ (cmd = "score" /\ Len(todo) \in 1..3))
  /\ cmd' = "none" /\ todo' = {} /\ read' = Null
  /\ UNCHANGED <<made, manual, preds, file>>

Next ==
  \/ PrepareBegin \/ PrepareEnd \/ ScoreBegin \/ CalibrateBegin \/ WriteFile \/ Kill
  \/ \E p \in Page : PrepareTruth(p) \/ PrepareImage(p) \/ InferPage(p) \/ ReviewLoad(p)

Spec == Init /\ [][Next]_vars

-----------------------------------------------------------------------------
(* Unless prepare --force was used, a manifest lists only pages whose      *)
(* image and ground truth are of one prepare, and a prediction is of the   *)
(* image that lies beside it: a prepare that is killed leaves no manifest. *)
PreparedIsWhole ==
  ~forced /\ manifest # Null =>
    \A p \in manifest :
      /\ img[p] # 0 /\ gt[p] = img[p]
      /\ preds[p] # Null => preds[p].img = img[p]

(* The files of score come from one reading of the run, whatever infer and *)
(* review do meanwhile, unless a score was killed half way; the next score *)
(* makes up for that.                                                      *)
ScoreFilesAgree ==
  ~cut /\ cmd # "score" =>
    \A f \in {"fields", "statements", "aggregates"} : file[f] = file["scores"]

(* calibrate pairs the label of an answer with the features of that same   *)
(* answer, however long ago it was scored and whatever prepare --force did *)
(* since: only a page that was missing or failed then may have other       *)
(* features now.                                                           *)
LabelsKeepTheirAnswer ==
  LET joined == file["calibration"] IN
  joined # Null =>
    \A p \in DOMAIN joined :
      joined[p].label # Null /\ joined[p].label.ok => joined[p].features = joined[p].label

=============================================================================
