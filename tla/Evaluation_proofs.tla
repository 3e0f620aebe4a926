-------------------------- MODULE Evaluation_proofs --------------------------
(***************************************************************************)
(* Proofs about the evaluation of a run: its stages (RunStages), for any   *)
(* pages, labels and number of prepares, and the functions they compute    *)
(* with, for records, statement files, pages, blocks and class files of    *)
(* any size.                                                               *)
(*                                                                         *)
(* A fold over a set is a function on its subsets that takes one element   *)
(* after the other; what it has is proved of all subsets at once: a        *)
(* smallest number of elements that fails would have a smaller one         *)
(* (FiniteInduct, from the least natural number of a set).                 *)
(***************************************************************************)
EXTENDS RunStages, CalibrationCases, PrintedLedgers, DispatchCases, ImageCases, RegistryCases,
        FiniteSetTheorems, SequenceTheorems, WellFoundedInduction, TLAPS

Prediction == [img : Nat, ok : BOOLEAN]

(* What the proofs need of the types; file and read hold what is made of   *)
(* the predictions, and only where they are functions of pages matters.    *)
Types ==
  /\ gen \in Nat
  /\ img \in [Page -> Nat] /\ gt \in [Page -> Nat]
  /\ manifest = Null \/ manifest \in SUBSET Page
  /\ preds \in [Page -> Prediction \cup {Null}]
  /\ DOMAIN file = File
  /\ forced \in BOOLEAN /\ cut \in BOOLEAN

-----------------------------------------------------------------------------
(* Preparing: while no --force is used there is one manifest, which comes  *)
(* last; until then nothing is asked, and what is done of the prepare      *)
(* under way is of that prepare.                                           *)
Underway ==
  cmd = "prepare" =>
    /\ gen # 0
    /\ read \in SUBSET Page /\ todo \in SUBSET read
    /\ \A p \in read \ todo : gt[p] = gen /\ img[p] = gen
    /\ ~forced => manifest = Null

NotAsked == ~forced /\ manifest = Null => \A p \in Page : preds[p] = Null

PrepareInv == Types /\ Underway /\ NotAsked /\ PreparedIsWhole

LEMMA PrepareInit == Init => PrepareInv
<1>1. SUFFICES ASSUME Init PROVE PrepareInv
  OBVIOUS
<1>2. Types
  BY <1>1 DEF Init, Types
<1>3. Underway /\ NotAsked /\ PreparedIsWhole
  BY <1>1 DEF Init, Underway, NotAsked, PreparedIsWhole
<1>4. QED  BY <1>2, <1>3 DEF PrepareInv

(* Every step keeps the types. *)
LEMMA TypesStep == Types /\ Underway /\ [Next]_vars => Types'
<1>1. SUFFICES ASSUME Types, Underway, [Next]_vars PROVE Types'
  OBVIOUS
<1>2. CASE PrepareBegin
  <2>1. forced' \in BOOLEAN
    BY <1>1, <1>2 DEF Types, PrepareBegin
  <2>2. gen' \in Nat
    BY <1>1, <1>2 DEF Types, PrepareBegin
  <2>3. UNCHANGED <<img, gt, manifest, preds, file, cut>>
    BY <1>2 DEF PrepareBegin
  <2>4. QED  BY <1>1, <2>1, <2>2, <2>3 DEF Types
<1>3. CASE PrepareEnd
  <2>1. manifest' \in SUBSET Page
    BY <1>1, <1>3 DEF PrepareEnd, Underway
  <2>2. QED  BY <1>1, <1>3, <2>1 DEF Types, PrepareEnd
<1>4. CASE ScoreBegin
  BY <1>1, <1>4 DEF Types, ScoreBegin, made
<1>5. CASE CalibrateBegin
  BY <1>1, <1>5 DEF Types, CalibrateBegin, made
<1>6. CASE WriteFile
  <2>1. DOMAIN file' = File
    BY <1>1, <1>6 DEF Types, WriteFile
  <2>2. cut' \in BOOLEAN
    BY <1>6 DEF WriteFile
  <2>3. QED  BY <1>1, <1>6, <2>1, <2>2 DEF Types, WriteFile, made
<1>7. CASE Kill
  <2>1. cut' \in BOOLEAN
    BY <1>7 DEF Kill
  <2>2. QED  BY <1>1, <1>7, <2>1 DEF Types, Kill, made
<1>8. ASSUME NEW p \in Page, PrepareTruth(p) PROVE Types'
  BY <1>1, <1>8 DEF Types, PrepareTruth
<1>9. ASSUME NEW p \in Page, PrepareImage(p) PROVE Types'
  BY <1>1, <1>9 DEF Types, PrepareImage
<1>10. ASSUME NEW p \in Page, InferPage(p) PROVE Types'
  <2>1. PICK ok \in BOOLEAN : preds' = [preds EXCEPT ![p] = [img |-> img[p], ok |-> ok]]
    BY <1>10 DEF InferPage
  <2>2. [img |-> img[p], ok |-> ok] \in Prediction
    BY <1>1 DEF Types, Prediction
  <2>3. preds' \in [Page -> Prediction \cup {Null}]
    BY <1>1, <2>1, <2>2 DEF Types
  <2>4. QED  BY <1>1, <1>10, <2>3 DEF Types, InferPage, made
<1>11. ASSUME NEW p \in Page, ReviewLoad(p) PROVE Types'
  BY <1>1, <1>11 DEF Types, ReviewLoad, made
<1>12. CASE UNCHANGED vars
  BY <1>1, <1>12 DEF Types, vars, made
<1>13. QED
  BY <1>1, <1>2, <1>3, <1>4, <1>5, <1>6, <1>7, <1>8, <1>9, <1>10, <1>11, <1>12 DEF Next

(* The steps that neither prepare nor ask leave it all as it was, but that *)
(* a command may end or begin.                                             *)
LEMMA PrepareFrame ==
  ASSUME Underway, NotAsked, PreparedIsWhole, UNCHANGED <<made, preds>>,
         cmd' # "prepare" \/ UNCHANGED <<cmd, todo, read>>
  PROVE  Underway' /\ NotAsked' /\ PreparedIsWhole'
<1>1. Underway'
  BY DEF Underway, made
<1>2. NotAsked' /\ PreparedIsWhole'
  BY DEF NotAsked, PreparedIsWhole, made
<1>3. QED  BY <1>1, <1>2

LEMMA PrepareStep == PrepareInv /\ [Next]_vars => PrepareInv'
<1>1. SUFFICES ASSUME PrepareInv, [Next]_vars PROVE PrepareInv'
  OBVIOUS
<1>2. Types /\ Underway /\ NotAsked /\ PreparedIsWhole /\ Types'
  BY <1>1, TypesStep DEF PrepareInv
<1>3. CASE PrepareBegin
  <2>1. Underway'
    <3>1. gen' # 0 /\ todo' = read' /\ read' \in SUBSET Page
      BY <1>2, <1>3 DEF PrepareBegin, Types
    <3>2. ~forced' => manifest' = Null
      BY <1>3 DEF PrepareBegin
    <3>3. QED  BY <3>1, <3>2 DEF Underway
  <2>2. NotAsked' /\ PreparedIsWhole'
    BY <1>2, <1>3 DEF PrepareBegin, NotAsked, PreparedIsWhole
  <2>3. QED  BY <1>2, <2>1, <2>2 DEF PrepareInv
<1>4. CASE PrepareEnd
  <2>1. Underway'
    BY <1>4 DEF PrepareEnd, Underway
  <2>2. SUFFICES ASSUME ~forced PROVE NotAsked' /\ PreparedIsWhole'
    BY <1>2, <1>4, <2>1 DEF PrepareEnd, NotAsked, PreparedIsWhole, PrepareInv
  <2>3. \A p \in Page : preds[p] = Null
    BY <1>2, <1>4, <2>2 DEF PrepareEnd, Underway, NotAsked
  <2>4. \A p \in read : p \in Page /\ gt[p] = gen /\ img[p] = gen /\ gen # 0
    BY <1>2, <1>4 DEF PrepareEnd, ManifestIsNext, Underway
  <2>5. QED  BY <1>4, <2>3, <2>4 DEF PrepareEnd, NotAsked, PreparedIsWhole
<1>5. CASE ScoreBegin
  BY <1>2, <1>5, PrepareFrame DEF ScoreBegin, PrepareInv
<1>6. CASE CalibrateBegin
  BY <1>2, <1>6, PrepareFrame DEF CalibrateBegin, PrepareInv
<1>7. CASE WriteFile
  <2>1. cmd' # "prepare" /\ UNCHANGED <<made, preds>>
    BY <1>7 DEF WriteFile
  <2>2. QED  BY <1>2, <2>1, PrepareFrame DEF PrepareInv
<1>8. CASE Kill
  BY <1>2, <1>8, PrepareFrame DEF Kill, PrepareInv
<1>9. ASSUME NEW p \in Page, PrepareTruth(p) PROVE PrepareInv'
  <2>1. Underway'
    BY <1>2, <1>9 DEF PrepareTruth, Underway, Types
  <2>2. ~forced => manifest = Null
    BY <1>2, <1>9 DEF PrepareTruth, Underway
  <2>3. NotAsked' /\ PreparedIsWhole'
    BY <1>2, <1>9, <2>2 DEF PrepareTruth, NotAsked, PreparedIsWhole
  <2>4. QED  BY <1>2, <2>1, <2>3 DEF PrepareInv
<1>10. ASSUME NEW p \in Page, PrepareImage(p) PROVE PrepareInv'
  <2>1. Underway'
    BY <1>2, <1>10 DEF PrepareImage, Underway, Types
  <2>2. ~forced => manifest = Null
    BY <1>2, <1>10 DEF PrepareImage, Underway
  <2>3. NotAsked' /\ PreparedIsWhole'
    BY <1>2, <1>10, <2>2 DEF PrepareImage, NotAsked, PreparedIsWhole
  <2>4. QED  BY <1>2, <2>1, <2>3 DEF PrepareInv
<1>11. ASSUME NEW p \in Page, InferPage(p) PROVE PrepareInv'
  <2>1. PICK ok \in BOOLEAN : preds' = [preds EXCEPT ![p] = [img |-> img[p], ok |-> ok]]
    BY <1>11 DEF InferPage
  <2>2. UNCHANGED <<gen, img, gt, manifest, forced, cmd, todo, read>> /\ manifest # Null
    BY <1>11 DEF InferPage, made
  <2>3. \A q \in Page : preds'[q] = IF q = p THEN [img |-> img[p], ok |-> ok] ELSE preds[q]
    BY <1>2, <2>1 DEF Types
  <2>4. Underway' /\ NotAsked'
    BY <1>2, <2>2 DEF Underway, NotAsked
  <2>5. manifest \in SUBSET Page
    BY <1>2, <2>2 DEF Types
  <2>6. PreparedIsWhole'
    BY <1>2, <2>2, <2>3, <2>5 DEF PreparedIsWhole
  <2>7. QED  BY <1>2, <2>4, <2>6 DEF PrepareInv
<1>12. ASSUME NEW p \in Page, ReviewLoad(p) PROVE PrepareInv'
  BY <1>2, <1>12, PrepareFrame DEF ReviewLoad, PrepareInv
<1>13. CASE UNCHANGED vars
  BY <1>2, <1>13, PrepareFrame DEF vars, PrepareInv
<1>14. QED
  BY <1>1, <1>3, <1>4, <1>5, <1>6, <1>7, <1>8, <1>9, <1>10, <1>11, <1>12, <1>13 DEF Next

(* A manifest of which no prepare --force was made lists only pages whose  *)
(* image and ground truth are of one prepare, and every prediction is of   *)
(* the image beside it, wherever prepare was killed.                       *)
THEOREM PreparedIsWholeHolds == Spec => []PreparedIsWhole
<1>1. PrepareInv => PreparedIsWhole
  BY DEF PrepareInv
<1>2. QED  BY <1>1, PrepareInit, PrepareStep, PTL DEF Spec

-----------------------------------------------------------------------------
(* Scoring: the files that are written by now hold what was read, those of *)
(* a score that was not killed half way agree.                             *)
FilesAgree == \A f \in {"fields", "statements", "aggregates"} : file[f] = file["scores"]

Scoring ==
  cmd = "score" =>
    \/ todo = ScoreFiles /\ (~cut => FilesAgree)
    \/ todo = <<"fields", "statements", "aggregates">> /\ file["scores"] = read
    \/ todo = <<"statements", "aggregates">> /\ file["scores"] = read /\ file["fields"] = read
    \/ /\ todo = <<"aggregates">>
       /\ \A f \in {"scores", "fields", "statements"} : file[f] = read

Calibrating == cmd = "calibrate" => todo = CalibrateFiles

FilesInv ==
  /\ DOMAIN file = File /\ cut \in BOOLEAN
  /\ Scoring /\ Calibrating
  /\ cmd # "score" /\ ~cut => FilesAgree

LEMMA FilesInit == Init => FilesInv
<1>1. SUFFICES ASSUME Init PROVE FilesInv
  OBVIOUS
<1>2. {"scores", "fields", "statements", "aggregates"} \subseteq File
  BY DEF File, ScoreFiles
<1>3. QED  BY <1>1, <1>2 DEF Init, FilesInv, Scoring, Calibrating, FilesAgree

(* The first of what is left is written, and the rest is left. *)
LEMMA FilesInOrder ==
  /\ Len(ScoreFiles) = 4 /\ Head(ScoreFiles) = "scores"
  /\ Tail(ScoreFiles) = <<"fields", "statements", "aggregates">>
  /\ Len(<<"fields", "statements", "aggregates">>) = 3
  /\ Head(<<"fields", "statements", "aggregates">>) = "fields"
  /\ Tail(<<"fields", "statements", "aggregates">>) = <<"statements", "aggregates">>
  /\ Len(<<"statements", "aggregates">>) = 2
  /\ Head(<<"statements", "aggregates">>) = "statements"
  /\ Tail(<<"statements", "aggregates">>) = <<"aggregates">>
  /\ Len(<<"aggregates">>) = 1 /\ Head(<<"aggregates">>) = "aggregates"
  /\ Len(CalibrateFiles) = 1 /\ Head(CalibrateFiles) = "calibration"
BY DEF ScoreFiles, CalibrateFiles

LEMMA FilesFrame ==
  ASSUME FilesInv, UNCHANGED <<file, cut>>, UNCHANGED <<cmd, todo, read>>
  PROVE  FilesInv'
BY DEF FilesInv, Scoring, Calibrating, FilesAgree

LEMMA FilesStep == FilesInv /\ [Next]_vars => FilesInv'
<1>1. SUFFICES ASSUME FilesInv, [Next]_vars PROVE FilesInv'
  OBVIOUS
<1>2. CASE PrepareBegin
  BY <1>1, <1>2 DEF PrepareBegin, FilesInv, Scoring, Calibrating, FilesAgree
<1>3. CASE PrepareEnd
  BY <1>1, <1>3 DEF PrepareEnd, FilesInv, Scoring, Calibrating, FilesAgree
<1>4. CASE ScoreBegin
  <2>1. cmd' = "score" /\ cmd # "score" /\ todo' = ScoreFiles /\ UNCHANGED <<file, cut>>
    BY <1>4 DEF ScoreBegin
  <2>2. QED  BY <1>1, <2>1 DEF FilesInv, Scoring, Calibrating, FilesAgree
<1>5. CASE CalibrateBegin
  <2>1. /\ cmd' = "calibrate" /\ cmd # "score" /\ todo' = CalibrateFiles
        /\ UNCHANGED <<file, cut>>
    BY <1>5 DEF CalibrateBegin
  <2>2. QED  BY <1>1, <2>1 DEF FilesInv, Scoring, Calibrating, FilesAgree
<1>6. CASE WriteFile
  <2>1. \A f \in File : file'[f] = IF f = Head(todo) THEN read ELSE file[f]
    BY <1>1, <1>6 DEF WriteFile, Contents, FilesInv
  <2>2. DOMAIN file' = File
    BY <1>1, <1>6 DEF WriteFile, FilesInv
  <2>3. {"scores", "fields", "statements", "aggregates", "calibration"} \subseteq File
    BY DEF File, ScoreFiles
  <2>4. cut' = (cut /\ Head(todo) # "aggregates") /\ cut' \in BOOLEAN
    BY <1>6 DEF WriteFile
  <2>5. IF Len(todo) = 1 THEN cmd' = "none"
        ELSE todo' = Tail(todo) /\ UNCHANGED <<cmd, read>>
    BY <1>6 DEF WriteFile
  <2>6. CASE cmd = "calibrate"
    <3>1. Len(todo) = 1 /\ Head(todo) = "calibration"
      BY <1>1, <2>6, FilesInOrder DEF FilesInv, Calibrating
    <3>2. cmd' = "none" /\ (~cut' => ~cut)
      BY <3>1, <2>4, <2>5
    <3>3. FilesAgree => FilesAgree'
      BY <3>1, <2>1, <2>3 DEF FilesAgree
    <3>4. QED
      BY <1>1, <2>2, <2>4, <2>6, <3>2, <3>3 DEF FilesInv, Scoring, Calibrating
  <2>7. CASE cmd = "score" /\ todo = <<"aggregates">>
    <3>1. \A f \in {"scores", "fields", "statements"} : file[f] = read
      BY <1>1, <2>7, FilesInOrder DEF FilesInv, Scoring
    <3>2. cmd' = "none"
      BY <2>5, <2>7, FilesInOrder
    <3>3. FilesAgree'
      BY <2>1, <2>3, <2>7, <3>1, FilesInOrder DEF FilesAgree
    <3>4. QED  BY <2>2, <2>4, <3>2, <3>3 DEF FilesInv, Scoring, Calibrating
  <2>8. CASE cmd = "score" /\ todo # <<"aggregates">>
    <3>1. \/ todo = ScoreFiles
          \/ todo = <<"fields", "statements", "aggregates">> /\ file["scores"] = read
          \/ /\ todo = <<"statements", "aggregates">>
             /\ file["scores"] = read /\ file["fields"] = read
      BY <1>1, <2>8 DEF FilesInv, Scoring
    <3>2. Len(todo) \in {2, 3, 4}
      <4>1. todo = ScoreFiles => Len(todo) = 4
        BY FilesInOrder
      <4>2. todo = <<"fields", "statements", "aggregates">> => Len(todo) = 3
        BY FilesInOrder
      <4>3. todo = <<"statements", "aggregates">> => Len(todo) = 2
        BY FilesInOrder
      <4>4. QED  BY <3>1, <4>1, <4>2, <4>3
    <3>3. todo' = Tail(todo) /\ cmd' = "score" /\ read' = read
      <4>1. Len(todo) # 1
        BY <3>2
      <4>2. QED  BY <2>5, <2>8, <4>1
    <3>4. Scoring'
      <4>1. CASE todo = ScoreFiles
        BY <4>1, <2>1, <2>3, <3>3, FilesInOrder DEF Scoring
      <4>2. CASE todo = <<"fields", "statements", "aggregates">> /\ file["scores"] = read
        BY <4>2, <2>1, <2>3, <3>3, FilesInOrder DEF Scoring
      <4>3. CASE /\ todo = <<"statements", "aggregates">>
                 /\ file["scores"] = read /\ file["fields"] = read
        BY <4>3, <2>1, <2>3, <3>3, FilesInOrder DEF Scoring
      <4>4. QED  BY <3>1, <4>1, <4>2, <4>3
    <3>5. QED  BY <2>2, <2>4, <3>3, <3>4 DEF FilesInv, Calibrating
  <2>9. QED  BY <1>6, <2>6, <2>7, <2>8 DEF WriteFile
<1>7. CASE Kill
  <2>1. cmd' = "none" /\ UNCHANGED file /\ cut' = (cut \/ (cmd = "score" /\ Len(todo) \in 1..3))
    BY <1>7 DEF Kill
  <2>2. CASE cmd = "score"
    <3>1. todo = ScoreFiles \/ Len(todo) \in 1..3
      BY <1>1, <2>2, FilesInOrder DEF FilesInv, Scoring
    <3>2. CASE todo = ScoreFiles
      <4>1. todo # <<"fields", "statements", "aggregates">>
            /\ todo # <<"statements", "aggregates">> /\ todo # <<"aggregates">>
        BY <3>2, FilesInOrder
      <4>2. ~cut => FilesAgree
        BY <1>1, <2>2, <4>1 DEF FilesInv, Scoring
      <4>3. QED  BY <1>1, <2>1, <4>2 DEF FilesInv, Scoring, Calibrating, FilesAgree
    <3>3. CASE Len(todo) \in 1..3
      BY <1>1, <2>1, <2>2, <3>3 DEF FilesInv, Scoring, Calibrating
    <3>4. QED  BY <3>1, <3>2, <3>3
  <2>3. CASE cmd # "score"
    BY <1>1, <2>1, <2>3 DEF FilesInv, Scoring, Calibrating, FilesAgree
  <2>4. QED  BY <2>2, <2>3
<1>8. ASSUME NEW p \in Page, PrepareTruth(p) PROVE FilesInv'
  BY <1>1, <1>8, FilesFrame DEF PrepareTruth
<1>9. ASSUME NEW p \in Page, PrepareImage(p) PROVE FilesInv'
  BY <1>1, <1>9 DEF PrepareImage, FilesInv, Scoring, Calibrating, FilesAgree
<1>10. ASSUME NEW p \in Page, InferPage(p) PROVE FilesInv'
  BY <1>1, <1>10, FilesFrame DEF InferPage
<1>11. ASSUME NEW p \in Page, ReviewLoad(p) PROVE FilesInv'
  BY <1>1, <1>11, FilesFrame DEF ReviewLoad
<1>12. CASE UNCHANGED vars
  BY <1>1, <1>12, FilesFrame DEF vars
<1>13. QED
  BY <1>1, <1>2, <1>3, <1>4, <1>5, <1>6, <1>7, <1>8, <1>9, <1>10, <1>11, <1>12 DEF Next

(* Whatever infer and review do meanwhile, the four files of score are of  *)
(* one reading, unless a score was killed half way and none came after it. *)
THEOREM ScoreFilesAgreeHolds == Spec => []ScoreFilesAgree
<1>1. FilesInv => ScoreFilesAgree
  BY DEF FilesInv, FilesAgree, ScoreFilesAgree
<1>2. QED  BY <1>1, FilesInit, FilesStep, PTL DEF Spec

-----------------------------------------------------------------------------
(* Calibrating: an answer is not asked for again, so that the prediction a *)
(* scored page has, if it is an answer, is the one it was scored with.     *)
Answered(label) == label # Null /\ label.ok

(* What score has read, and what it left of that in a file. *)
ScoredAs(scored) ==
  /\ DOMAIN scored \in SUBSET Page
  /\ \A p \in DOMAIN scored : Answered(scored[p].pred) => preds[p] = scored[p].pred

Joined(pairs) ==
  \A p \in DOMAIN pairs : Answered(pairs[p].label) => pairs[p].features = pairs[p].label

LabelsInv ==
  /\ PrepareInv /\ FilesInv
  /\ file["fields"] # Null => ScoredAs(file["fields"])
  /\ cmd = "score" => ScoredAs(read)
  /\ cmd = "calibrate" => Joined(read)
  /\ file["calibration"] # Null => Joined(file["calibration"])

LEMMA LabelsInit == Init => LabelsInv
<1>1. SUFFICES ASSUME Init PROVE LabelsInv
  OBVIOUS
<1>2. PrepareInv /\ FilesInv
  BY <1>1, PrepareInit, FilesInit
<1>3. "fields" \in File /\ "calibration" \in File
  BY DEF File, ScoreFiles
<1>4. QED  BY <1>1, <1>2, <1>3 DEF Init, LabelsInv

(* What is asked is no answer. *)
LEMMA AnswersStay ==
  ASSUME Types, NEW p \in Page, InferPage(p)
  PROVE  \A q \in Page : Answered(preds[q]) => preds'[q] = preds[q]
<1>1. PICK ok \in BOOLEAN : preds' = [preds EXCEPT ![p] = [img |-> img[p], ok |-> ok]]
  BY DEF InferPage
<1>2. \A q \in Page : q # p => preds'[q] = preds[q]
  BY <1>1 DEF Types
<1>3. preds[p] = Null \/ preds[p].ok = FALSE
  BY DEF InferPage, Pending
<1>4. ~Answered(preds[p])
  BY <1>3 DEF Answered
<1>5. QED  BY <1>2, <1>4

(* While answers stay, what was scored and joined stays what it was. *)
LEMMA LabelsFrame ==
  ASSUME LabelsInv, (PrepareInv /\ FilesInv)',
         UNCHANGED file,
         \A q \in Page : Answered(preds[q]) => preds'[q] = preds[q],
         cmd' \notin {"score", "calibrate"} \/ UNCHANGED <<cmd, read>>
  PROVE  LabelsInv'
<1>1. ASSUME file["fields"] # Null PROVE ScoredAs(file["fields"])'
  <2>1. ScoredAs(file["fields"])
    BY <1>1 DEF LabelsInv
  <2>2. QED  BY <2>1 DEF ScoredAs
<1>2. ASSUME cmd' = "score" PROVE ScoredAs(read)'
  <2>1. read' = read /\ ScoredAs(read)
    BY <1>2 DEF LabelsInv
  <2>2. QED  BY <2>1 DEF ScoredAs
<1>3. ASSUME cmd' = "calibrate" PROVE Joined(read)'
  <2>1. read' = read /\ Joined(read)
    BY <1>3 DEF LabelsInv
  <2>2. QED  BY <2>1 DEF Joined
<1>4. file["calibration"] # Null => Joined(file["calibration"])'
  BY DEF LabelsInv, Joined
<1>5. QED  BY <1>1, <1>2, <1>3, <1>4 DEF LabelsInv

LEMMA LabelsStep == LabelsInv /\ [Next]_vars => LabelsInv'
<1>1. SUFFICES ASSUME LabelsInv, [Next]_vars PROVE LabelsInv'
  OBVIOUS
<1>2. Types /\ FilesInv
  BY <1>1 DEF LabelsInv, PrepareInv
<1>3. PrepareInv' /\ FilesInv'
  BY <1>1, PrepareStep, FilesStep DEF LabelsInv
<1>4. CASE PrepareBegin
  BY <1>1, <1>3, <1>4, LabelsFrame DEF PrepareBegin
<1>5. CASE PrepareEnd
  BY <1>1, <1>3, <1>5, LabelsFrame DEF PrepareEnd
<1>6. CASE ScoreBegin
  <2>1. cmd' = "score" /\ read' = Inputs /\ UNCHANGED <<preds, file>>
    BY <1>6 DEF ScoreBegin
  <2>2. manifest \in SUBSET Page
    BY <1>2, <1>6 DEF ScoreBegin, Types
  <2>3. ScoredAs(read)'
    BY <2>1, <2>2 DEF Inputs, ScoredAs
  <2>4. file["fields"] # Null => ScoredAs(file["fields"])'
    BY <1>1, <2>1 DEF LabelsInv, ScoredAs
  <2>5. file["calibration"] # Null => Joined(file["calibration"])'
    BY <1>1, <2>1 DEF LabelsInv, Joined
  <2>6. QED  BY <1>3, <2>1, <2>3, <2>4, <2>5 DEF LabelsInv
<1>7. CASE CalibrateBegin
  <2>1. /\ cmd' = "calibrate" /\ UNCHANGED <<preds, file>>
        /\ read' = [p \in DOMAIN file["fields"] |->
                      [label |-> file["fields"][p].pred, features |-> preds[p]]]
    BY <1>7 DEF CalibrateBegin
  <2>2. ScoredAs(file["fields"])
    BY <1>1, <1>7 DEF CalibrateBegin, LabelsInv
  <2>3. Joined(read)'
    BY <2>1, <2>2 DEF ScoredAs, Joined
  <2>4. ScoredAs(file["fields"])'
    BY <2>1, <2>2 DEF ScoredAs
  <2>5. file["calibration"] # Null => Joined(file["calibration"])'
    BY <1>1, <2>1 DEF LabelsInv, Joined
  <2>6. QED  BY <1>3, <2>1, <2>3, <2>4, <2>5 DEF LabelsInv
<1>8. CASE WriteFile
  <2>1. \A f \in File : file'[f] = IF f = Head(todo) THEN read ELSE file[f]
    BY <1>2, <1>8 DEF WriteFile, Contents, Types
  <2>2. "fields" \in File /\ "calibration" \in File
    BY DEF File, ScoreFiles
  <2>3. preds' = preds /\ (cmd' = "none" \/ UNCHANGED <<cmd, read>>)
    BY <1>8 DEF WriteFile
  <2>4. cmd = "score" => Head(todo) # "calibration"
    BY <1>2, FilesInOrder DEF FilesInv, Scoring
  <2>5. cmd = "calibrate" => Head(todo) = "calibration"
    BY <1>2, FilesInOrder DEF FilesInv, Calibrating
  <2>6. cmd = "score" \/ cmd = "calibrate"
    BY <1>8 DEF WriteFile
  <2>7. (cmd = "score" => ScoredAs(read)) /\ (cmd = "calibrate" => Joined(read))
    BY <1>1 DEF LabelsInv
  <2>8. ASSUME file'["fields"] # Null PROVE ScoredAs(file["fields"])'
    <3>1. ScoredAs(file'["fields"])
      BY <1>1, <2>1, <2>2, <2>4, <2>5, <2>6, <2>7, <2>8 DEF LabelsInv
    <3>2. QED  BY <2>3, <3>1 DEF ScoredAs
  <2>9. ASSUME file'["calibration"] # Null PROVE Joined(file["calibration"])'
    <3>1. Joined(file'["calibration"])
      BY <1>1, <2>1, <2>2, <2>4, <2>5, <2>6, <2>7, <2>9 DEF LabelsInv
    <3>2. QED  BY <3>1 DEF Joined
  <2>10. cmd' = "score" => ScoredAs(read)'
    BY <2>3, <2>7 DEF ScoredAs
  <2>11. cmd' = "calibrate" => Joined(read)'
    BY <2>3, <2>7 DEF Joined
  <2>12. QED  BY <1>3, <2>8, <2>9, <2>10, <2>11 DEF LabelsInv
<1>9. CASE Kill
  BY <1>1, <1>3, <1>9, LabelsFrame DEF Kill
<1>10. ASSUME NEW p \in Page, PrepareTruth(p) PROVE LabelsInv'
  BY <1>1, <1>3, <1>10, LabelsFrame DEF PrepareTruth
<1>11. ASSUME NEW p \in Page, PrepareImage(p) PROVE LabelsInv'
  BY <1>1, <1>3, <1>11, LabelsFrame DEF PrepareImage
<1>12. ASSUME NEW p \in Page, InferPage(p) PROVE LabelsInv'
  <2>1. UNCHANGED <<file, cmd, read>>
    BY <1>12 DEF InferPage
  <2>2. QED  BY <1>1, <1>2, <1>3, <1>12, <2>1, AnswersStay, LabelsFrame
<1>13. ASSUME NEW p \in Page, ReviewLoad(p) PROVE LabelsInv'
  BY <1>1, <1>3, <1>13, LabelsFrame DEF ReviewLoad
<1>14. CASE UNCHANGED vars
  BY <1>1, <1>3, <1>14, LabelsFrame DEF vars
<1>15. QED
  BY <1>1, <1>4, <1>5, <1>6, <1>7, <1>8, <1>9, <1>10, <1>11, <1>12, <1>13, <1>14 DEF Next

(* calibrate never trains or measures on the features of another answer    *)
(* than the one its label judges, however infer, score and prepare --force *)
(* follow one another.                                                     *)
THEOREM LabelsKeepTheirAnswerHolds == Spec => []LabelsKeepTheirAnswer
<1>1. LabelsInv => LabelsKeepTheirAnswer
  BY DEF LabelsInv, Joined, Answered, LabelsKeepTheirAnswer
<1>2. QED  BY <1>1, LabelsInit, LabelsStep, PTL DEF Spec

-----------------------------------------------------------------------------
(* Induction and sums over finite sets.                                    *)

(* A set of naturals has a least.                                          *)
LEMMA LeastNatural ==
  ASSUME NEW T \in SUBSET Nat, T # {}
  PROVE  \E n \in T : \A m \in T : n <= m
<1>1. PICK n \in T : \A m \in T : ~(<<m, n>> \in OpToRel(<, Nat))
  BY WFMin, NatLessThanWellFounded, Zenon
<1>2. \A m \in T : ~(m < n)
  BY <1>1 DEF OpToRel
<1>3. QED  BY <1>2

(* Induction over the naturals, with a set for the predicate.              *)
LEMMA NatInduct ==
  ASSUME NEW T \in SUBSET Nat, 0 \in T, \A n \in T : n + 1 \in T
  PROVE  T = Nat
<1>1. SUFFICES ASSUME Nat \ T # {} PROVE FALSE
  OBVIOUS
<1>2. PICK n \in Nat \ T : \A m \in Nat \ T : n <= m
  BY <1>1, LeastNatural
<1>3. n - 1 \in T
  BY <1>2
<1>4. QED  BY <1>2, <1>3

(* Min and Max of a set of naturals.                                       *)
LEMMA MinOfNaturals ==
  ASSUME NEW T \in SUBSET Nat, T # {}
  PROVE  Min(T) \in T /\ \A m \in T : Min(T) <= m
<1>1. \E n \in T : \A m \in T : n <= m
  BY LeastNatural
<1>2. QED  BY <1>1 DEF Min

LEMMA MaxOfNaturals ==
  ASSUME NEW T \in SUBSET Nat, T # {}, NEW b \in Nat, \A m \in T : m <= b
  PROVE  Max(T) \in T /\ \A m \in T : m <= Max(T)
<1> DEFINE D == {b - m : m \in T}
<1>1. D \in SUBSET Nat /\ D # {}
  <2>1. \A m \in T : b - m \in Nat
    OBVIOUS
  <2>2. QED  BY <2>1
<1>2. PICK d \in D : \A m \in D : d <= m
  BY <1>1, LeastNatural
<1>3. PICK x \in T : d = b - x
  BY <1>2
<1>4. \A m \in T : m <= x
  BY <1>2, <1>3
<1>5. QED  BY <1>3, <1>4 DEF Max

(* A finite set is in G with all of its subsets, if a set is there         *)
(* whenever those with one element less are.                               *)
LEMMA FiniteInduct ==
  ASSUME NEW S, IsFiniteSet(S), NEW G,
         \A T \in SUBSET S : (\A x \in T : T \ {x} \in G) => T \in G
  PROVE  SUBSET S \subseteq G
<1> DEFINE N == {n \in Nat : \A T \in SUBSET S : Cardinality(T) = n => T \in G}
<1>1. 0 \in N
  BY FS_EmptySet, FS_Subset
<1>2. ASSUME NEW n \in N PROVE n + 1 \in N
  <2>1. SUFFICES ASSUME NEW T \in SUBSET S, Cardinality(T) = n + 1, NEW x \in T PROVE T \ {x} \in G
    BY <1>2
  <2>2. Cardinality(T \ {x}) = Cardinality(T) - 1
    BY FS_Subset, FS_RemoveElement
  <2>3. n \in Nat
    OBVIOUS
  <2>4. QED  BY <1>2, <2>1, <2>2, <2>3
<1>3. N = Nat
  <2> HIDE DEF N
  <2>1. N \in SUBSET Nat
    BY DEF N
  <2>2. QED  BY <1>1, <1>2, <2>1, NatInduct
<1>4. SUFFICES ASSUME NEW T \in SUBSET S PROVE T \in G
  OBVIOUS
<1>5. Cardinality(T) \in Nat
  BY FS_Subset, FS_CardinalityType
<1>6. QED  BY <1>3, <1>5

(* pick chooses an element of each subset of S that has one.               *)
Picks(pick, S) == \A s \in SUBSET S : s # {} => pick[s] \in s

(* g folds h over the subsets of S, from base, in the order of pick.       *)
IsFold(g, base, h, pick, S) ==
  \A s \in SUBSET S : g[s] = IF s = {} THEN base ELSE h[<<pick[s], g[s \ {pick[s]}]>>]

(* There is such a fold.                                                   *)
LEMMA FoldExists ==
  ASSUME NEW S, IsFiniteSet(S), NEW B, NEW base \in B, NEW h \in [S \X B -> B],
         NEW pick, Picks(pick, S)
  PROVE  \E g \in [SUBSET S -> B] : IsFold(g, base, h, pick, S)
<1> DEFINE Eq(g, s) == g[s] = IF s = {} THEN base ELSE h[<<pick[s], g[s \ {pick[s]}]>>]
           N == {n \in Nat : \E g \in [SUBSET S -> B] : \A s \in SUBSET S : Cardinality(s) <= n => Eq(g, s)}
<1>1. 0 \in N
  <2>1. \A s \in SUBSET S : Cardinality(s) <= 0 => s = {}
    BY FS_EmptySet, FS_Subset, FS_CardinalityType
  <2>2. [s \in SUBSET S |-> base] \in [SUBSET S -> B]
    OBVIOUS
  <2>3. \A s \in SUBSET S : Cardinality(s) <= 0 => Eq([t \in SUBSET S |-> base], s)
    BY <2>1
  <2>4. QED  BY <2>2, <2>3
<1>2. ASSUME NEW n \in N PROVE n + 1 \in N
  <2>1. PICK g \in [SUBSET S -> B] : \A s \in SUBSET S : Cardinality(s) <= n => Eq(g, s)
    BY <1>2
  <2> DEFINE gg == [s \in SUBSET S |-> IF s = {} THEN base ELSE h[<<pick[s], g[s \ {pick[s]}]>>]]
  <2>2. gg \in [SUBSET S -> B]
    BY DEF Picks
  <2>3. ASSUME NEW s \in SUBSET S, Cardinality(s) <= n PROVE gg[s] = g[s]
    BY <2>1, <2>3
  <2>4. ASSUME NEW s \in SUBSET S, Cardinality(s) <= n + 1 PROVE Eq(gg, s)
    <3>1. CASE s = {}
      BY <3>1
    <3>2. CASE s # {}
      <4>1. pick[s] \in s /\ s \ {pick[s]} \in SUBSET S
        BY <3>2 DEF Picks
      <4>2. Cardinality(s \ {pick[s]}) = Cardinality(s) - 1 /\ Cardinality(s) \in Nat
        <5>1. IsFiniteSet(s)
          BY FS_Subset
        <5>2. Cardinality(s) \in Nat
          BY <5>1, FS_CardinalityType
        <5>3. QED  BY <4>1, <5>1, <5>2, FS_RemoveElement
      <4>3. n \in Nat
        OBVIOUS
      <4> DEFINE r == s \ {pick[s]}
      <4>a. Cardinality(r) <= n
        BY <2>4, <4>2, <4>3
      <4>4. gg[r] = g[r]
        <5> HIDE DEF r, gg
        <5>1. r \in SUBSET S
          BY <4>1 DEF r
        <5>2. QED  BY <2>3, <4>a, <5>1
      <4>5. QED  BY <3>2, <4>4
    <3>3. QED  BY <3>1, <3>2
  <2>5. \A s \in SUBSET S : Cardinality(s) <= n + 1 => Eq(gg, s)
    BY <2>4
  <2>6. QED
    <3> HIDE DEF gg
    <3>1. n + 1 \in Nat
      OBVIOUS
    <3>2. QED  BY <2>2, <2>5, <3>1
<1>3. N = Nat
  <2> HIDE DEF N
  <2>1. N \in SUBSET Nat
    BY DEF N
  <2>2. QED  BY <1>1, <1>2, <2>1, NatInduct
<1>4. PICK g \in [SUBSET S -> B] : \A s \in SUBSET S : Cardinality(s) <= Cardinality(S) => Eq(g, s)
  BY <1>3, FS_CardinalityType
<1>5. \A s \in SUBSET S : Eq(g, s)
  BY <1>4, FS_Subset
<1>6. QED  BY <1>5 DEF IsFold

-----------------------------------------------------------------------------
(* The element that the folds of the community modules take first.         *)
One(s) == CHOOSE x \in s : TRUE

(* g adds up F over each subset of S.                                      *)
IsSum(g, F, S) ==
  \A s \in SUBSET S : g[s] = IF s = {} THEN 0 ELSE F[One(s)] + g[s \ {One(s)}]

LEMMA SumExists ==
  ASSUME NEW S, IsFiniteSet(S), NEW F \in [S -> Int]
  PROVE  \E g \in [SUBSET S -> Int] : IsSum(g, F, S)
<1> DEFINE pick == [s \in SUBSET S |-> One(s)]
           h == [p \in S \X Int |-> F[p[1]] + p[2]]
<1>1. Picks(pick, S)
  BY DEF One, Picks
<1>2. h \in [S \X Int -> Int]
  OBVIOUS
<1>3. PICK g \in [SUBSET S -> Int] : IsFold(g, 0, h, pick, S)
  <2> HIDE DEF h, pick
  <2>1. 0 \in Int
    OBVIOUS
  <2>2. QED  BY <1>1, <1>2, <2>1, FoldExists
<1>4. ASSUME NEW s \in SUBSET S, s # {} PROVE h[<<pick[s], g[s \ {pick[s]}]>>] = F[One(s)] + g[s \ {One(s)}]
  <2>1. One(s) \in S /\ pick[s] = One(s)
    BY <1>1, <1>4 DEF Picks
  <2>2. QED  BY <2>1
<1>5. IsSum(g, F, S)
  <2> HIDE DEF h, pick
  <2>1. QED  BY <1>3, <1>4 DEF IsSum, IsFold
<1>6. QED  BY <1>5

(* A sum is of the type of what is added.                                  *)
LEMMA SumType ==
  ASSUME NEW S, IsFiniteSet(S), NEW V \in SUBSET Int, 0 \in V, \A a, b \in V : a + b \in V,
         NEW F, \A x \in S : F[x] \in V, NEW g, IsSum(g, F, S)
  PROVE  \A s \in SUBSET S : g[s] \in V
<1> DEFINE G == {s \in SUBSET S : g[s] \in V}
<1>1. ASSUME NEW T \in SUBSET S, \A x \in T : T \ {x} \in G PROVE T \in G
  <2>1. CASE T = {}
    BY <2>1 DEF IsSum
  <2>2. CASE T # {}
    <3>1. One(T) \in T
      BY <2>2 DEF One
    <3>2. g[T] = F[One(T)] + g[T \ {One(T)}]
      BY <2>2 DEF IsSum
    <3>3. F[One(T)] \in V /\ g[T \ {One(T)}] \in V
      BY <1>1, <3>1
    <3>4. g[T] \in V
      BY <3>2, <3>3
    <3>5. QED  BY <3>4
  <2>3. QED  BY <2>1, <2>2
<1>2. SUBSET S \subseteq G
  <2> HIDE DEF G
  <2>1. QED  BY <1>1, FiniteInduct
<1>3. QED  BY <1>2

LEMMA SumIsFunction ==
  ASSUME NEW S, IsFiniteSet(S), NEW F \in [S -> Int],
         NEW g, g = [s \in SUBSET S |-> g[s]], IsSum(g, F, S)
  PROVE  g \in [SUBSET S -> Int]
<1>1. \A s \in SUBSET S : g[s] \in Int
  BY SumType
<1>2. QED  BY <1>1

(* ... whichever element is taken first.                                   *)
Takes(g, F, S) == \A s \in SUBSET S : \A x \in s : g[s] = F[x] + g[s \ {x}]

LEMMA SumTakes ==
  ASSUME NEW S, IsFiniteSet(S), NEW F, \A x \in S : F[x] \in Int, NEW g, IsSum(g, F, S)
  PROVE  Takes(g, F, S)
<1> DEFINE G == {s \in SUBSET S : \A x \in s : g[s] = F[x] + g[s \ {x}]}
<1>1. \A s \in SUBSET S : g[s] \in Int
  BY SumType
<1>2. ASSUME NEW T \in SUBSET S, \A x \in T : T \ {x} \in G PROVE T \in G
  <2>1. SUFFICES ASSUME NEW x \in T PROVE g[T] = F[x] + g[T \ {x}]
    OBVIOUS
  <2>2. One(T) \in T
    BY DEF One
  <2>3. g[T] = F[One(T)] + g[T \ {One(T)}]
    BY <2>1 DEF IsSum
  <2>4. CASE x # One(T)
    <3>1. g[T \ {One(T)}] = F[x] + g[(T \ {One(T)}) \ {x}]
      BY <1>2, <2>2, <2>4
    <3>2. g[T \ {x}] = F[One(T)] + g[(T \ {x}) \ {One(T)}]
      BY <1>2, <2>2, <2>4
    <3>3. (T \ {x}) \ {One(T)} = (T \ {One(T)}) \ {x}
      OBVIOUS
    <3>4. g[(T \ {One(T)}) \ {x}] \in Int /\ F[x] \in Int /\ F[One(T)] \in Int
      BY <1>1, <2>2
    <3>5. g[T] = F[One(T)] + (F[x] + g[(T \ {One(T)}) \ {x}])
      BY <2>3, <3>1
    <3>6. F[x] + g[T \ {x}] = F[x] + (F[One(T)] + g[(T \ {One(T)}) \ {x}])
      BY <3>2, <3>3
    <3>7. QED  BY <3>4, <3>5, <3>6
  <2>5. CASE x = One(T)
    BY <2>3, <2>5
  <2>6. QED  BY <2>4, <2>5
<1>3. SUBSET S \subseteq G
  <2> HIDE DEF G
  <2>1. QED  BY <1>2, FiniteInduct
<1>4. QED  BY <1>3 DEF Takes

(* F2 is k times F.                                                        *)
IsScaled(F2, k, F, S) == \A x \in S : F[x] \in Int /\ F2[x] = k * F[x]

LEMMA SumScaled ==
  ASSUME NEW S, IsFiniteSet(S), NEW k \in Int, NEW F, NEW F2, IsScaled(F2, k, F, S),
         NEW g, IsSum(g, F, S), NEW g2, IsSum(g2, F2, S)
  PROVE  \A s \in SUBSET S : g2[s] = k * g[s]
<1> DEFINE G == {s \in SUBSET S : g2[s] = k * g[s]}
<1>1. \A s \in SUBSET S : g[s] \in Int
  <2>1. \A x \in S : F[x] \in Int
    BY DEF IsScaled
  <2>2. Int \in SUBSET Int /\ 0 \in Int /\ \A a, b \in Int : a + b \in Int
    OBVIOUS
  <2>3. QED  BY <2>1, <2>2, SumType
<1>2. ASSUME NEW T \in SUBSET S, \A x \in T : T \ {x} \in G PROVE T \in G
  <2>1. CASE T = {}
    <3>1. g[T] = 0 /\ g2[T] = 0
      BY <2>1 DEF IsSum
    <3>2. k * 0 = 0
      OBVIOUS
    <3>3. QED  BY <3>1, <3>2
  <2>2. CASE T # {}
    <3> DEFINE a == One(T)
               u == T \ {a}
    <3>1. a \in T
      BY <2>2 DEF One
    <3>2. g[T] = F[a] + g[u] /\ g2[T] = F2[a] + g2[u]
      BY <2>2 DEF IsSum
    <3>3. u \in G
      BY <1>2, <3>1
    <3> HIDE DEF a
    <3>4. F[a] \in Int /\ g[u] \in Int /\ F2[a] = k * F[a] /\ g2[u] = k * g[u]
      BY <1>1, <3>1, <3>3 DEF IsScaled
    <3>5. k * (F[a] + g[u]) = k * F[a] + k * g[u]
      <4> HIDE DEF u
      <4>1. QED  BY <3>4
    <3>6. QED  BY <3>2, <3>4, <3>5
  <2>3. QED  BY <2>1, <2>2
<1>3. SUBSET S \subseteq G
  <2> HIDE DEF G
  <2>1. QED  BY <1>2, FiniteInduct
<1>4. QED  BY <1>3

(* Things sorted into classes are counted class by class.                  *)
LEMMA SumOfClasses ==
  ASSUME NEW S, IsFiniteSet(S), NEW P, IsFiniteSet(P), NEW class \in [S -> P],
         NEW F, \A p \in P : F[p] = Cardinality({x \in S : class[x] = p}),
         NEW g, IsSum(g, F, P)
  PROVE  g[P] = Cardinality(S)
<1> DEFINE In(Q) == {x \in S : class[x] \in Q}
           G == {Q \in SUBSET P : g[Q] = Cardinality(In(Q))}
<1>1. \A Q : IsFiniteSet(In(Q)) /\ Cardinality(In(Q)) \in Nat
  BY FS_Subset, FS_CardinalityType
<1>2. ASSUME NEW T \in SUBSET P, \A x \in T : T \ {x} \in G PROVE T \in G
  <2>1. CASE T = {}
    <3>1. In(T) = {}
      BY <2>1
    <3>2. QED  BY <2>1, <3>1, FS_EmptySet DEF IsSum
  <2>2. CASE T # {}
    <3> DEFINE a == One(T)
               u == T \ {a}
    <3>1. a \in T
      BY <2>2 DEF One
    <3>2. g[T] = F[a] + g[u]
      BY <2>2 DEF IsSum
    <3>3. g[u] = Cardinality(In(u))
      BY <1>2, <3>1
    <3> HIDE DEF a
    <3>4. F[a] = Cardinality(In({a}))
      <4>1. In({a}) = {x \in S : class[x] = a}
        OBVIOUS
      <4>2. QED  BY <3>1, <4>1
    <3>5. In(T) = In(u) \cup In({a}) /\ In(u) \cap In({a}) = {}
      BY <3>1
    <3> HIDE DEF In, u
    <3>6. Cardinality(In(u) \cup In({a}))
            = Cardinality(In(u)) + Cardinality(In({a})) - Cardinality(In(u) \cap In({a}))
      BY <1>1, FS_Union
    <3>7. Cardinality(In(u) \cap In({a})) = 0
      BY <3>5, FS_EmptySet
    <3>8. Cardinality(In(u)) \in Nat /\ Cardinality(In({a})) \in Nat
      BY <1>1
    <3>9. Cardinality(In(T)) = Cardinality(In(u)) + Cardinality(In({a}))
      BY <3>5, <3>6, <3>7, <3>8
    <3>10. QED  BY <3>2, <3>3, <3>4, <3>8, <3>9
  <2>3. QED  BY <2>1, <2>2
<1>3. SUBSET P \subseteq G
  <2> HIDE DEF G
  <2>1. QED  BY <1>2, FiniteInduct
<1>4. In(P) = S
  OBVIOUS
<1>5. QED  BY <1>3, <1>4

-----------------------------------------------------------------------------
(* _choose_threshold, mondrian, reliability_bins and brier: sums and counts *)
(* of labelled fields.                                                     *)

(* The labels of some records, added up. *)
LabelsIn(records, idx) == MapThenSumSet(LAMBDA j : records[j].label, idx)

LEMMA LabelSum ==
  ASSUME NEW records, NEW idx, IsFiniteSet(idx), \A j \in idx : records[j].label \in Int
  PROVE  \E f \in [SUBSET idx -> Int] :
           IsSum(f, [x \in idx |-> records[x].label], idx) /\ LabelsIn(records, idx) = f[idx]
<1> DEFINE V(x) == records[x].label
           Q == idx
           F == [x \in Q |-> V(x)]
           Eq(g) == g = [s \in SUBSET Q |-> IF s = {} THEN 0
                         ELSE LET x == CHOOSE x \in s : TRUE IN V(x) + g[s \ {x}]]
           it == CHOOSE g : Eq(g)
<1>1. LabelsIn(records, idx) = it[Q]
  BY DEF LabelsIn, MapThenSumSet, MapThenFoldSet
<1>2. \A x \in Q : V(x) \in Int
  OBVIOUS
<1>3. IsFiniteSet(Q)
  BY FS_Interval
<1> HIDE DEF V, Q
<1>4. F \in [Q -> Int]
  BY <1>2
<1>5. PICK g \in [SUBSET Q -> Int] : IsSum(g, F, Q)
  BY <1>3, <1>4, SumExists
<1>6. \A s \in SUBSET Q : s # {} => One(s) \in Q /\ F[One(s)] = V(One(s))
  BY DEF One
<1>7. Eq(g)
  BY <1>5, <1>6 DEF IsSum, One
<1>8. Eq(it)
  BY <1>7
<1>9. IsSum(it, F, Q) /\ it = [s \in SUBSET Q |-> it[s]]
  <2> HIDE DEF it, F
  <2>1. QED  BY <1>6, <1>8 DEF IsSum, One
<1>10. \E f \in [SUBSET Q -> Int] : IsSum(f, F, Q) /\ LabelsIn(records, idx) = f[Q]
  <2> HIDE DEF it, F
  <2>1. it \in [SUBSET Q -> Int]
    BY <1>3, <1>4, <1>9, SumIsFunction
  <2>2. QED  BY <1>1, <1>9, <2>1
<1>11. QED  BY <1>10 DEF Q, V

(* Their confidences, added up. *)
ConfsOf(records, idx) == MapThenSumSet(LAMBDA j : records[j].conf, idx)

LEMMA ConfSum ==
  ASSUME NEW records, NEW idx, IsFiniteSet(idx), \A j \in idx : records[j].conf \in Int
  PROVE  \E f \in [SUBSET idx -> Int] :
           IsSum(f, [x \in idx |-> records[x].conf], idx) /\ ConfsOf(records, idx) = f[idx]
<1> DEFINE V(x) == records[x].conf
           Q == idx
           F == [x \in Q |-> V(x)]
           Eq(g) == g = [s \in SUBSET Q |-> IF s = {} THEN 0
                         ELSE LET x == CHOOSE x \in s : TRUE IN V(x) + g[s \ {x}]]
           it == CHOOSE g : Eq(g)
<1>1. ConfsOf(records, idx) = it[Q]
  BY DEF ConfsOf, MapThenSumSet, MapThenFoldSet
<1>2. \A x \in Q : V(x) \in Int
  OBVIOUS
<1>3. IsFiniteSet(Q)
  BY FS_Interval
<1> HIDE DEF V, Q
<1>4. F \in [Q -> Int]
  BY <1>2
<1>5. PICK g \in [SUBSET Q -> Int] : IsSum(g, F, Q)
  BY <1>3, <1>4, SumExists
<1>6. \A s \in SUBSET Q : s # {} => One(s) \in Q /\ F[One(s)] = V(One(s))
  BY DEF One
<1>7. Eq(g)
  BY <1>5, <1>6 DEF IsSum, One
<1>8. Eq(it)
  BY <1>7
<1>9. IsSum(it, F, Q) /\ it = [s \in SUBSET Q |-> it[s]]
  <2> HIDE DEF it, F
  <2>1. QED  BY <1>6, <1>8 DEF IsSum, One
<1>10. \E f \in [SUBSET Q -> Int] : IsSum(f, F, Q) /\ ConfsOf(records, idx) = f[Q]
  <2> HIDE DEF it, F
  <2>1. it \in [SUBSET Q -> Int]
    BY <1>3, <1>4, <1>9, SumIsFunction
  <2>2. QED  BY <1>1, <1>9, <2>1
<1>11. QED  BY <1>10 DEF Q, V

(* The numbers of records in the bands, added up. *)
InBands(records) == MapThenSumSet(LAMBDA band : BandRows(records)[band].n, (1..5))

LEMMA BandSum ==
  ASSUME NEW records, IsFiniteSet((1..5)), \A band \in (1..5) : BandRows(records)[band].n \in Int
  PROVE  \E f \in [SUBSET (1..5) -> Int] :
           IsSum(f, [x \in (1..5) |-> BandRows(records)[x].n], (1..5)) /\ InBands(records) = f[(1..5)]
<1> DEFINE V(x) == BandRows(records)[x].n
           Q == (1..5)
           F == [x \in Q |-> V(x)]
           Eq(g) == g = [s \in SUBSET Q |-> IF s = {} THEN 0
                         ELSE LET x == CHOOSE x \in s : TRUE IN V(x) + g[s \ {x}]]
           it == CHOOSE g : Eq(g)
<1>1. InBands(records) = it[Q]
  BY DEF InBands, MapThenSumSet, MapThenFoldSet
<1>2. \A x \in Q : V(x) \in Int
  OBVIOUS
<1>3. IsFiniteSet(Q)
  BY FS_Interval
<1> HIDE DEF V, Q
<1>4. F \in [Q -> Int]
  BY <1>2
<1>5. PICK g \in [SUBSET Q -> Int] : IsSum(g, F, Q)
  BY <1>3, <1>4, SumExists
<1>6. \A s \in SUBSET Q : s # {} => One(s) \in Q /\ F[One(s)] = V(One(s))
  BY DEF One
<1>7. Eq(g)
  BY <1>5, <1>6 DEF IsSum, One
<1>8. Eq(it)
  BY <1>7
<1>9. IsSum(it, F, Q) /\ it = [s \in SUBSET Q |-> it[s]]
  <2> HIDE DEF it, F
  <2>1. QED  BY <1>6, <1>8 DEF IsSum, One
<1>10. \E f \in [SUBSET Q -> Int] : IsSum(f, F, Q) /\ InBands(records) = f[Q]
  <2> HIDE DEF it, F
  <2>1. it \in [SUBSET Q -> Int]
    BY <1>3, <1>4, <1>9, SumIsFunction
  <2>2. QED  BY <1>1, <1>9, <2>1
<1>11. QED  BY <1>10 DEF Q, V

(* The numbers of records in the bins, added up. *)
InBins(records) == MapThenSumSet(LAMBDA i : ReliabilityBins(records)[i].n, (0..(Bins - 1)))

LEMMA BinSum ==
  ASSUME NEW records, IsFiniteSet((0..(Bins - 1))), \A i \in (0..(Bins - 1)) : ReliabilityBins(records)[i].n \in Int
  PROVE  \E f \in [SUBSET (0..(Bins - 1)) -> Int] :
           IsSum(f, [x \in (0..(Bins - 1)) |-> ReliabilityBins(records)[x].n], (0..(Bins - 1))) /\ InBins(records) = f[(0..(Bins - 1))]
<1> DEFINE V(x) == ReliabilityBins(records)[x].n
           Q == (0..(Bins - 1))
           F == [x \in Q |-> V(x)]
           Eq(g) == g = [s \in SUBSET Q |-> IF s = {} THEN 0
                         ELSE LET x == CHOOSE x \in s : TRUE IN V(x) + g[s \ {x}]]
           it == CHOOSE g : Eq(g)
<1>1. InBins(records) = it[Q]
  BY DEF InBins, MapThenSumSet, MapThenFoldSet
<1>2. \A x \in Q : V(x) \in Int
  OBVIOUS
<1>3. IsFiniteSet(Q)
  BY FS_Interval
<1> HIDE DEF V, Q
<1>4. F \in [Q -> Int]
  BY <1>2
<1>5. PICK g \in [SUBSET Q -> Int] : IsSum(g, F, Q)
  BY <1>3, <1>4, SumExists
<1>6. \A s \in SUBSET Q : s # {} => One(s) \in Q /\ F[One(s)] = V(One(s))
  BY DEF One
<1>7. Eq(g)
  BY <1>5, <1>6 DEF IsSum, One
<1>8. Eq(it)
  BY <1>7
<1>9. IsSum(it, F, Q) /\ it = [s \in SUBSET Q |-> it[s]]
  <2> HIDE DEF it, F
  <2>1. QED  BY <1>6, <1>8 DEF IsSum, One
<1>10. \E f \in [SUBSET Q -> Int] : IsSum(f, F, Q) /\ InBins(records) = f[Q]
  <2> HIDE DEF it, F
  <2>1. it \in [SUBSET Q -> Int]
    BY <1>3, <1>4, <1>9, SumIsFunction
  <2>2. QED  BY <1>1, <1>9, <2>1
<1>11. QED  BY <1>10 DEF Q, V

(* What is wrong in the bins, added up. *)
OverBins(records) == MapThenSumSet(LAMBDA i : (IF ReliabilityBins(records)[i].n = 0 THEN 0 ELSE Abs(100 * ReliabilityBins(records)[i].acc[1] - ReliabilityBins(records)[i].conf)), (0..(Bins - 1)))

LEMMA GapSum ==
  ASSUME NEW records, IsFiniteSet((0..(Bins - 1))), \A i \in (0..(Bins - 1)) : (IF ReliabilityBins(records)[i].n = 0 THEN 0 ELSE Abs(100 * ReliabilityBins(records)[i].acc[1] - ReliabilityBins(records)[i].conf)) \in Int
  PROVE  \E f \in [SUBSET (0..(Bins - 1)) -> Int] :
           IsSum(f, [x \in (0..(Bins - 1)) |-> (IF ReliabilityBins(records)[x].n = 0 THEN 0 ELSE Abs(100 * ReliabilityBins(records)[x].acc[1] - ReliabilityBins(records)[x].conf))], (0..(Bins - 1))) /\ OverBins(records) = f[(0..(Bins - 1))]
<1> DEFINE V(x) == (IF ReliabilityBins(records)[x].n = 0 THEN 0 ELSE Abs(100 * ReliabilityBins(records)[x].acc[1] - ReliabilityBins(records)[x].conf))
           Q == (0..(Bins - 1))
           F == [x \in Q |-> V(x)]
           Eq(g) == g = [s \in SUBSET Q |-> IF s = {} THEN 0
                         ELSE LET x == CHOOSE x \in s : TRUE IN V(x) + g[s \ {x}]]
           it == CHOOSE g : Eq(g)
<1>1. OverBins(records) = it[Q]
  BY DEF OverBins, MapThenSumSet, MapThenFoldSet
<1>2. \A x \in Q : V(x) \in Int
  OBVIOUS
<1>3. IsFiniteSet(Q)
  BY FS_Interval
<1> HIDE DEF V, Q
<1>4. F \in [Q -> Int]
  BY <1>2
<1>5. PICK g \in [SUBSET Q -> Int] : IsSum(g, F, Q)
  BY <1>3, <1>4, SumExists
<1>6. \A s \in SUBSET Q : s # {} => One(s) \in Q /\ F[One(s)] = V(One(s))
  BY DEF One
<1>7. Eq(g)
  BY <1>5, <1>6 DEF IsSum, One
<1>8. Eq(it)
  BY <1>7
<1>9. IsSum(it, F, Q) /\ it = [s \in SUBSET Q |-> it[s]]
  <2> HIDE DEF it, F
  <2>1. QED  BY <1>6, <1>8 DEF IsSum, One
<1>10. \E f \in [SUBSET Q -> Int] : IsSum(f, F, Q) /\ OverBins(records) = f[Q]
  <2> HIDE DEF it, F
  <2>1. it \in [SUBSET Q -> Int]
    BY <1>3, <1>4, <1>9, SumIsFunction
  <2>2. QED  BY <1>1, <1>9, <2>1
<1>11. QED  BY <1>10 DEF Q, V

(* Labelled fields, as many as there are. *)
IsLabelled(r) ==
  /\ Len(r) \in Nat
  /\ \A j \in 1..Len(r) : r[j].label \in 0..1 /\ r[j].conf \in 0..100

LEMMA IndicesAreFinite ==
  ASSUME NEW n \in Nat, NEW idx \in SUBSET (1..n)
  PROVE  IsFiniteSet(idx) /\ Cardinality(idx) \in Nat
<1>1. IsFiniteSet(1..n)
  BY FS_Interval
<1>2. IsFiniteSet(idx)
  BY <1>1, FS_Subset
<1>3. QED  BY <1>2, FS_CardinalityType

LEMMA IntervalCounted ==
  ASSUME NEW a \in Int, NEW b \in Int
  PROVE  IsFiniteSet(a..b) /\ (a <= b + 1 => Cardinality(a..b) = b - a + 1)
<1>1. IsFiniteSet(a..b) /\ Cardinality(a..b) = IF a > b THEN 0 ELSE b - a + 1
  BY FS_Interval
<1>2. QED  BY <1>1

LEMMA AccuracyOf ==
  ASSUME NEW r, IsLabelled(r), NEW idx \in SUBSET (1..Len(r)), idx # {}
  PROVE  /\ Accuracy(r, idx)[1] \in Nat
         /\ Accuracy(r, idx)[2] = Cardinality(idx) /\ Cardinality(idx) \in Nat \ {0}
<1>1. IsFiniteSet(idx) /\ Cardinality(idx) \in Nat \ {0}
  BY IndicesAreFinite, FS_EmptySet DEF IsLabelled
<1>2. \A j \in idx : r[j].label \in Nat
  BY DEF IsLabelled
<1>3. PICK g \in [SUBSET idx -> Int] :
        /\ IsSum(g, [j \in idx |-> r[j].label], idx)
        /\ LabelsIn(r, idx) = g[idx]
  <2>1. \A j \in idx : r[j].label \in Int
    BY <1>2
  <2>2. QED  BY <1>1, <2>1, LabelSum
<1>4. g[idx] \in Nat
  <2> DEFINE F == [j \in idx |-> r[j].label]
  <2>1. \A x \in idx : F[x] \in Nat
    BY <1>2
  <2>2. Nat \in SUBSET Int /\ 0 \in Nat /\ \A a, b \in Nat : a + b \in Nat
    OBVIOUS
  <2> HIDE DEF F
  <2>3. IsSum(g, F, idx)
    BY <1>3 DEF F
  <2>4. QED  BY <1>1, <2>1, <2>2, <2>3, SumType
<1>5. Accuracy(r, idx) = <<g[idx], Cardinality(idx)>>
  BY <1>3 DEF Accuracy, LabelsIn, MapThenSumSet, MapThenFoldSet
<1>6. QED  BY <1>1, <1>4, <1>5

-----------------------------------------------------------------------------
(* search_threshold. *)
LEMMA AcceptIsLeast ==
  ASSUME NEW r, IsLabelled(r), NEW target, SearchThreshold(r, target).t_accept # None
  PROVE  LET t == SearchThreshold(r, target)
         IN /\ t.t_accept \in Candidates(r) /\ t.t_accept \in 0..100
            /\ Reaches(r, t.t_accept, target)
            /\ \A c \in Candidates(r) : Reaches(r, c, target) => t.t_accept <= c
            /\ t.accept = AtLeast(r, t.t_accept)
<1> DEFINE accepting == {c \in Candidates(r) : Reaches(r, c, target)}
<1>1. Candidates(r) \in SUBSET (0..100)
  BY DEF Candidates, IsLabelled
<1>2. accepting # {} /\ SearchThreshold(r, target).t_accept = Min(accepting)
  BY DEF SearchThreshold
<1>3. Min(accepting) \in accepting /\ \A c \in accepting : Min(accepting) <= c
  BY <1>1, <1>2, MinOfNaturals
<1>4. SearchThreshold(r, target).accept = AtLeast(r, Min(accepting))
  BY <1>2 DEF SearchThreshold
<1>5. QED
  <2> HIDE DEF accepting
  <2> DEFINE m == Min(accepting)
  <2>1. m \in Candidates(r) /\ Reaches(r, m, target)
    BY <1>3 DEF accepting
  <2>2. \A c \in Candidates(r) : Reaches(r, c, target) => m <= c
    BY <1>3 DEF accepting
  <2>3. QED  BY <1>1, <1>2, <1>4, <2>1, <2>2

LEMMA RejectIsGreatest ==
  ASSUME NEW r, IsLabelled(r), NEW target, SearchThreshold(r, target).t_reject # None
  PROVE  LET t == SearchThreshold(r, target)
         IN /\ t.t_reject \in 0..100 /\ HalfWrong(r, t.t_reject)
            /\ t.t_accept # None => t.t_reject <= t.t_accept
            /\ t.reject = Below(r, t.t_reject)
<1> DEFINE t == SearchThreshold(r, target)
           upper == IF t.t_accept = None THEN 100 ELSE t.t_accept
           rejecting == {c \in Candidates(r) : c <= upper /\ HalfWrong(r, c)}
<1>1. Candidates(r) \in SUBSET (0..100)
  BY DEF Candidates, IsLabelled
<1>2. rejecting # {} /\ t.t_reject = Max(rejecting) /\ t.reject = Below(r, Max(rejecting))
  BY DEF SearchThreshold
<1>3. Max(rejecting) \in rejecting
  <2>1. rejecting \in SUBSET Nat /\ \A c \in rejecting : c <= 100
    BY <1>1
  <2> HIDE DEF rejecting
  <2>2. QED  BY <1>2, <2>1, MaxOfNaturals
<1>4. QED
  <2> HIDE DEF t
  <2> DEFINE m == Max(rejecting)
  <2>1. m \in Candidates(r) /\ m <= upper /\ HalfWrong(r, m)
    BY <1>3
  <2> HIDE DEF m
  <2>2. t.t_accept # None => m <= t.t_accept
    BY <2>1
  <2>3. t.t_reject = m /\ t.reject = Below(r, m)
    BY <1>2 DEF m
  <2>4. t.t_reject \in 0..100 /\ HalfWrong(r, t.t_reject)
    BY <1>1, <2>1, <2>3
  <2>5. QED  BY <2>2, <2>3, <2>4 DEF t

LEMMA NoneAccepted ==
  ASSUME NEW r, NEW target
  PROVE  LET t == SearchThreshold(r, target)
         IN (t.t_accept = None => t.accept = {}) /\ (t.t_reject = None => t.reject = {})
BY DEF SearchThreshold

(* The places of records, and the confidence at one.                       *)
Indices(r) == 1..Len(r)
Conf(r, j) == r[j].conf

LEMMA Sides ==
  ASSUME NEW r, IsLabelled(r)
  PROVE  /\ \A j \in Indices(r) : Conf(r, j) \in 0..100
         /\ \A c : AtLeast(r, c) = {j \in Indices(r) : Conf(r, j) >= c}
         /\ \A c : Below(r, c) = {j \in Indices(r) : Conf(r, j) < c}
         /\ Candidates(r) = {Conf(r, j) : j \in Indices(r)}
BY DEF IsLabelled, Indices, Conf, AtLeast, Below, Candidates

LEMMA SidesOfThreshold ==
  ASSUME NEW r, IsLabelled(r), NEW c \in Int
  PROVE  /\ \A i, j \in Indices(r) : Conf(r, i) <= Conf(r, j) =>
              (i \in AtLeast(r, c) => j \in AtLeast(r, c)) /\ (j \in Below(r, c) => i \in Below(r, c))
         /\ \A d \in Int : c <= d => /\ AtLeast(r, d) \subseteq AtLeast(r, c)
                                     /\ AtLeast(r, d) \cap Below(r, c) = {}
<1>1. \A j \in Indices(r) : Conf(r, j) \in Int
  <2>1. \A j \in Indices(r) : Conf(r, j) \in 0..100
    BY Sides
  <2>2. QED  BY <2>1
<1>2. ASSUME NEW i \in Indices(r), NEW j \in Indices(r), Conf(r, i) <= Conf(r, j)
      PROVE  (i \in AtLeast(r, c) => j \in AtLeast(r, c)) /\ (j \in Below(r, c) => i \in Below(r, c))
  BY <1>1, <1>2, Sides
<1>3. ASSUME NEW d \in Int, c <= d
      PROVE  AtLeast(r, d) \subseteq AtLeast(r, c) /\ AtLeast(r, d) \cap Below(r, c) = {}
  BY <1>1, <1>3, Sides
<1>4. QED  BY <1>2, <1>3

(* A field of more confidence is in no worse bucket, and in one at most.   *)
LEMMA BucketsInOrder ==
  ASSUME NEW r, IsLabelled(r), NEW target
  PROVE  LET t == SearchThreshold(r, target)
         IN /\ \A i, j \in Indices(r) : Conf(r, i) <= Conf(r, j) =>
                 (i \in t.accept => j \in t.accept) /\ (j \in t.reject => i \in t.reject)
            /\ t.accept \cap t.reject = {}
<1> DEFINE t == SearchThreshold(r, target)
<1>2. CASE t.t_accept = None
  <2>1. t.accept = {}
    BY <1>2, NoneAccepted
  <2>2. CASE t.t_reject = None
    <3>1. t.reject = {}
      BY <2>2, NoneAccepted
    <3> HIDE DEF t
    <3>2. QED  BY <2>1, <3>1 DEF t
  <2>3. CASE t.t_reject # None
    <3>1. t.t_reject \in Int /\ t.reject = Below(r, t.t_reject)
      BY <2>3, RejectIsGreatest
    <3> HIDE DEF t
    <3>2. \A i, j \in Indices(r) : Conf(r, i) <= Conf(r, j) => (j \in t.reject => i \in t.reject)
      BY <3>1, SidesOfThreshold
    <3>3. QED  BY <2>1, <3>2 DEF t
  <2>4. QED  BY <2>2, <2>3
<1>3. CASE t.t_accept # None
  <2>1. t.t_accept \in Int /\ t.accept = AtLeast(r, t.t_accept)
    BY <1>3, AcceptIsLeast
  <2>2. \A i, j \in Indices(r) : Conf(r, i) <= Conf(r, j) => (i \in t.accept => j \in t.accept)
    <3> HIDE DEF t
    <3>1. QED  BY <2>1, SidesOfThreshold
  <2>3. CASE t.t_reject = None
    <3>1. t.reject = {}
      BY <2>3, NoneAccepted
    <3> HIDE DEF t
    <3>2. QED  BY <2>2, <3>1 DEF t
  <2>4. CASE t.t_reject # None
    <3>1. t.t_reject \in Int /\ t.reject = Below(r, t.t_reject) /\ t.t_reject <= t.t_accept
      BY <1>3, <2>4, RejectIsGreatest
    <3> HIDE DEF t
    <3>2. \A i, j \in Indices(r) : Conf(r, i) <= Conf(r, j) => (j \in t.reject => i \in t.reject)
      BY <3>1, SidesOfThreshold
    <3>3. t.accept \cap t.reject = {}
      BY <2>1, <3>1, SidesOfThreshold
    <3>4. QED  BY <2>2, <3>2, <3>3 DEF t
  <2>5. QED  BY <2>3, <2>4
<1>4. QED  BY <1>2, <1>3

(* Each bucket keeps its promise. *)
LEMMA BucketsKeepPromise ==
  ASSUME NEW r, IsLabelled(r), NEW target \in 0..100
  PROVE  LET t == SearchThreshold(r, target)
         IN /\ t.accept # {} => 100 * Accuracy(r, t.accept)[1] >= target * Cardinality(t.accept)
            /\ t.reject # {} => 2 * Accuracy(r, t.reject)[1] <= Cardinality(t.reject)
<1> DEFINE t == SearchThreshold(r, target)
<1>1. ASSUME t.accept # {} PROVE 100 * Accuracy(r, t.accept)[1] >= target * Cardinality(t.accept)
  <2>1. t.t_accept # None
    BY <1>1, NoneAccepted
  <2>2. Reaches(r, t.t_accept, target) /\ t.accept = AtLeast(r, t.t_accept)
    BY <2>1, AcceptIsLeast
  <2> HIDE DEF t
  <2>3. t.accept \in SUBSET (1..Len(r))
    BY <2>2 DEF AtLeast
  <2>4. Accuracy(r, t.accept)[2] = Cardinality(t.accept)
    BY <1>1, <2>3, AccuracyOf
  <2>5. QED  BY <2>2, <2>4 DEF Reaches
<1>2. ASSUME t.reject # {} PROVE 2 * Accuracy(r, t.reject)[1] <= Cardinality(t.reject)
  <2>1. t.t_reject # None
    BY <1>2, NoneAccepted
  <2>2. HalfWrong(r, t.t_reject) /\ t.reject = Below(r, t.t_reject)
    BY <2>1, RejectIsGreatest
  <2> HIDE DEF t
  <2>3. t.reject \in SUBSET (1..Len(r))
    BY <2>2 DEF Below
  <2>4. Accuracy(r, t.reject)[2] = Cardinality(t.reject)
    BY <1>2, <2>3, AccuracyOf
  <2>5. QED  BY <2>2, <2>4 DEF HalfWrong
<1>3. QED
  <2> HIDE DEF t
  <2>1. QED  BY <1>1, <1>2 DEF t

(* A higher target accepts no more. *)
LEMMA HigherAcceptsLess ==
  ASSUME NEW r, IsLabelled(r), None \notin Int,
         NEW low \in 0..100, NEW high \in 0..100, low <= high
  PROVE  SearchThreshold(r, high).accept \subseteq SearchThreshold(r, low).accept
<1> DEFINE h == SearchThreshold(r, high)
           l == SearchThreshold(r, low)
<1>1. SUFFICES ASSUME h.t_accept # None PROVE h.accept \subseteq l.accept
  <2>1. h.t_accept = None => h.accept = {}
    BY NoneAccepted
  <2> HIDE DEF h, l
  <2>2. QED  BY <2>1 DEF h, l
<1>2. /\ h.t_accept \in Candidates(r) /\ h.t_accept \in 0..100 /\ Reaches(r, h.t_accept, high)
      /\ h.accept = AtLeast(r, h.t_accept)
  BY <1>1, AcceptIsLeast
<1>3. Reaches(r, h.t_accept, low)
  <2> HIDE DEF h
  <2> DEFINE idx == AtLeast(r, h.t_accept)
  <2>1. idx \in SUBSET (1..Len(r)) /\ idx # {}
    <3>1. PICK j \in Indices(r) : h.t_accept = Conf(r, j)
      BY <1>2, Sides
    <3>2. j \in idx
      BY <1>2, <3>1, Sides
    <3>3. QED  BY <3>2 DEF AtLeast
  <2>2. Accuracy(r, idx)[1] \in Nat /\ Accuracy(r, idx)[2] \in Nat
    <3> HIDE DEF idx
    <3>1. QED  BY <2>1, AccuracyOf
  <2>3. 100 * Accuracy(r, idx)[1] >= high * Accuracy(r, idx)[2]
    BY <1>2 DEF Reaches
  <2>4. high * Accuracy(r, idx)[2] >= low * Accuracy(r, idx)[2]
    <3> HIDE DEF idx
    <3>1. QED  BY <2>2
  <2>5. QED
    <3>1. 100 * Accuracy(r, idx)[1] >= low * Accuracy(r, idx)[2]
      <4> HIDE DEF idx
      <4>1. QED  BY <2>2, <2>3, <2>4
    <3>2. QED  BY <3>1 DEF Reaches
<1>4. l.t_accept # None
  <2> DEFINE accepting == {c \in Candidates(r) : Reaches(r, c, low)}
  <2>0. Candidates(r) \in SUBSET (0..100)
    BY DEF Candidates, IsLabelled
  <2>1. accepting # {} /\ accepting \in SUBSET Nat
    <3> HIDE DEF h
    <3>1. QED  BY <1>2, <1>3, <2>0
  <2>2. l.t_accept = Min(accepting)
    BY <2>1 DEF SearchThreshold
  <2> HIDE DEF accepting, l
  <2>3. Min(accepting) \in accepting
    BY <2>1, MinOfNaturals
  <2>4. Min(accepting) \in Int
    <3>1. \A c \in accepting : c \in Int
      BY <2>1
    <3>2. QED  BY <2>3, <3>1, Zenon
  <2>5. QED  BY <2>2, <2>4
<1>5. /\ l.t_accept \in 0..100 /\ l.accept = AtLeast(r, l.t_accept)
      /\ \A c \in Candidates(r) : Reaches(r, c, low) => l.t_accept <= c
  BY <1>4, AcceptIsLeast
<1>6. QED
  <2> HIDE DEF h, l
  <2>1. l.t_accept <= h.t_accept
    BY <1>2, <1>3, <1>5
  <2>2. h.t_accept \in Int /\ l.t_accept \in Int
    BY <1>2, <1>5
  <2>3. AtLeast(r, h.t_accept) \subseteq AtLeast(r, l.t_accept)
    BY <2>1, <2>2, SidesOfThreshold
  <2>4. QED  BY <1>2, <1>5, <2>3

LEMMA BandsAreFinite == IsFiniteSet(1..5) /\ IsFiniteSet(0..(Bins - 1))
<1> DEFINE five == 5
           last == Bins - 1
<1>1. five \in Int /\ last \in Int /\ 0 \in Int /\ 1 \in Int
  BY DEF Bins
<1> HIDE DEF five, last
<1>2. IsFiniteSet(1..five) /\ IsFiniteSet(0..last)
  BY <1>1, IntervalCounted
<1>3. QED  BY <1>2 DEF five, last

(* Every confidence is in one band and one bin. *)
LEMMA BandOf ==
  ASSUME NEW c \in 0..100
  PROVE  /\ BandFor(c) \in 1..5
         /\ BandRanges[BandFor(c)][1] <= c /\ c <= BandRanges[BandFor(c)][2]
<1>1. c \in Int /\ 0 <= c /\ c <= 100
  OBVIOUS
<1>2. CASE c >= 98
  <2>1. BandFor(c) = 5  BY <1>2 DEF BandFor
  <2>2. QED  BY <1>1, <1>2, <2>1 DEF BandRanges
<1>3. CASE c >= 90 /\ ~(c >= 98)
  <2>1. BandFor(c) = 4  BY <1>3 DEF BandFor
  <2>2. QED  BY <1>1, <1>3, <2>1 DEF BandRanges
<1>4. CASE c >= 75 /\ ~(c >= 90)
  <2>1. BandFor(c) = 3  BY <1>1, <1>4 DEF BandFor
  <2>2. QED  BY <1>1, <1>4, <2>1 DEF BandRanges
<1>5. CASE c >= 50 /\ ~(c >= 75)
  <2>1. BandFor(c) = 2  BY <1>1, <1>5 DEF BandFor
  <2>2. QED  BY <1>1, <1>5, <2>1 DEF BandRanges
<1>6. CASE ~(c >= 50)
  <2>1. BandFor(c) = 1  BY <1>1, <1>6 DEF BandFor
  <2>2. QED  BY <1>1, <1>6, <2>1 DEF BandRanges
<1>7. QED  BY <1>2, <1>3, <1>4, <1>5, <1>6

(* The bin of a confidence.                                                *)
BinFor(c) == IF c = 100 THEN 9 ELSE c \div 10

LEMMA BinOf ==
  ASSUME NEW c \in 0..100
  PROVE  BinFor(c) \in 0..(Bins - 1) /\ \A i \in 0..(Bins - 1) : InBin(c, i) <=> BinFor(c) = i
<1>1. c \in Int /\ 0 <= c /\ c <= 100
  OBVIOUS
<1>2. CASE c = 100
  BY <1>2 DEF BinFor, InBin, Bins
<1>3. CASE c # 100
  <2>1. c \div 10 \in 0..9 /\ 10 * (c \div 10) <= c /\ c < 10 * (c \div 10) + 10
    BY <1>1, <1>3
  <2>2. QED
    <3> DEFINE q == c \div 10
    <3>1. BinFor(c) = q
      BY <1>3 DEF BinFor
    <3> HIDE DEF q
    <3>2. q \in 0..9 /\ 10 * q <= c /\ c < 10 * q + 10
      BY <2>1 DEF q
    <3>3. QED  BY <1>1, <1>3, <3>1, <3>2 DEF InBin, Bins
<1>4. QED  BY <1>2, <1>3

LEMMA BandsHoldAll ==
  ASSUME NEW r, IsLabelled(r)
  PROVE  InBands(r) = Len(r)
<1> DEFINE class == [j \in Indices(r) |-> BandFor(Conf(r, j))]
           F == [b \in 1..5 |-> BandRows(r)[b].n]
<1>1. IsFiniteSet(Indices(r)) /\ Cardinality(Indices(r)) = Len(r)
  <2>1. 1 \in Int /\ Len(r) \in Nat
    BY DEF IsLabelled
  <2> DEFINE n == Len(r)
  <2> HIDE DEF n
  <2>2. IsFiniteSet(1..n) /\ Cardinality(1..n) = n
    BY <2>1, IntervalCounted DEF n
  <2>3. QED  BY <2>2 DEF Indices, n
<1>2. class \in [Indices(r) -> 1..5]
  BY Sides, BandOf
<1>3. \A b \in 1..5 : F[b] = Cardinality({j \in Indices(r) : class[j] = b})
  <2>1. ASSUME NEW b \in 1..5 PROVE F[b] = Cardinality({j \in Indices(r) : class[j] = b})
    <3>1. F[b] = Cardinality({j \in Indices(r) : BandFor(Conf(r, j)) = b})
      BY DEF BandRows, Indices, Conf
    <3>2. {j \in Indices(r) : BandFor(Conf(r, j)) = b} = {j \in Indices(r) : class[j] = b}
      OBVIOUS
    <3>3. QED  BY <3>1, <3>2
  <2>2. QED  BY <2>1
<1>4. \A b \in 1..5 : BandRows(r)[b].n \in Int
  <2>1. ASSUME NEW b \in 1..5 PROVE F[b] \in Int
    <3> DEFINE I == {j \in Indices(r) : class[j] = b}
    <3>1. Cardinality(I) \in Nat
      <4>1. I \in SUBSET Indices(r)
        OBVIOUS
      <4> HIDE DEF I
      <4>2. QED  BY <1>1, <4>1, FS_Subset, FS_CardinalityType
    <3>2. F[b] = Cardinality(I)
      BY <1>3
    <3> HIDE DEF F, I
    <3>3. QED  BY <3>1, <3>2
  <2>2. QED  BY <2>1
<1>5. PICK g \in [SUBSET (1..5) -> Int] : IsSum(g, F, 1..5) /\ InBands(r) = g[1..5]
  <2>1. IsFiniteSet(1..5)
    BY BandsAreFinite
  <2>2. QED  BY <1>4, <2>1, BandSum
<1>6. IsFiniteSet(1..5)
  BY BandsAreFinite
<1>7. g[1..5] = Cardinality(Indices(r))
  <2> HIDE DEF F, class
  <2>1. QED  BY <1>1, <1>2, <1>3, <1>5, <1>6, SumOfClasses
<1>8. QED  BY <1>1, <1>5, <1>7

LEMMA BinsHoldAll ==
  ASSUME NEW r, IsLabelled(r)
  PROVE  /\ InBins(r) = Len(r)
         /\ \A i \in 0..(Bins - 1) : ReliabilityBins(r)[i].n \in Nat
<1> DEFINE class == [j \in Indices(r) |-> BinFor(Conf(r, j))]
           B == 0..(Bins - 1)
           F == [i \in B |-> ReliabilityBins(r)[i].n]
<1>1. IsFiniteSet(Indices(r)) /\ Cardinality(Indices(r)) = Len(r)
  <2>1. 1 \in Int /\ Len(r) \in Nat
    BY DEF IsLabelled
  <2> DEFINE n == Len(r)
  <2> HIDE DEF n
  <2>2. IsFiniteSet(1..n) /\ Cardinality(1..n) = n
    BY <2>1, IntervalCounted DEF n
  <2>3. QED  BY <2>2 DEF Indices, n
<1>2. class \in [Indices(r) -> B]
  BY Sides, BinOf
<1>3. \A i \in B : F[i] = Cardinality({j \in Indices(r) : class[j] = i})
  <2>1. ASSUME NEW i \in B PROVE F[i] = Cardinality({j \in Indices(r) : class[j] = i})
    <3>1. F[i] = Cardinality({j \in Indices(r) : InBin(Conf(r, j), i)})
      BY DEF ReliabilityBins, Indices, Conf
    <3>2. {j \in Indices(r) : InBin(Conf(r, j), i)} = {j \in Indices(r) : class[j] = i}
      BY Sides, BinOf
    <3>3. QED  BY <3>1, <3>2
  <2>2. QED  BY <2>1
<1>4. \A i \in B : ReliabilityBins(r)[i].n \in Nat
  <2>1. ASSUME NEW i \in B PROVE F[i] \in Nat
    <3> DEFINE I == {j \in Indices(r) : class[j] = i}
    <3>1. Cardinality(I) \in Nat
      <4>1. I \in SUBSET Indices(r)
        OBVIOUS
      <4> HIDE DEF I
      <4>2. QED  BY <1>1, <4>1, FS_Subset, FS_CardinalityType
    <3>2. F[i] = Cardinality(I)
      BY <1>3
    <3> HIDE DEF F, I
    <3>3. QED  BY <3>1, <3>2
  <2>2. QED  BY <2>1
<1>5. IsFiniteSet(B)
  BY BandsAreFinite
<1>6. PICK g \in [SUBSET B -> Int] : IsSum(g, F, B) /\ InBins(r) = g[B]
  <2>1. \A i \in B : ReliabilityBins(r)[i].n \in Int
    BY <1>4
  <2>2. QED  BY <1>5, <2>1, BinSum
<1>7. g[B] = Cardinality(Indices(r))
  <2> HIDE DEF F, class, B
  <2>1. QED  BY <1>1, <1>2, <1>3, <1>5, <1>6, SumOfClasses
<1>8. QED  BY <1>1, <1>4, <1>6, <1>7

(* The records of a bin: so many are right, and so many are expected to be. *)
LEMMA FairBinHasNoGap ==
  ASSUME NEW r, IsLabelled(r), \A j \in Indices(r) : r[j].conf = 100 * r[j].label,
         NEW i \in 0..(Bins - 1)
  PROVE  LET b == ReliabilityBins(r)[i]
         IN (IF b.n = 0 THEN 0 ELSE Abs(100 * b.acc[1] - b.conf)) = 0
<1> DEFINE b == ReliabilityBins(r)[i]
           idx == {j \in Indices(r) : InBin(Conf(r, j), i)}
<1>1. b.n = Cardinality(idx) /\ b.acc = Accuracy(r, idx) /\ b.conf = ConfsOf(r, idx)
  BY DEF ReliabilityBins, Indices, Conf, ConfsOf, MapThenSumSet, MapThenFoldSet
<1>2. idx \in SUBSET Indices(r)
  OBVIOUS
<1> HIDE DEF idx, b
<1>3. SUFFICES ASSUME b.n # 0 PROVE Abs(100 * b.acc[1] - b.conf) = 0
  BY DEF b
<1>4. IsFiniteSet(idx) /\ idx # {}
  BY <1>1, <1>2, <1>3, IndicesAreFinite, FS_EmptySet DEF Indices, IsLabelled
<1>5. \A j \in idx : r[j].label \in Int /\ r[j].conf = 100 * r[j].label
  <2>1. \A j \in idx : r[j].label \in 0..1
    BY <1>2 DEF IsLabelled, Indices
  <2>2. \A j \in idx : r[j].label \in Int
    BY <2>1
  <2>3. QED  BY <1>2, <2>2
<1>6. PICK l \in [SUBSET idx -> Int] : IsSum(l, [x \in idx |-> r[x].label], idx) /\ LabelsIn(r, idx) = l[idx]
  BY <1>4, <1>5, LabelSum
<1>7. PICK c \in [SUBSET idx -> Int] : IsSum(c, [x \in idx |-> r[x].conf], idx) /\ ConfsOf(r, idx) = c[idx]
  <2>1. \A j \in idx : r[j].conf \in Int
    BY <1>5
  <2>2. QED  BY <1>4, <2>1, ConfSum
<1>8. c[idx] = 100 * l[idx]
  <2> DEFINE F == [x \in idx |-> r[x].label]
             F2 == [x \in idx |-> r[x].conf]
             k == 100
  <2>1. IsScaled(F2, k, F, idx)
    BY <1>5 DEF IsScaled
  <2>2. IsSum(l, F, idx) /\ IsSum(c, F2, idx) /\ k \in Int
    BY <1>6, <1>7
  <2> HIDE DEF F, F2, k
  <2>3. \A s \in SUBSET idx : c[s] = k * l[s]
    BY <1>4, <2>1, <2>2, SumScaled
  <2>4. QED  BY <2>3 DEF k
<1>9. b.acc[1] = l[idx]
  BY <1>1, <1>4, <1>6 DEF Accuracy, LabelsIn, MapThenSumSet, MapThenFoldSet
<1>10. QED  BY <1>1, <1>6, <1>7, <1>8, <1>9 DEF Abs

LEMMA FairBinsHaveNoGap ==
  ASSUME NEW r, IsLabelled(r), \A j \in Indices(r) : r[j].conf = 100 * r[j].label
  PROVE  ComputeEce(r) = 0
<1> DEFINE B == 0..(Bins - 1)
           V(i) == (IF ReliabilityBins(r)[i].n = 0 THEN 0
                    ELSE Abs(100 * ReliabilityBins(r)[i].acc[1] - ReliabilityBins(r)[i].conf))
           F == [i \in B |-> V(i)]
<1>1. \A i \in B : V(i) = 0
  BY FairBinHasNoGap
<1>2. PICK g \in [SUBSET B -> Int] : IsSum(g, F, B) /\ OverBins(r) = g[B]
  <2>1. \A i \in B : V(i) \in Int
    <3> HIDE DEF V, B
    <3>1. QED  BY <1>1
  <2>2. QED  BY <2>1, BandsAreFinite, GapSum
<1>3. g[B] \in {0}
  <2> HIDE DEF V
  <2>1. \A i \in B : F[i] \in {0}
    BY <1>1
  <2>2. {0} \in SUBSET Int /\ 0 \in {0} /\ \A a, b \in {0} : a + b \in {0}
    OBVIOUS
  <2>3. IsFiniteSet(B) /\ IsSum(g, F, B)
    BY <1>2, BandsAreFinite
  <2> HIDE DEF F, B
  <2>4. \A s \in SUBSET B : g[s] \in {0}
    BY <2>1, <2>2, <2>3, SumType
  <2>5. QED  BY <2>4
<1>4. ComputeEce(r) = OverBins(r)
  BY DEF ComputeEce, OverBins, MapThenSumSet, MapThenFoldSet
<1>5. QED  BY <1>2, <1>3, <1>4

(* ThresholdsKeepPromise for every sequence of labelled fields, whatever the *)
(* confidences and targets.                                                *)
THEOREM ThresholdsKept ==
  ASSUME None \notin Int, Targets \subseteq 0..100,
         case \in [kind : {"threshold"}, fields : Seq([label : 0..1, conf : 0..100]), target : 0..100]
  PROVE  ThresholdsKeepPromise
<1> DEFINE r == Fields(case)
           t == SearchThreshold(r, case.target)
<1>1. Len(r) = Len(case.fields) /\ Len(r) \in Nat
      /\ \A j \in 1..Len(r) : r[j] = Record(case.fields[j].label, case.fields[j].conf)
  <2>1. case.fields \in Seq([label : 0..1, conf : 0..100])
    OBVIOUS
  <2>2. Len(case.fields) \in Nat
    BY <2>1, LenProperties
  <2>3. r = [j \in 1..Len(case.fields) |-> Record(case.fields[j].label, case.fields[j].conf)]
    BY DEF Fields
  <2>4. QED  BY <2>2, <2>3
<1>2. IsLabelled(r)
  <2>1. ASSUME NEW j \in 1..Len(r) PROVE r[j].label \in 0..1 /\ r[j].conf \in 0..100
    <3>1. case.fields[j] \in [label : 0..1, conf : 0..100]
      <4> DEFINE n == Len(case.fields)
      <4>1. case.fields \in [1..n -> [label : 0..1, conf : 0..100]]
        BY LenProperties
      <4>2. j \in 1..n
        BY <1>1, <2>1
      <4> HIDE DEF n
      <4>3. QED  BY <4>1, <4>2
    <3>2. case.fields[j].label \in 0..1 /\ case.fields[j].conf \in 0..100
      BY <3>1
    <3>3. r[j] = Record(case.fields[j].label, case.fields[j].conf)
      BY <1>1, <2>1
    <3>4. r[j].label = case.fields[j].label /\ r[j].conf = case.fields[j].conf
      BY <3>3 DEF Record
    <3>5. QED  BY <3>2, <3>4
  <2>2. QED  BY <1>1, <2>1 DEF IsLabelled
<1>3. case.target \in 0..100
  OBVIOUS
<1> HIDE DEF r
<1>4. \A i, j \in 1..Len(r) : r[i].conf <= r[j].conf =>
        (i \in t.accept => j \in t.accept) /\ (j \in t.reject => i \in t.reject)
  BY <1>2, BucketsInOrder DEF Indices, Conf
<1>5. t.accept \cap t.reject = {}
  BY <1>2, BucketsInOrder
<1>6. /\ t.accept # {} => 100 * Accuracy(r, t.accept)[1] >= case.target * Cardinality(t.accept)
      /\ t.reject # {} => 2 * Accuracy(r, t.reject)[1] <= Cardinality(t.reject)
  BY <1>2, <1>3, BucketsKeepPromise
<1>7. \A target \in Targets : target > case.target => SearchThreshold(r, target).accept \subseteq t.accept
  <2>1. ASSUME NEW target \in Targets, target > case.target
        PROVE  SearchThreshold(r, target).accept \subseteq SearchThreshold(r, case.target).accept
    <3> DEFINE low == case.target
    <3>1. target \in 0..100 /\ low \in 0..100 /\ target > low
      BY <1>3, <2>1
    <3> HIDE DEF low
    <3>2. low <= target
      BY <3>1
    <3>3. SearchThreshold(r, target).accept \subseteq SearchThreshold(r, low).accept
      BY <1>2, <3>1, <3>2, HigherAcceptsLess
    <3>4. QED  BY <3>3 DEF low
  <2>2. QED  BY <2>1
<1>8. /\ MapThenSumSet(LAMBDA band : BandRows(r)[band].n, 1..5) = Len(r)
      /\ MapThenSumSet(LAMBDA i : ReliabilityBins(r)[i].n, 0..(Bins - 1)) = Len(r)
  <2>1. InBands(r) = Len(r) /\ InBins(r) = Len(r)
    BY <1>2, BandsHoldAll, BinsHoldAll
  <2>2. QED  BY <2>1 DEF InBands, InBins
<1>9. \A j \in 1..Len(r) : BandRanges[BandFor(r[j].conf)][1] <= r[j].conf
                           /\ r[j].conf <= BandRanges[BandFor(r[j].conf)][2]
  BY <1>2, BandOf DEF IsLabelled
<1>10. (\A j \in 1..Len(r) : r[j].conf = 100 * r[j].label) => ComputeEce(r) = 0
  BY <1>2, FairBinsHaveNoGap DEF Indices
<1>11. QED
  <2> HIDE DEF t
  <2>1. QED  BY <1>4, <1>5, <1>6, <1>7, <1>8, <1>9, <1>10 DEF ThresholdsKeepPromise, r, t

-----------------------------------------------------------------------------
(* check_file: a statement file and the accounts that explain it.          *)

(* What may be printed.                                                    *)
Posted == Int \cup {None}

(* A row of a statement.                                                   *)
StatedRow == [page : Int, date : Posted, debit : Posted, credit : Posted, amount : Posted, balance : Posted]

(* A row says what it moves: it names a side, or prints an amount and the  *)
(* balance after it.                                                       *)
Moving(row) == Net(row) # None \/ None \notin {row.amount, row.balance}

LedgerState ==
  [n : Nat, running : Posted, page : Posted, checked : Nat, bad : SUBSET Nat, gaps : SUBSET Int,
   inferred : SUBSET Nat, debit : Int, credit : Int]

LEMMA NetType ==
  ASSUME None \notin Int, NEW row \in StatedRow
  PROVE  Net(row) \in Posted
<1>1. row.debit \in Posted /\ row.credit \in Posted
  BY DEF StatedRow
<1>2. OrZero(row.debit) \in Int /\ OrZero(row.credit) \in Int
  BY <1>1 DEF OrZero, Posted
<1>3. QED  BY <1>2 DEF Net, Posted

LEMMA CheckRowType ==
  ASSUME None \notin Int, NEW stmt, NEW s \in LedgerState, NEW row \in StatedRow,
         PageOpening(stmt, row.page) \in Posted
  PROVE  CheckRow(stmt, s, row) \in LedgerState
<1> DEFINE starts   == s.page # None /\ row.page # s.page
           declared == PageOpening(stmt, row.page)
           jump     == starts /\ None \notin {declared, s.running} /\ declared # s.running
           running  == IF jump THEN declared ELSE s.running
           unsided  == /\ Net(row) = None
                       /\ None \notin {row.amount, running, row.balance}
           delta    == row.balance - running
           inferred == unsided /\ delta # 0 /\ delta \in {row.amount, -row.amount}
           net      == IF inferred THEN delta ELSE Net(row)
           expected == IF None \in {running, net} THEN None ELSE running + net
           excluded == \/ inferred \/ (s.n = 0 /\ Derived(stmt))
                       \/ None \in {expected, row.balance}
           checked  == (unsided /\ ~inferred) \/ ~excluded
           bad      == checked /\ expected # row.balance
           t == CheckRow(stmt, s, row)
<1>1. t = [n        |-> s.n + 1,
           running  |-> IF row.balance # None THEN row.balance ELSE expected,
           page     |-> row.page,
           checked  |-> s.checked + (IF checked THEN 1 ELSE 0),
           bad      |-> s.bad \cup (IF bad THEN {s.n + 1} ELSE {}),
           gaps     |-> s.gaps \cup (IF jump \/ (bad /\ starts) THEN {row.page} ELSE {}),
           inferred |-> s.inferred \cup (IF inferred THEN {s.n + 1} ELSE {}),
           debit    |-> s.debit + (IF net # None /\ net < 0 THEN -net ELSE 0),
           credit   |-> s.credit + (IF net # None /\ net > 0 THEN net ELSE 0)]
  BY DEF CheckRow
<1>2. /\ s.n \in Nat /\ s.running \in Posted /\ s.checked \in Nat /\ s.bad \in SUBSET Nat
      /\ s.gaps \in SUBSET Int /\ s.inferred \in SUBSET Nat /\ s.debit \in Int /\ s.credit \in Int
  BY DEF LedgerState
<1>3. row.page \in Int /\ row.balance \in Posted /\ row.amount \in Posted
  BY DEF StatedRow
<1>4. declared \in Posted /\ running \in Posted
  BY <1>2
<1>5. Net(row) \in Posted
  BY NetType
<1> HIDE DEF starts, declared, jump, running
<1>6. inferred => delta \in Int
  BY <1>3, <1>4 DEF Posted
<1>7. net \in Posted
  BY <1>5, <1>6 DEF Posted
<1> HIDE DEF unsided, delta, inferred, net
<1>8. expected \in Posted
  BY <1>4, <1>7 DEF Posted
<1> HIDE DEF excluded, checked, bad, expected
<1>9. /\ t.n \in Nat /\ t.running \in Posted /\ t.page \in Posted /\ t.checked \in Nat
      /\ t.bad \in SUBSET Nat /\ t.gaps \in SUBSET Int /\ t.inferred \in SUBSET Nat
  BY <1>1, <1>2, <1>3, <1>8 DEF Posted
<1>10. t.debit \in Int /\ t.credit \in Int
  <2>1. t.debit = s.debit + (IF net # None /\ net < 0 THEN -net ELSE 0)
        /\ t.credit = s.credit + (IF net # None /\ net > 0 THEN net ELSE 0)
    BY <1>1
  <2> HIDE DEF t
  <2>2. QED  BY <1>2, <1>7, <2>1 DEF Posted
<1>11. t = [n |-> t.n, running |-> t.running, page |-> t.page, checked |-> t.checked, bad |-> t.bad,
            gaps |-> t.gaps, inferred |-> t.inferred, debit |-> t.debit, credit |-> t.credit]
  BY <1>1
<1>12. QED
  <2> HIDE DEF t
  <2>1. t \in LedgerState
    BY <1>9, <1>10, <1>11 DEF LedgerState
  <2>2. QED  BY <2>1 DEF t

(* Row m of what it moves is as true as the rows before it.                *)
Follows(stmt, s, row, m) ==
  /\ m \in Sided(row) /\ row.balance \in {None, s.running + m}
  /\ s.page # None /\ row.page # s.page => PageOpening(stmt, row.page) \in {None, s.running}

Debit(m)  == IF m < 0 THEN -m ELSE 0
(* What a move credits.                                                    *)
Credit(m) == IF m > 0 THEN m ELSE 0

LEMMA SidedType ==
  ASSUME None \notin Int, NEW row \in StatedRow, Moving(row), NEW m \in Sided(row)
  PROVE  m \in Int
<1>1. row.amount \in Posted
  BY DEF StatedRow
<1>2. CASE Net(row) # None
  BY <1>2, NetType DEF Sided, Posted
<1>3. CASE Net(row) = None
  <2>1. row.amount \in Int
    BY <1>1, <1>3 DEF Moving, Posted
  <2>2. QED  BY <1>3, <2>1 DEF Sided
<1>4. QED  BY <1>2, <1>3

(* A row that is true is not marked, and leaves the balance after it.      *)
LEMMA TrueRowPasses ==
  ASSUME None \notin Int, NEW stmt, NEW s \in LedgerState, NEW row \in StatedRow,
         PageOpening(stmt, row.page) \in Posted, Moving(row), s.running \in Int,
         NEW m, Follows(stmt, s, row, m)
  PROVE  LET t == CheckRow(stmt, s, row)
         IN /\ t.bad = s.bad /\ t.gaps = s.gaps /\ t.running = s.running + m
            /\ t.debit = s.debit + Debit(m) /\ t.credit = s.credit + Credit(m)
<1> DEFINE starts   == s.page # None /\ row.page # s.page
           declared == PageOpening(stmt, row.page)
           jump     == starts /\ None \notin {declared, s.running} /\ declared # s.running
           running  == IF jump THEN declared ELSE s.running
           unsided  == /\ Net(row) = None
                       /\ None \notin {row.amount, running, row.balance}
           delta    == row.balance - running
           inferred == unsided /\ delta # 0 /\ delta \in {row.amount, -row.amount}
           net      == IF inferred THEN delta ELSE Net(row)
           expected == IF None \in {running, net} THEN None ELSE running + net
           excluded == \/ inferred \/ (s.n = 0 /\ Derived(stmt))
                       \/ None \in {expected, row.balance}
           checked  == (unsided /\ ~inferred) \/ ~excluded
           bad      == checked /\ expected # row.balance
           t == CheckRow(stmt, s, row)
<1>1. /\ t.running = IF row.balance # None THEN row.balance ELSE expected
      /\ t.bad = s.bad \cup (IF bad THEN {s.n + 1} ELSE {})
      /\ t.gaps = s.gaps \cup (IF jump \/ (bad /\ starts) THEN {row.page} ELSE {})
      /\ t.debit = s.debit + (IF net # None /\ net < 0 THEN -net ELSE 0)
      /\ t.credit = s.credit + (IF net # None /\ net > 0 THEN net ELSE 0)
  BY DEF CheckRow
<1> HIDE DEF t
<1>2. m \in Int
  BY SidedType DEF Follows
<1>3. ~jump /\ running = s.running
  BY DEF Follows
<1> HIDE DEF jump, running, starts, declared
<1>4. row.balance \in {None, s.running + m}
  BY DEF Follows
<1>5. net = m /\ (inferred \/ (~unsided /\ Net(row) = m))
  <2>1. CASE Net(row) # None
    BY <2>1 DEF Follows, Sided
  <2>2. CASE Net(row) = None
    <3>1. row.amount \in Int /\ row.balance = s.running + m
      BY <1>4, <2>2 DEF Moving, StatedRow, Posted
    <3>2. m \in {row.amount, -row.amount} \ {0}
      BY <2>2 DEF Follows, Sided
    <3>3. delta = m
      BY <1>2, <1>3, <3>1
    <3>4. unsided
      BY <1>2, <1>3, <2>2, <3>1
    <3> HIDE DEF unsided, delta
    <3>5. inferred
      BY <3>2, <3>3, <3>4
    <3>6. QED  BY <3>3, <3>5
  <2>3. QED  BY <2>1, <2>2
<1> HIDE DEF unsided, inferred, net
<1>6. expected = s.running + m /\ expected # None
  BY <1>2, <1>3, <1>5
<1> HIDE DEF expected
<1>7. ~bad
  BY <1>4, <1>5, <1>6
<1> HIDE DEF bad, excluded, checked
<1>8. t.bad = s.bad /\ t.gaps = s.gaps
  BY <1>1, <1>3, <1>7
<1>9. t.running = s.running + m
  BY <1>1, <1>4, <1>6
<1>10. t.debit = s.debit + Debit(m) /\ t.credit = s.credit + Credit(m)
  BY <1>1, <1>2, <1>5 DEF Debit, Credit
<1>11. QED  BY <1>8, <1>9, <1>10 DEF t

(* What a row moves, as far as check_file can tell.                        *)
MoveOf(s, row) == IF Net(row) # None THEN Net(row) ELSE row.balance - s.running

(* A row that is not marked is true.                                       *)
LEMMA PassedRowIsTrue ==
  ASSUME None \notin Int, NEW stmt, NEW s \in LedgerState, NEW row \in StatedRow,
         PageOpening(stmt, row.page) \in Posted, Moving(row), s.running \in Int,
         s.n = 0 /\ Derived(stmt) => Net(row) # None /\ row.balance = s.running + Net(row),
         s.n + 1 \notin CheckRow(stmt, s, row).bad, row.page \notin CheckRow(stmt, s, row).gaps
  PROVE  Follows(stmt, s, row, MoveOf(s, row))
<1> DEFINE starts   == s.page # None /\ row.page # s.page
           declared == PageOpening(stmt, row.page)
           jump     == starts /\ None \notin {declared, s.running} /\ declared # s.running
           running  == IF jump THEN declared ELSE s.running
           unsided  == /\ Net(row) = None
                       /\ None \notin {row.amount, running, row.balance}
           delta    == row.balance - running
           inferred == unsided /\ delta # 0 /\ delta \in {row.amount, -row.amount}
           net      == IF inferred THEN delta ELSE Net(row)
           expected == IF None \in {running, net} THEN None ELSE running + net
           excluded == \/ inferred \/ (s.n = 0 /\ Derived(stmt))
                       \/ None \in {expected, row.balance}
           checked  == (unsided /\ ~inferred) \/ ~excluded
           bad      == checked /\ expected # row.balance
           t == CheckRow(stmt, s, row)
<1>1. /\ t.bad = s.bad \cup (IF bad THEN {s.n + 1} ELSE {})
      /\ t.gaps = s.gaps \cup (IF jump \/ (bad /\ starts) THEN {row.page} ELSE {})
  BY DEF CheckRow
<1>2. ~bad /\ ~jump
  <2> HIDE DEF bad, jump, t
  <2>1. s.n + 1 \notin t.bad /\ row.page \notin t.gaps
    BY DEF t
  <2>2. QED  BY <1>1, <2>1
<1> HIDE DEF t
<1>3. running = s.running /\ (starts => declared \in {None, s.running})
  BY <1>2
<1> HIDE DEF jump, running
<1>4. ASSUME Net(row) # None
      PROVE  MoveOf(s, row) = Net(row) /\ row.balance \in {None, s.running + Net(row)}
  <2>1. ~unsided /\ ~inferred /\ net = Net(row)
    BY <1>4
  <2> HIDE DEF unsided, inferred, net
  <2>2. Net(row) \in Int
    BY <1>4, NetType DEF Posted
  <2>3. expected = s.running + Net(row) /\ expected # None
    BY <1>3, <2>1, <2>2
  <2> HIDE DEF expected
  <2>4. CASE s.n = 0 /\ Derived(stmt)
    BY <1>4, <2>4 DEF MoveOf
  <2>5. CASE ~(s.n = 0 /\ Derived(stmt))
    <3>1. row.balance = None \/ checked
      BY <2>1, <2>3, <2>5
    <3>2. row.balance = None \/ expected = row.balance
      BY <1>2, <3>1
    <3>3. QED  BY <1>4, <2>3, <3>2 DEF MoveOf
  <2>6. QED  BY <2>4, <2>5
<1>5. ASSUME Net(row) = None
      PROVE  /\ MoveOf(s, row) \in {row.amount, -row.amount} \ {0}
             /\ row.balance \in {None, s.running + MoveOf(s, row)}
  <2>1. row.amount \in Int /\ row.balance \in Int
    BY <1>5 DEF Moving, StatedRow, Posted
  <2>2. unsided
    BY <1>3, <1>5, <2>1
  <2>3. inferred
    <3>1. SUFFICES ASSUME ~inferred PROVE FALSE
      OBVIOUS
    <3>2. net = None
      BY <1>5, <3>1
    <3> HIDE DEF net, inferred, unsided
    <3>3. expected = None /\ checked
      BY <2>2, <3>1, <3>2
    <3> HIDE DEF expected, checked
    <3>4. bad
      BY <2>1, <3>3
    <3>5. QED  BY <1>2, <3>4
  <2>4. delta \in {row.amount, -row.amount} \ {0} /\ delta = MoveOf(s, row)
    BY <1>3, <1>5, <2>3 DEF MoveOf
  <2>5. row.balance = s.running + MoveOf(s, row)
    BY <1>5, <2>1 DEF MoveOf
  <2>6. QED  BY <2>4, <2>5
<1>6. MoveOf(s, row) \in Sided(row)
  BY <1>4, <1>5 DEF Sided
<1>7. row.balance \in {None, s.running + MoveOf(s, row)}
  BY <1>4, <1>5
<1>8. QED  BY <1>3, <1>6, <1>7 DEF Follows

(* What each row moves.                                                    *)
IsNet(net, n) == \A k \in 1..n : net[k] \in Int

LEMMA SumUpTo ==
  ASSUME NEW n \in Nat, NEW F, IsNet(F, n), NEW g, IsSum(g, F, 1..n)
  PROVE  g[1..0] = 0 /\ \A k \in 1..n : g[1..k] = g[1..(k - 1)] + F[k]
<1>1. IsFiniteSet(1..n)
  BY FS_Interval
<1>2. g[1..0] = 0
  <2>1. 1..0 = {}
    OBVIOUS
  <2>2. g[{}] = 0
    BY DEF IsSum
  <2>3. QED  BY <2>1, <2>2
<1>3. ASSUME NEW k \in 1..n PROVE g[1..k] = g[1..(k - 1)] + F[k]
  <2> DEFINE S == 1..n
             T == 1..k
             U == 1..(k - 1)
  <2>1. T \in SUBSET S /\ k \in T /\ T \ {k} = U /\ U \in SUBSET S
    OBVIOUS
  <2>2. IsFiniteSet(S) /\ (\A x \in S : F[x] \in Int) /\ IsSum(g, F, S)
    BY <1>1 DEF IsNet
  <2>3. Int \in SUBSET Int /\ 0 \in Int /\ \A x, y \in Int : x + y \in Int
    OBVIOUS
  <2>4. F[k] \in Int
    BY DEF IsNet
  <2> HIDE DEF S, T, U
  <2>5. \A s \in SUBSET S : \A x \in s : g[s] = F[x] + g[s \ {x}]
    <3>1. Takes(g, F, S)
      BY <2>2, SumTakes
    <3>2. QED  BY <3>1 DEF Takes
  <2>6. \A s \in SUBSET S : g[s] \in Int
    BY <2>2, <2>3, SumType
  <2>7. g[T] = F[k] + g[U] /\ g[U] \in Int
    BY <2>1, <2>5, <2>6
  <2>8. g[T] = g[U] + F[k]
    BY <2>4, <2>7
  <2>9. QED  BY <2>8 DEF T, U
<1>4. QED  BY <1>2, <1>3

-----------------------------------------------------------------------------
(* f is the balance after each row.                                        *)
IsAfter(f, start, net, n) ==
  /\ f \in [0..n -> Int] /\ f[0] = start
  /\ \A k \in 1..n : f[k] = f[k - 1] + net[k]

LEMMA BalanceAfter ==
  ASSUME NEW n \in Nat, NEW start \in Int, NEW net, \A k \in 1..n : net[k] \in Int
  PROVE  IsAfter(AfterEach(start, net, n), start, net, n)
<1> DEFINE F == [k \in 1..n |-> net[k]]
           Eq(f) == f = [k \in 0..n |-> IF k = 0 THEN start ELSE f[k - 1] + net[k]]
           after == CHOOSE f : Eq(f)
<1>1. AfterEach(start, net, n) = after
  BY DEF AfterEach
<1>2. IsFiniteSet(1..n)
  BY FS_Interval
<1>3. F \in [1..n -> Int]
  OBVIOUS
<1>4. PICK g \in [SUBSET (1..n) -> Int] : IsSum(g, F, 1..n)
  <2> HIDE DEF F
  <2>1. QED  BY <1>2, <1>3, SumExists
<1> DEFINE f == [k \in 0..n |-> start + g[1..k]]
<1>5. g[1..0] = 0 /\ \A k \in 1..n : g[1..k] = g[1..(k - 1)] + F[k]
  <2>1. IsNet(F, n)
    BY DEF IsNet
  <2> HIDE DEF F
  <2>2. QED  BY <1>4, <2>1, SumUpTo
<1>6. \A k \in 0..n : g[1..k] \in Int
  BY <1>4
<1>7. \A k \in 0..n : f[k] = IF k = 0 THEN start ELSE f[k - 1] + net[k]
  <2>1. f[0] = start
    BY <1>5
  <2>2. ASSUME NEW k \in 1..n PROVE f[k] = f[k - 1] + net[k]
    <3>1. f[k] = start + g[1..k] /\ f[k - 1] = start + g[1..(k - 1)]
      OBVIOUS
    <3>2. g[1..k] = g[1..(k - 1)] + net[k]
      BY <1>5
    <3>3. g[1..(k - 1)] \in Int /\ net[k] \in Int
      BY <1>6
    <3> HIDE DEF f
    <3>4. QED  BY <3>1, <3>2, <3>3
  <2>3. ASSUME NEW k \in 0..n PROVE f[k] = IF k = 0 THEN start ELSE f[k - 1] + net[k]
    <3>1. k = 0 \/ k \in 1..n
      OBVIOUS
    <3> HIDE DEF f
    <3>2. QED  BY <2>1, <2>2, <3>1
  <2>4. QED  BY <2>3
<1>8. f \in [0..n -> Int]
  BY <1>6
<1>9. Eq(f)
  <2> HIDE DEF f
  <2>1. f = [k \in 0..n |-> f[k]]
    BY <1>8
  <2>2. QED  BY <1>7, <2>1
<1>10. Eq(after)
  BY <1>9
<1> HIDE DEF after
<1>11. after[0] = start /\ \A k \in 1..n : after[k] = after[k - 1] + net[k]
  BY <1>10
<1>12. \A k \in 0..n : after[k] \in Int
  <2> DEFINE N == {k \in Nat : k <= n => after[k] \in Int}
  <2>1. 0 \in N
    BY <1>11
  <2>2. ASSUME NEW k \in N PROVE k + 1 \in N
    <3>1. SUFFICES ASSUME k + 1 <= n PROVE after[k + 1] \in Int
      OBVIOUS
    <3>2. after[k] \in Int /\ k + 1 \in 1..n /\ (k + 1) - 1 = k
      BY <3>1
    <3>3. after[k + 1] = after[k] + net[k + 1]
      BY <1>11, <3>2
    <3>4. QED  BY <3>2, <3>3
  <2>3. N = Nat
    <3> HIDE DEF N
    <3>1. N \in SUBSET Nat
      BY DEF N
    <3>2. QED  BY <2>1, <2>2, <3>1, NatInduct
  <2>4. QED  BY <2>3
<1>13. after = [k \in 0..n |-> after[k]]
  BY <1>10
<1>14. QED
  <2>1. after \in [0..n -> Int]
    BY <1>12, <1>13
  <2>2. QED  BY <1>1, <1>11, <2>1 DEF IsAfter

(* What the rows of one side move is a sum.                                *)
LEMMA MovedSum ==
  ASSUME NEW net, NEW n, NEW sign, IsFiniteSet((1..n)), \A k \in (1..n) : (IF sign * net[k] > 0 THEN sign * net[k] ELSE 0) \in Int
  PROVE  \E f \in [SUBSET (1..n) -> Int] :
           IsSum(f, [x \in (1..n) |-> (IF sign * net[x] > 0 THEN sign * net[x] ELSE 0)], (1..n)) /\ Moved(net, n, sign) = f[(1..n)]
<1> DEFINE V(x) == (IF sign * net[x] > 0 THEN sign * net[x] ELSE 0)
           Q == (1..n)
           F == [x \in Q |-> V(x)]
           Eq(g) == g = [s \in SUBSET Q |-> IF s = {} THEN 0
                         ELSE LET x == CHOOSE x \in s : TRUE IN V(x) + g[s \ {x}]]
           it == CHOOSE g : Eq(g)
<1>1. Moved(net, n, sign) = it[Q]
  BY DEF Moved, MapThenSumSet, MapThenFoldSet
<1>2. \A x \in Q : V(x) \in Int
  OBVIOUS
<1>3. IsFiniteSet(Q)
  BY FS_Interval
<1> HIDE DEF V, Q
<1>4. F \in [Q -> Int]
  BY <1>2
<1>5. PICK g \in [SUBSET Q -> Int] : IsSum(g, F, Q)
  BY <1>3, <1>4, SumExists
<1>6. \A s \in SUBSET Q : s # {} => One(s) \in Q /\ F[One(s)] = V(One(s))
  BY DEF One
<1>7. Eq(g)
  BY <1>5, <1>6 DEF IsSum, One
<1>8. Eq(it)
  BY <1>7
<1>9. IsSum(it, F, Q) /\ it = [s \in SUBSET Q |-> it[s]]
  <2> HIDE DEF it, F
  <2>1. QED  BY <1>6, <1>8 DEF IsSum, One
<1>10. \E f \in [SUBSET Q -> Int] : IsSum(f, F, Q) /\ Moved(net, n, sign) = f[Q]
  <2> HIDE DEF it, F
  <2>1. it \in [SUBSET Q -> Int]
    BY <1>3, <1>4, <1>9, SumIsFunction
  <2>2. QED  BY <1>1, <1>9, <2>1
<1>11. QED  BY <1>10 DEF Q, V

LEMMA ExplainsMeans ==
  ASSUME NEW stmt, NEW start, NEW net
  PROVE  LET rows == Reading(stmt)
             n == Len(rows)
             t == SummaryTotals(stmt)
             after == AfterEach(start, net, n)
         IN Explains(stmt, start, net) <=>
              /\ \A k \in 1..n :
                   /\ rows[k].balance \in {None, after[k]}
                   /\ k = 1 \/ rows[k].page # rows[k - 1].page =>
                        PageOpening(stmt, rows[k].page) \in {None, after[k - 1]}
              /\ t.debit \in {None, Moved(net, n, -1)} /\ t.credit \in {None, Moved(net, n, 1)}
              /\ t.closing \in {None, after[n]}
BY DEF Explains

(* Before the first row.                                                   *)
Unchecked(stmt) ==
  [n |-> 0, running |-> OpeningBalance(stmt), page |-> None, checked |-> 0,
   bad |-> {}, gaps |-> {}, inferred |-> {}, debit |-> 0, credit |-> 0]

(* A file that check_file can be handed.                                   *)
IsStatement(stmt) ==
  /\ Reading(stmt) \in Seq(StatedRow)
  /\ \A p \in Int : PageOpening(stmt, p) \in Posted
  /\ OpeningBalance(stmt) \in Posted

IsChecking(st, stmt) ==
  /\ st \in [0..Len(Reading(stmt)) -> LedgerState]
  /\ st[0] = Unchecked(stmt)
  /\ \A k \in 1..Len(Reading(stmt)) : st[k] = CheckRow(stmt, st[k - 1], Reading(stmt)[k])

LEMMA MaxUpTo ==
  ASSUME NEW k \in Nat, k # 0
  PROVE  Max(1..k) = k
<1>1. Max(1..k) \in 1..k /\ \A m \in 1..k : m <= Max(1..k)
  <2> DEFINE T == 1..k
  <2>1. T \in SUBSET Nat /\ T # {} /\ \A m \in T : m <= k
    OBVIOUS
  <2> HIDE DEF T
  <2>2. Max(T) \in T /\ \A m \in T : m <= Max(T)
    BY <2>1, MaxOfNaturals
  <2>3. QED  BY <2>2 DEF T
<1>2. k \in 1..k
  OBVIOUS
<1> DEFINE mx == Max(1..k)
<1>3. mx \in 1..k /\ k <= mx
  BY <1>1, <1>2
<1> HIDE DEF mx
<1>4. mx = k
  BY <1>3
<1>5. QED  BY <1>4 DEF mx

LEMMA CheckedByRows ==
  ASSUME None \notin Int, NEW stmt, IsStatement(stmt)
  PROVE  \E st : IsChecking(st, stmt) /\ Checked(stmt) = st[Len(Reading(stmt))]
<1> DEFINE rows == Reading(stmt)
           n == Len(rows)
           base == Unchecked(stmt)
           S == DOMAIN rows
           Eq(g) == g = [s \in SUBSET S |-> IF s = {} THEN base
                         ELSE LET x == Max(s) IN CheckRow(stmt, g[s \ {x}], rows[x])]
           it == CHOOSE g : Eq(g)
           pick == [s \in SUBSET S |-> Max(s)]
           h == [p \in S \X LedgerState |-> CheckRow(stmt, p[2], rows[p[1]])]
<1>1. Checked(stmt) = it[S]
  BY DEF Checked, FoldLeft, MapThenFoldSet, Unchecked
<1>2. rows \in Seq(StatedRow) /\ n \in Nat /\ S = 1..n /\ IsFiniteSet(S)
  BY FS_Interval DEF IsStatement
<1>3. Picks(pick, S)
  <2>1. ASSUME NEW s \in SUBSET S, s # {} PROVE Max(s) \in s
    <3>1. s \in SUBSET Nat /\ \A m \in s : m <= n
      BY <1>2
    <3>2. QED  BY <1>2, <2>1, <3>1, MaxOfNaturals
  <2>2. QED  BY <2>1 DEF Picks
<1>4. h \in [S \X LedgerState -> LedgerState]
  <2>1. ASSUME NEW x \in S, NEW s \in LedgerState PROVE CheckRow(stmt, s, rows[x]) \in LedgerState
    <3>1. rows[x] \in StatedRow
      BY <1>2
    <3>2. PageOpening(stmt, rows[x].page) \in Posted
      BY <3>1 DEF IsStatement, StatedRow
    <3> HIDE DEF rows
    <3>3. QED  BY <3>1, <3>2, CheckRowType
  <2>2. QED  BY <2>1
<1>5. base \in LedgerState
  BY DEF IsStatement, Unchecked, LedgerState, Posted
<1> HIDE DEF rows, base, S, h, pick
<1>6. PICK g \in [SUBSET S -> LedgerState] : IsFold(g, base, h, pick, S)
  BY <1>2, <1>3, <1>4, <1>5, FoldExists
<1>7. \A s \in SUBSET S : s # {} => pick[s] = Max(s) /\ Max(s) \in S
  BY <1>3 DEF Picks, pick
<1>8. \A x \in S, s \in LedgerState : h[<<x, s>>] = CheckRow(stmt, s, rows[x])
  BY DEF h
<1>9. \A s \in SUBSET S : g[s] = IF s = {} THEN base ELSE CheckRow(stmt, g[s \ {Max(s)}], rows[Max(s)])
  <2>1. \A s \in SUBSET S : s \ {Max(s)} \in SUBSET S
    OBVIOUS
  <2>2. QED  BY <1>6, <1>7, <1>8, <2>1 DEF IsFold
<1>10. Eq(g)
  BY <1>6, <1>9
<1>11. Eq(it)
  BY <1>10
<1>12. \A s \in SUBSET S : it[s] = IF s = {} THEN base ELSE CheckRow(stmt, it[s \ {Max(s)}], rows[Max(s)])
  <2> HIDE DEF it
  <2>1. QED  BY <1>11
<1> HIDE DEF it
<1> DEFINE st == [k \in 0..n |-> it[1..k]]
<1>13. st[0] = base
  <2>1. 1..0 = {}
    OBVIOUS
  <2>2. st[0] = it[1..0]
    BY <1>2
  <2>3. QED  BY <1>12, <2>1, <2>2
<1>14. ASSUME NEW k \in 1..n PROVE st[k] = CheckRow(stmt, st[k - 1], rows[k])
  <2> DEFINE T == 1..k
             U == 1..(k - 1)
  <2>1. T \in SUBSET S /\ T # {} /\ T \ {k} = U
    <3>1. n \in Nat /\ S = 1..n
      BY <1>2
    <3> HIDE DEF n
    <3>2. T \in SUBSET S
      BY <3>1
    <3>3. k \in T /\ T \ {k} = U
      BY <3>1
    <3>4. QED  BY <3>2, <3>3
  <2>2. Max(T) = k
    BY <1>2, MaxUpTo
  <2>3. st[k] = it[T] /\ st[k - 1] = it[U]
    BY <1>2
  <2> HIDE DEF T, U, st
  <2>4. QED  BY <1>12, <2>1, <2>2, <2>3
<1>15. it[S] = st[n]
  BY <1>2
<1>16. \A k \in 0..n : st[k] \in LedgerState
  <2> DEFINE N == {k \in Nat : k <= n => st[k] \in LedgerState}
  <2> HIDE DEF st
  <2>1. 0 \in N
    BY <1>5, <1>13
  <2>2. ASSUME NEW k \in N PROVE k + 1 \in N
    <3>1. SUFFICES ASSUME k + 1 <= n PROVE st[k + 1] \in LedgerState
      OBVIOUS
    <3>2. st[k] \in LedgerState /\ k + 1 \in 1..n /\ (k + 1) - 1 = k
      BY <1>2, <3>1
    <3>3. st[k + 1] = CheckRow(stmt, st[k], rows[k + 1])
      BY <1>14, <3>2
    <3>4. rows[k + 1] \in StatedRow
      BY <1>2, <3>2
    <3>a. PageOpening(stmt, rows[k + 1].page) \in Posted
      BY <3>4 DEF IsStatement, StatedRow
    <3>5. QED  BY <3>2, <3>3, <3>4, <3>a, CheckRowType
  <2>3. N = Nat
    <3> HIDE DEF N
    <3>1. N \in SUBSET Nat
      BY DEF N
    <3>2. QED  BY <2>1, <2>2, <3>1, NatInduct
  <2>4. QED  BY <1>2, <2>3
<1>17. st \in [0..n -> LedgerState]
  <2>1. st = [k \in 0..n |-> st[k]]
    OBVIOUS
  <2> HIDE DEF st
  <2>2. QED  BY <1>16, <2>1
<1> HIDE DEF st
<1>18. IsChecking(st, stmt)
  BY <1>13, <1>14, <1>17 DEF IsChecking, rows, base
<1>19. QED  BY <1>1, <1>15, <1>18 DEF rows

(* Every row moves something, and the balance is known before the first.   *)
IsLedger(stmt) ==
  /\ IsStatement(stmt) /\ Reading(stmt) # <<>>
  /\ \A k \in 1..Len(Reading(stmt)) : Moving(Reading(stmt)[k])
  /\ OpeningBalance(stmt) \in Int

LEMMA NextPlace ==
  ASSUME NEW stmt, NEW s, NEW row
  PROVE  CheckRow(stmt, s, row).n = s.n + 1 /\ CheckRow(stmt, s, row).page = row.page
BY DEF CheckRow

LEMMA PlaceInReading ==
  ASSUME None \notin Int, NEW stmt, IsLedger(stmt), NEW st, IsChecking(st, stmt),
         NEW k \in 0..Len(Reading(stmt))
  PROVE  /\ st[k].n = k
         /\ st[k].page = IF k = 0 THEN None ELSE Reading(stmt)[k].page
<1> DEFINE n == Len(Reading(stmt))
           N == {i \in Nat : i <= n => st[i].n = i}
<1>1. n \in Nat
  BY DEF IsLedger, IsStatement
<1>2. st[0].n = 0 /\ st[0].page = None
  BY DEF IsChecking, Unchecked
<1>3. ASSUME NEW i \in 1..n PROVE st[i].n = st[i - 1].n + 1 /\ st[i].page = Reading(stmt)[i].page
  BY <1>3, NextPlace DEF IsChecking
<1> HIDE DEF n
<1>4. 0 \in N
  BY <1>2
<1>5. ASSUME NEW i \in N PROVE i + 1 \in N
  <2>1. SUFFICES ASSUME i + 1 <= n PROVE st[i + 1].n = i + 1
    OBVIOUS
  <2>2. st[i].n = i /\ i + 1 \in 1..n /\ (i + 1) - 1 = i
    BY <1>1, <2>1
  <2>3. QED  BY <1>3, <2>2
<1>6. N = Nat
  <2> HIDE DEF N
  <2>1. N \in SUBSET Nat
    BY DEF N
  <2>2. QED  BY <1>4, <1>5, <2>1, NatInduct
<1>7. k \in 0..n
  BY DEF n
<1>8. st[k].n = k
  BY <1>1, <1>6, <1>7
<1>9. k = 0 \/ k \in 1..n
  BY <1>1, <1>7
<1>10. QED  BY <1>2, <1>3, <1>8, <1>9

(* Up to row k the file has said nothing but what net says: the balance,   *)
(* the moves of either side, nothing marked.                               *)
Tells(s, balance, out, in) ==
  s.running = balance /\ s.bad = {} /\ s.gaps = {} /\ s.debit = out /\ s.credit = in

RowType(stmt, k) ==
  Reading(stmt)[k] \in StatedRow /\ PageOpening(stmt, Reading(stmt)[k].page) \in Posted /\ Moving(Reading(stmt)[k])

LEMMA RowsAreTyped ==
  ASSUME NEW stmt, IsLedger(stmt), NEW k \in 1..Len(Reading(stmt))
  PROVE  RowType(stmt, k)
<1> DEFINE rows == Reading(stmt)
<1>1. rows[k] \in StatedRow
  BY DEF IsLedger, IsStatement
<1>2. PageOpening(stmt, rows[k].page) \in Posted
  BY <1>1 DEF IsLedger, IsStatement, StatedRow
<1>3. QED  BY <1>1, <1>2 DEF IsLedger, RowType

LEMMA NextRowTells ==
  ASSUME None \notin Int, NEW stmt, IsLedger(stmt), NEW st, IsChecking(st, stmt),
         NEW k \in 1..Len(Reading(stmt)), NEW balance \in Int, NEW out \in Int, NEW in \in Int,
         Tells(st[k - 1], balance, out, in), NEW m, Follows(stmt, st[k - 1], Reading(stmt)[k], m)
  PROVE  Tells(st[k], balance + m, out + Debit(m), in + Credit(m))
<1> DEFINE s == st[k - 1]
           row == Reading(stmt)[k]
<1>1. s \in LedgerState /\ st[k] = CheckRow(stmt, s, row)
  <2>1. k - 1 \in 0..Len(Reading(stmt))
    BY DEF IsLedger, IsStatement
  <2>2. QED  BY <2>1 DEF IsChecking
<1>2. row \in StatedRow /\ PageOpening(stmt, row.page) \in Posted /\ Moving(row)
  BY RowsAreTyped DEF RowType
<1>3. s.running = balance /\ s.bad = {} /\ s.gaps = {} /\ s.debit = out /\ s.credit = in
  BY DEF Tells
<1>4. Follows(stmt, s, row, m)
  OBVIOUS
<1> HIDE DEF s, row
<1>5. LET t == CheckRow(stmt, s, row)
      IN /\ t.bad = s.bad /\ t.gaps = s.gaps /\ t.running = s.running + m
         /\ t.debit = s.debit + Debit(m) /\ t.credit = s.credit + Credit(m)
  BY <1>1, <1>2, <1>3, <1>4, TrueRowPasses
<1>6. QED  BY <1>1, <1>3, <1>5 DEF Tells

(* What the moves before row k come to.                                    *)
IsAccount(after, out, in, start, net, n) ==
  /\ IsAfter(after, start, net, n)
  /\ out \in [0..n -> Int] /\ out[0] = 0 /\ (\A k \in 1..n : out[k] = out[k - 1] + Debit(net[k]))
  /\ in \in [0..n -> Int] /\ in[0] = 0 /\ (\A k \in 1..n : in[k] = in[k - 1] + Credit(net[k]))
  /\ after[n] = AfterEach(start, net, n)[n] /\ out[n] = Moved(net, n, -1) /\ in[n] = Moved(net, n, 1)

IsTally(f, net, n, sign) ==
  /\ f \in [0..n -> Int] /\ f[0] = 0 /\ f[n] = Moved(net, n, sign)
  /\ \A k \in 1..n : f[k] = f[k - 1] + (IF sign * net[k] > 0 THEN sign * net[k] ELSE 0)

LEMMA MovedUpTo ==
  ASSUME NEW n \in Nat, NEW net, IsNet(net, n), NEW sign \in {-1, 1}
  PROVE  \E f : IsTally(f, net, n, sign)
<1> DEFINE V(k) == IF sign * net[k] > 0 THEN sign * net[k] ELSE 0
           F == [k \in 1..n |-> V(k)]
<1>1. IsFiniteSet(1..n)
  BY FS_Interval
<1>2. \A k \in 1..n : V(k) \in Int
  <2>1. ASSUME NEW k \in 1..n PROVE sign * net[k] \in Int
    <3>1. net[k] \in Int
      BY DEF IsNet
    <3>2. QED  BY <3>1
  <2>2. QED  BY <2>1
<1>3. PICK g \in [SUBSET (1..n) -> Int] : IsSum(g, F, 1..n) /\ Moved(net, n, sign) = g[1..n]
  BY <1>1, <1>2, MovedSum
<1>4. \A k \in 1..n : F[k] = V(k)
  OBVIOUS
<1> HIDE DEF F, V
<1>5. g[1..0] = 0 /\ \A k \in 1..n : g[1..k] = g[1..(k - 1)] + F[k]
  <2>1. IsNet(F, n)
    BY <1>2, <1>4 DEF IsNet
  <2>2. IsSum(g, F, 1..n)
    BY <1>3
  <2>3. n \in Nat
    OBVIOUS
  <2>4. g[1..0] = 0 /\ \A k \in 1..n : g[1..k] = g[1..(k - 1)] + F[k]
    BY ONLY n \in Nat, <2>1, <2>2, SumUpTo
  <2>5. QED  BY <2>4
<1> DEFINE f == [k \in 0..n |-> g[1..k]]
<1>6. f \in [0..n -> Int]
  <2>1. \A k \in 0..n : g[1..k] \in Int
    OBVIOUS
  <2>2. QED  BY <2>1
<1>7. f[0] = 0 /\ f[n] = Moved(net, n, sign)
  BY <1>3, <1>5
<1>8. ASSUME NEW k \in 1..n PROVE f[k] = f[k - 1] + V(k)
  <2>1. f[k] = g[1..k] /\ f[k - 1] = g[1..(k - 1)]
    OBVIOUS
  <2> HIDE DEF f
  <2>2. QED  BY <1>4, <1>5, <2>1
<1> HIDE DEF f
<1>9. QED  BY <1>6, <1>7, <1>8 DEF V, IsTally

LEMMA AccountExists ==
  ASSUME NEW n \in Nat, NEW start \in Int, NEW net, \A k \in 1..n : net[k] \in Int
  PROVE  \E out, in : IsAccount(AfterEach(start, net, n), out, in, start, net, n)
<1>1. IsAfter(AfterEach(start, net, n), start, net, n)
  BY BalanceAfter
<1>2. PICK out : IsTally(out, net, n, -1)
  <2>1. -1 \in {-1, 1} /\ IsNet(net, n)
    BY DEF IsNet
  <2>2. QED  BY <2>1, MovedUpTo
<1>3. PICK in : IsTally(in, net, n, 1)
  <2>1. 1 \in {-1, 1} /\ IsNet(net, n)
    BY DEF IsNet
  <2>2. QED  BY <2>1, MovedUpTo
<1>4. \A k \in 1..n : Debit(net[k]) = (IF (-1) * net[k] > 0 THEN (-1) * net[k] ELSE 0)
  <2>1. ASSUME NEW k \in 1..n PROVE Debit(net[k]) = (IF (-1) * net[k] > 0 THEN (-1) * net[k] ELSE 0)
    <3>1. net[k] \in Int
      OBVIOUS
    <3>2. QED  BY <3>1 DEF Debit
  <2>2. QED  BY <2>1
<1>5. \A k \in 1..n : Credit(net[k]) = (IF 1 * net[k] > 0 THEN 1 * net[k] ELSE 0)
  <2>1. ASSUME NEW k \in 1..n PROVE Credit(net[k]) = (IF 1 * net[k] > 0 THEN 1 * net[k] ELSE 0)
    <3>1. net[k] \in Int
      OBVIOUS
    <3>2. QED  BY <3>1 DEF Credit
  <2>2. QED  BY <2>1
<1>6. \A k \in 1..n : out[k] = out[k - 1] + Debit(net[k]) /\ in[k] = in[k - 1] + Credit(net[k])
  BY <1>2, <1>3, <1>4, <1>5 DEF IsTally
<1>7. QED  BY <1>1, <1>2, <1>3, <1>6 DEF IsAccount, IsTally

(* Where the first row gives the balance, no page does.                    *)
NoPageOpens(stmt) == Derived(stmt) => \A p \in Int : PageOpening(stmt, p) = None

(* The first balance is the opening balance and what the first row moves.  *)
LEMMA FirstRow ==
  ASSUME None \notin Int, NEW stmt, IsLedger(stmt), HasBasis(stmt), Derived(stmt)
  PROVE  LET row == Reading(stmt)[1]
         IN Net(row) \in Int /\ row.balance \in Int /\ row.balance = OpeningBalance(stmt) + Net(row)
<1> DEFINE rows == Reading(stmt)
<1>1. rows \in Seq(StatedRow) /\ 1 \in 1..Len(rows) /\ rows # <<>>
  BY DEF IsLedger, IsStatement
<1>2. rows[1] \in StatedRow
  BY <1>1
<1>3. Net(rows[1]) \in Int
  BY <1>2, NetType DEF HasBasis, Posted
<1>4. OrZero(Net(rows[1])) = Net(rows[1])
  BY <1>3 DEF OrZero
<1>5. OpeningBalance(stmt) = IF rows[1].balance = None THEN None ELSE rows[1].balance - Net(rows[1])
  BY <1>1, <1>4 DEF OpeningBalance
<1>6. OpeningBalance(stmt) \in Int
  BY DEF IsLedger
<1>7. rows[1].balance \in Int /\ OpeningBalance(stmt) = rows[1].balance - Net(rows[1])
  BY <1>2, <1>5, <1>6 DEF StatedRow, Posted
<1> HIDE DEF rows
<1>8. rows[1].balance = OpeningBalance(stmt) + Net(rows[1])
  BY <1>3, <1>6, <1>7
<1>9. QED  BY <1>3, <1>7, <1>8 DEF rows

(* What the figures of a file mean, row by row.                            *)
RowAgrees(stmt, k, after, net) ==
  LET row == Reading(stmt)[k]
  IN /\ net[k] \in Sided(row) /\ row.balance \in {None, after[k]}
     /\ k = 1 \/ row.page # Reading(stmt)[k - 1].page => PageOpening(stmt, row.page) \in {None, after[k - 1]}

AccountAgrees(stmt, after, out, in, net) ==
  LET n == Len(Reading(stmt))
      t == SummaryTotals(stmt)
  IN /\ \A k \in 1..n : RowAgrees(stmt, k, after, net)
     /\ t.debit \in {None, out[n]} /\ t.credit \in {None, in[n]} /\ t.closing \in {None, after[n]}

(* A row is true exactly when it goes on from what is told before it.      *)
LEMMA AgreeingRowFollows ==
  ASSUME None \notin Int, NEW stmt, IsLedger(stmt), HasBasis(stmt), NoPageOpens(stmt),
         NEW st, IsChecking(st, stmt), NEW net,
         NEW after, IsAfter(after, OpeningBalance(stmt), net, Len(Reading(stmt))),
         NEW k \in 1..Len(Reading(stmt)), st[k - 1].running = after[k - 1]
  PROVE  RowAgrees(stmt, k, after, net) <=> Follows(stmt, st[k - 1], Reading(stmt)[k], net[k])
<1> DEFINE n == Len(Reading(stmt))
           row == Reading(stmt)[k]
           s == st[k - 1]
<1>1. n \in Nat /\ k - 1 \in 0..n
  BY DEF IsLedger, IsStatement
<1>2. s.page = IF k - 1 = 0 THEN None ELSE Reading(stmt)[k - 1].page
  BY <1>1, PlaceInReading
<1>3. after[k] = s.running + net[k]
  BY DEF IsAfter
<1>4. row \in StatedRow /\ row.page \in Int
  BY RowsAreTyped DEF RowType, StatedRow
<1>5. k # 1 => Reading(stmt)[k - 1].page \in Int
  <2>1. k # 1 => k - 1 \in 1..n
    OBVIOUS
  <2>2. QED  BY <2>1, RowsAreTyped DEF RowType, StatedRow
<1>6. k = 1 => PageOpening(stmt, row.page) \in {None, after[k - 1]}
  <2>1. SUFFICES ASSUME k = 1 PROVE PageOpening(stmt, row.page) \in {None, after[0]}
    OBVIOUS
  <2>2. after[0] = OpeningBalance(stmt)
    BY DEF IsAfter
  <2>3. QED  BY <1>4, <2>1, <2>2 DEF HasBasis, NoPageOpens
<1>7. (s.page # None /\ row.page # s.page) <=> (k # 1 /\ row.page # Reading(stmt)[k - 1].page)
  BY <1>2, <1>5
<1> HIDE DEF n
<1>8. RowAgrees(stmt, k, after, net) <=>
        /\ net[k] \in Sided(row) /\ row.balance \in {None, after[k]}
        /\ k # 1 /\ row.page # Reading(stmt)[k - 1].page => PageOpening(stmt, row.page) \in {None, after[k - 1]}
  BY <1>6 DEF RowAgrees
<1>9. Follows(stmt, s, row, net[k]) <=>
        /\ net[k] \in Sided(row) /\ row.balance \in {None, after[k]}
        /\ k # 1 /\ row.page # Reading(stmt)[k - 1].page => PageOpening(stmt, row.page) \in {None, after[k - 1]}
  BY <1>3, <1>7 DEF Follows
<1>10. QED  BY <1>8, <1>9

(* check_file counts what the rows move, as long as they follow.           *)
LEMMA TellsAll ==
  ASSUME None \notin Int, NEW stmt, IsLedger(stmt), HasBasis(stmt), NoPageOpens(stmt),
         NEW st, IsChecking(st, stmt), NEW net, IsNet(net, Len(Reading(stmt))),
         NEW after, NEW out, NEW in,
         IsAccount(after, out, in, OpeningBalance(stmt), net, Len(Reading(stmt))),
         \A k \in 1..Len(Reading(stmt)) : RowAgrees(stmt, k, after, net)
  PROVE  \A k \in 0..Len(Reading(stmt)) : Tells(st[k], after[k], out[k], in[k])
<1> DEFINE n == Len(Reading(stmt))
           N == {k \in Nat : k <= n => Tells(st[k], after[k], out[k], in[k])}
<1>1. n \in Nat
  BY DEF IsLedger, IsStatement
<1>2. 0 \in N
  <2>1. after[0] = OpeningBalance(stmt) /\ out[0] = 0 /\ in[0] = 0
    BY DEF IsAccount, IsAfter
  <2>2. Tells(st[0], OpeningBalance(stmt), 0, 0)
    BY DEF IsChecking, Unchecked, Tells
  <2>3. QED  BY <2>1, <2>2
<1>3. ASSUME NEW k \in N PROVE k + 1 \in N
  <2>1. SUFFICES ASSUME k + 1 <= n PROVE Tells(st[k + 1], after[k + 1], out[k + 1], in[k + 1])
    OBVIOUS
  <2> DEFINE j == k + 1
  <2>2. Tells(st[k], after[k], out[k], in[k]) /\ j \in 1..n /\ j - 1 = k /\ k \in 0..n
    BY <1>1, <2>1
  <2>3. after[k] \in Int /\ out[k] \in Int /\ in[k] \in Int
    BY <2>2 DEF IsAccount, IsAfter
  <2>4. /\ after[j] = after[k] + net[j] /\ out[j] = out[k] + Debit(net[j]) /\ in[j] = in[k] + Credit(net[j])
    BY <2>2 DEF IsAccount, IsAfter
  <2> HIDE DEF j
  <2>5. st[k].running = after[k]
    BY <2>2 DEF Tells
  <2>6. Follows(stmt, st[k], Reading(stmt)[j], net[j])
    <3>1. IsAfter(after, OpeningBalance(stmt), net, Len(Reading(stmt)))
      BY DEF IsAccount
    <3>2. RowAgrees(stmt, j, after, net)
      BY <2>2
    <3>3. QED  BY <2>2, <2>5, <3>1, <3>2, AgreeingRowFollows
  <2>7. Tells(st[j], after[k] + net[j], out[k] + Debit(net[j]), in[k] + Credit(net[j]))
    BY <2>2, <2>3, <2>6, NextRowTells
  <2>8. QED  BY <2>4, <2>7 DEF j
<1>4. N = Nat
  <2> HIDE DEF N
  <2>1. N \in SUBSET Nat
    BY DEF N
  <2>2. QED  BY <1>2, <1>3, <2>1, NatInduct
<1>5. QED  BY <1>1, <1>4

LEMMA MarksStay ==
  ASSUME NEW stmt, NEW s, NEW row
  PROVE  s.bad \subseteq CheckRow(stmt, s, row).bad /\ s.gaps \subseteq CheckRow(stmt, s, row).gaps
BY DEF CheckRow

LEMMA NothingMarked ==
  ASSUME NEW stmt, Len(Reading(stmt)) \in Nat, NEW st, IsChecking(st, stmt),
         st[Len(Reading(stmt))].bad = {}, st[Len(Reading(stmt))].gaps = {}
  PROVE  \A k \in 0..Len(Reading(stmt)) : st[k].bad = {} /\ st[k].gaps = {}
<1> DEFINE n == Len(Reading(stmt))
           Unmarked(k) == st[k].bad = {} /\ st[k].gaps = {}
           N == {i \in Nat : i <= n => Unmarked(n - i)}
<1>1. n \in Nat
  OBVIOUS
<1>2. \A k \in 1..n : Unmarked(k) => Unmarked(k - 1)
  BY MarksStay DEF IsChecking
<1>3. Unmarked(n)
  OBVIOUS
<1> HIDE DEF n, Unmarked
<1>4. 0 \in N
  BY <1>1, <1>3
<1>5. ASSUME NEW i \in N PROVE i + 1 \in N
  <2>1. SUFFICES ASSUME i + 1 <= n PROVE Unmarked(n - (i + 1))
    OBVIOUS
  <2>2. Unmarked(n - i) /\ n - i \in 1..n /\ (n - i) - 1 = n - (i + 1)
    BY <1>1, <2>1
  <2>3. QED  BY <1>2, <2>2
<1>6. N = Nat
  <2> HIDE DEF N
  <2>1. N \in SUBSET Nat
    BY DEF N
  <2>2. QED  BY <1>4, <1>5, <2>1, NatInduct
<1>7. ASSUME NEW k \in 0..n PROVE Unmarked(k)
  <2>1. n - k \in Nat /\ n - k <= n /\ n - (n - k) = k
    BY <1>1
  <2>2. n - k \in N
    BY <1>6, <2>1
  <2>3. QED  BY <2>1, <2>2
<1>8. QED  BY <1>7 DEF n, Unmarked

(* What check_file takes each row to move.                                 *)
Taken(stmt, st) == [k \in 1..Len(Reading(stmt)) |-> MoveOf(st[k - 1], Reading(stmt)[k])]

LEMMA PassedRowFollows ==
  ASSUME None \notin Int, NEW stmt, IsLedger(stmt), HasBasis(stmt),
         NEW st, IsChecking(st, stmt), NEW k \in 1..Len(Reading(stmt)),
         st[k - 1].running \in Int, st[k].bad = {}, st[k].gaps = {}
  PROVE  /\ Follows(stmt, st[k - 1], Reading(stmt)[k], Taken(stmt, st)[k]) /\ Taken(stmt, st)[k] \in Int
         /\ st[k].running = st[k - 1].running + Taken(stmt, st)[k]
<1> DEFINE n == Len(Reading(stmt))
           row == Reading(stmt)[k]
           s == st[k - 1]
           m == MoveOf(s, row)
<1>1. n \in Nat /\ k - 1 \in 0..n
  BY DEF IsLedger, IsStatement
<1>2. s \in LedgerState /\ st[k] = CheckRow(stmt, s, row)
  BY <1>1 DEF IsChecking
<1>3. row \in StatedRow /\ PageOpening(stmt, row.page) \in Posted /\ Moving(row)
  BY RowsAreTyped DEF RowType
<1>4. s.n = k - 1
  BY <1>1, PlaceInReading
<1>5. s.n = 0 /\ Derived(stmt) => Net(row) # None /\ row.balance = s.running + Net(row)
  <2>1. SUFFICES ASSUME s.n = 0, Derived(stmt) PROVE Net(row) # None /\ row.balance = s.running + Net(row)
    OBVIOUS
  <2>2. k = 1
    BY <1>4, <2>1
  <2>3. s.running = OpeningBalance(stmt)
    BY <2>2 DEF IsChecking, Unchecked
  <2>4. QED  BY <2>1, <2>2, <2>3, FirstRow
<1>6. CheckRow(stmt, s, row).bad = {} /\ CheckRow(stmt, s, row).gaps = {} /\ s.running \in Int
  BY <1>2
<1>7. Taken(stmt, st)[k] = m
  BY DEF Taken
<1> HIDE DEF s, row
<1>8. Follows(stmt, s, row, m)
  BY <1>2, <1>3, <1>5, <1>6, PassedRowIsTrue
<1> HIDE DEF m
<1>9. m \in Int
  BY <1>3, <1>8, SidedType DEF Follows
<1>10. CheckRow(stmt, s, row).running = s.running + m
  BY <1>2, <1>3, <1>6, <1>8, TrueRowPasses
<1>11. QED  BY <1>2, <1>7, <1>8, <1>9, <1>10 DEF s, row

LEMMA PassedFileAgrees ==
  ASSUME None \notin Int, NEW stmt, IsLedger(stmt), HasBasis(stmt), NoPageOpens(stmt),
         NEW st, IsChecking(st, stmt),
         st[Len(Reading(stmt))].bad = {}, st[Len(Reading(stmt))].gaps = {},
         NEW after, IsNet(Taken(stmt, st), Len(Reading(stmt))) =>
                      IsAfter(after, OpeningBalance(stmt), Taken(stmt, st), Len(Reading(stmt)))
  PROVE  /\ IsNet(Taken(stmt, st), Len(Reading(stmt)))
         /\ \A k \in 1..Len(Reading(stmt)) : RowAgrees(stmt, k, after, Taken(stmt, st))
<1> DEFINE n == Len(Reading(stmt))
           net == Taken(stmt, st)
           N == {k \in Nat : k <= n => st[k].running \in Int}
<1>1. n \in Nat
  BY DEF IsLedger, IsStatement
<1>2. \A k \in 0..n : st[k].bad = {} /\ st[k].gaps = {}
  BY <1>1, NothingMarked
<1>3. st[0].running = OpeningBalance(stmt) /\ OpeningBalance(stmt) \in Int
  BY DEF IsChecking, Unchecked, IsLedger
<1>4. ASSUME NEW k \in 1..n, st[k - 1].running \in Int
      PROVE  /\ Follows(stmt, st[k - 1], Reading(stmt)[k], net[k]) /\ net[k] \in Int
             /\ st[k].running = st[k - 1].running + net[k]
  <2>1. st[k].bad = {} /\ st[k].gaps = {}
    BY <1>1, <1>2
  <2>2. QED  BY <1>4, <2>1, PassedRowFollows
<1> HIDE DEF n, net
<1>5. 0 \in N
  BY <1>3
<1>6. ASSUME NEW k \in N PROVE k + 1 \in N
  <2>1. SUFFICES ASSUME k + 1 <= n PROVE st[k + 1].running \in Int
    OBVIOUS
  <2> DEFINE j == k + 1
  <2>2. st[k].running \in Int /\ j \in 1..n /\ j - 1 = k
    BY <1>1, <2>1
  <2> HIDE DEF j
  <2>3. net[j] \in Int /\ st[j].running = st[k].running + net[j]
    BY <1>4, <2>2
  <2>4. QED  BY <2>2, <2>3 DEF j
<1>7. N = Nat
  <2> HIDE DEF N
  <2>1. N \in SUBSET Nat
    BY DEF N
  <2>2. QED  BY <1>5, <1>6, <2>1, NatInduct
<1>8. \A k \in 1..n : k - 1 \in Nat /\ st[k - 1].running \in Int
  BY <1>1, <1>7
<1>9. IsNet(net, n)
  BY <1>4, <1>8 DEF IsNet
<1>10. IsAfter(after, OpeningBalance(stmt), net, n)
  BY <1>9 DEF n, net
<1> DEFINE M == {k \in Nat : k <= n => st[k].running = after[k]}
<1>11. 0 \in M
  BY <1>3, <1>10 DEF IsAfter
<1>12. ASSUME NEW k \in M PROVE k + 1 \in M
  <2>1. SUFFICES ASSUME k + 1 <= n PROVE st[k + 1].running = after[k + 1]
    OBVIOUS
  <2> DEFINE j == k + 1
  <2>2. st[k].running = after[k] /\ j \in 1..n /\ j - 1 = k
    BY <1>1, <2>1
  <2> HIDE DEF j
  <2>3. st[j].running = st[k].running + net[j]
    BY <1>4, <1>8, <2>2
  <2>4. after[j] = after[k] + net[j]
    BY <1>10, <2>2 DEF IsAfter
  <2>5. QED  BY <2>2, <2>3, <2>4 DEF j
<1>13. M = Nat
  <2> HIDE DEF M
  <2>1. M \in SUBSET Nat
    BY DEF M
  <2>2. QED  BY <1>11, <1>12, <2>1, NatInduct
<1>14. ASSUME NEW k \in 1..n PROVE RowAgrees(stmt, k, after, net)
  <2>1. st[k - 1].running = after[k - 1]
    BY <1>1, <1>13
  <2>2. Follows(stmt, st[k - 1], Reading(stmt)[k], net[k])
    BY <1>4, <1>8
  <2>3. QED  BY <1>10, <2>1, <2>2, AgreeingRowFollows DEF n
<1>15. QED  BY <1>9, <1>14 DEF n, net

(* A file is explained exactly when its rows, its totals and its closing   *)
(* balance agree with one account of it.                                   *)
LEMMA ExplainsIsAgreeing ==
  ASSUME NEW stmt, NEW start, NEW net, NEW out, NEW in, NEW after,
         IsAccount(after, out, in, start, net, Len(Reading(stmt))),
         after = AfterEach(start, net, Len(Reading(stmt))),
         \A k \in 1..Len(Reading(stmt)) : net[k] \in Sided(Reading(stmt)[k])
  PROVE  Explains(stmt, start, net) <=> AccountAgrees(stmt, after, out, in, net)
BY ExplainsMeans DEF AccountAgrees, RowAgrees, IsAccount

(* There is but one balance to begin with.                                 *)
LEMMA OneStart ==
  ASSUME None \notin Int, NEW stmt, IsLedger(stmt), HasBasis(stmt),
         NEW start \in Int, NEW net, NEW after, IsAfter(after, start, net, Len(Reading(stmt))),
         RowAgrees(stmt, 1, after, net)
  PROVE  start = OpeningBalance(stmt)
<1> DEFINE row == Reading(stmt)[1]
           n == Len(Reading(stmt))
<1>1. n \in Nat /\ 1 \in 1..n
  BY DEF IsLedger, IsStatement
<1>2. after[0] = start /\ after[1] = start + net[1]
  BY <1>1 DEF IsAfter
<1>3. OpeningBalance(stmt) \in Int
  BY DEF IsLedger
<1>4. CASE Derived(stmt)
  <2>1. Net(row) \in Int /\ row.balance \in Int /\ row.balance = OpeningBalance(stmt) + Net(row)
    BY <1>4, FirstRow
  <2>2. net[1] = Net(row) /\ row.balance = after[1]
    BY <2>1 DEF RowAgrees, Sided
  <2> HIDE DEF row
  <2>3. QED  BY <1>2, <1>3, <2>1, <2>2
<1>5. CASE ~Derived(stmt)
  <2>1. PageOpening(stmt, row.page) = OpeningBalance(stmt)
    BY <1>5 DEF HasBasis
  <2>2. PageOpening(stmt, row.page) \in {None, start}
    BY <1>2 DEF RowAgrees
  <2>3. QED  BY <1>3, <2>1, <2>2
<1>6. QED  BY <1>4, <1>5

LEMMA ReconcilesMeans ==
  ASSUME None \notin Int, NEW stmt, NEW s, s = Checked(stmt), s.running \in Int
  PROVE  CheckFile(stmt).file_reconciles <=>
           /\ s.bad = {} /\ s.gaps = {}
           /\ SummaryTotals(stmt).debit \in {None, s.debit} /\ SummaryTotals(stmt).credit \in {None, s.credit}
           /\ SummaryTotals(stmt).closing \in {None, s.running}
BY DEF CheckFile, Judged

LEMMA SidedMoves ==
  ASSUME None \notin Int, NEW stmt, IsLedger(stmt), NEW net,
         \A k \in 1..Len(Reading(stmt)) : net[k] \in Sided(Reading(stmt)[k])
  PROVE  IsNet(net, Len(Reading(stmt)))
<1>1. SUFFICES ASSUME NEW k \in 1..Len(Reading(stmt)) PROVE net[k] \in Int
  BY DEF IsNet
<1>2. Reading(stmt)[k] \in StatedRow /\ Moving(Reading(stmt)[k])
  BY RowsAreTyped DEF RowType
<1>3. QED  BY <1>2, SidedType

LEMMA LedgersAreJudged ==
  ASSUME None \notin Int, NEW stmt, IsLedger(stmt), NoPageOpens(stmt),
         NEW starts \in SUBSET Int, OpeningBalance(stmt) \in starts
  PROVE  FileIsJudged(stmt, starts)
<1> DEFINE rows == Reading(stmt)
           n == Len(rows)
           start == OpeningBalance(stmt)
           sum == SummaryTotals(stmt)
<1>1. SUFFICES ASSUME HasBasis(stmt)
               PROVE  CheckFile(stmt).file_reconciles <=> Explicable(stmt, starts)
  BY DEF FileIsJudged
<1>2. n \in Nat /\ 1 \in 1..n /\ n \in 0..n /\ start \in Int
  BY DEF IsLedger, IsStatement
<1>3. PICK st : IsChecking(st, stmt) /\ Checked(stmt) = st[n]
  BY CheckedByRows DEF IsLedger
<1>4. ASSUME Explicable(stmt, starts) PROVE CheckFile(stmt).file_reconciles
  <2>1. PICK net : /\ \A k \in 1..n : net[k] \in Sided(rows[k])
                   /\ \E begin \in starts : Explains(stmt, begin, net)
    BY <1>4 DEF Explicable
  <2>a. PICK begin \in starts : Explains(stmt, begin, net)
    BY <2>1
  <2>2. IsNet(net, n)
    BY <2>1, SidedMoves
  <2> DEFINE after == AfterEach(begin, net, n)
  <2>3. PICK out, in : IsAccount(after, out, in, begin, net, n)
    BY <1>2, <2>2, AccountExists DEF IsNet
  <2>4. AccountAgrees(stmt, after, out, in, net)
    BY <2>1, <2>a, <2>3, ExplainsIsAgreeing
  <2>5. \A k \in 1..n : RowAgrees(stmt, k, after, net)
    BY <2>4 DEF AccountAgrees
  <2> HIDE DEF after
  <2>6. begin = start
    <3>1. RowAgrees(stmt, 1, after, net) /\ IsAfter(after, begin, net, n) /\ begin \in Int
      BY <1>2, <2>3, <2>5 DEF IsAccount
    <3>2. QED  BY <1>1, <3>1, OneStart
  <2>7. \A k \in 0..n : Tells(st[k], after[k], out[k], in[k])
    <3>1. IsAccount(after, out, in, OpeningBalance(stmt), net, n)
      BY <2>3, <2>6
    <3>2. QED  BY <1>1, <1>3, <2>2, <2>5, <3>1, TellsAll
  <2>8. Tells(Checked(stmt), after[n], out[n], in[n]) /\ after[n] \in Int
    BY <1>2, <1>3, <2>3, <2>7 DEF IsAccount, IsAfter
  <2>9. /\ sum.debit \in {None, out[n]} /\ sum.credit \in {None, in[n]} /\ sum.closing \in {None, after[n]}
    BY <2>4 DEF AccountAgrees
  <2>10. QED  BY <2>8, <2>9, ReconcilesMeans DEF Tells
<1>5. ASSUME CheckFile(stmt).file_reconciles PROVE Explicable(stmt, starts)
  <2> DEFINE net == Taken(stmt, st)
             after == AfterEach(start, net, n)
  <2>1. Checked(stmt).bad = {} /\ Checked(stmt).gaps = {}
    BY <1>5 DEF CheckFile, Judged
  <2>2. IsNet(net, n) => IsAfter(after, start, net, n)
    BY <1>2, BalanceAfter DEF IsNet
  <2>3. IsNet(net, n) /\ \A k \in 1..n : RowAgrees(stmt, k, after, net)
    <3>1. st[n].bad = {} /\ st[n].gaps = {}
      BY <1>3, <2>1
    <3> HIDE DEF after
    <3>2. QED  BY <1>1, <1>3, <2>2, <3>1, PassedFileAgrees
  <2>4. PICK out, in : IsAccount(after, out, in, start, net, n)
    BY <1>2, <2>3, AccountExists DEF IsNet
  <2>5. \A k \in 0..n : Tells(st[k], after[k], out[k], in[k])
    <3> HIDE DEF after, net
    <3>1. QED  BY <1>1, <1>3, <2>3, <2>4, TellsAll
  <2>6. Tells(Checked(stmt), after[n], out[n], in[n]) /\ after[n] \in Int
    BY <1>2, <1>3, <2>4, <2>5 DEF IsAccount, IsAfter
  <2>7. /\ sum.debit \in {None, out[n]} /\ sum.credit \in {None, in[n]} /\ sum.closing \in {None, after[n]}
    BY <1>5, <2>6, ReconcilesMeans DEF Tells
  <2>8. AccountAgrees(stmt, after, out, in, net)
    BY <2>3, <2>7 DEF AccountAgrees
  <2>9. \A k \in 1..n : net[k] \in Sided(rows[k])
    BY <2>3 DEF RowAgrees
  <2>10. Explains(stmt, start, net)
    BY <2>4, <2>8, <2>9, ExplainsIsAgreeing
  <2>11. net \in [1..n -> UNION {Sided(rows[k]) : k \in 1..n}]
    <3>1. net = [k \in 1..n |-> net[k]]
      BY DEF Taken
    <3> HIDE DEF net
    <3>2. QED  BY <2>9, <3>1
  <2> HIDE DEF net
  <2>12. QED  BY <2>9, <2>10, <2>11 DEF Explicable
<1>6. QED  BY <1>4, <1>5

(* A page of a statement file.                                             *)
StatementPage ==
  [page_no : Int, opening : Posted, closing : Posted, debit : Posted, credit : Posted, rows : Seq(StatedRow)]

(* The pages that are not after page k.                                    *)
UpTo(stmt, k) ==
  {j \in 1..Len(stmt) : \/ stmt[j].page_no < stmt[k].page_no
                        \/ stmt[j].page_no = stmt[k].page_no /\ j <= k}

(* Sorting the pages keeps each of them.                                   *)
LEMMA PagesKeepPlaces ==
  ASSUME NEW stmt \in Seq(StatementPage)
  PROVE  /\ \A i \in 1..Len(stmt) : \E k \in 1..Len(stmt) : PlaceOf(stmt, k) = i
         /\ \A k \in 1..Len(stmt) : PlaceOf(stmt, k) \in 1..Len(stmt)
         /\ \A j, k \in 1..Len(stmt) : PlaceOf(stmt, j) = PlaceOf(stmt, k) => j = k
<1> DEFINE n == Len(stmt)
           D == 1..n
           place == [k \in D |-> PlaceOf(stmt, k)]
<1>1. n \in Nat /\ IsFiniteSet(D) /\ Cardinality(D) = n
  <2>1. n \in Nat
    OBVIOUS
  <2>2. QED  BY <2>1, FS_Interval
<1>2. \A k \in D : stmt[k].page_no \in Int
  <2>1. \A k \in D : stmt[k] \in StatementPage
    OBVIOUS
  <2>2. QED  BY <2>1 DEF StatementPage
<1>3. \A k \in D : PlaceOf(stmt, k) = Cardinality(UpTo(stmt, k))
  BY DEF PlaceOf, UpTo
<1>4. \A k \in D : /\ IsFiniteSet(UpTo(stmt, k)) /\ k \in UpTo(stmt, k) /\ UpTo(stmt, k) \subseteq D
                   /\ Cardinality(UpTo(stmt, k)) \in 1..n
  <2>1. SUFFICES ASSUME NEW k \in D
                 PROVE  /\ IsFiniteSet(UpTo(stmt, k)) /\ k \in UpTo(stmt, k) /\ UpTo(stmt, k) \subseteq D
                        /\ Cardinality(UpTo(stmt, k)) \in 1..n
    OBVIOUS
  <2>2. k \in UpTo(stmt, k) /\ UpTo(stmt, k) \subseteq D
    BY DEF UpTo
  <2>3. IsFiniteSet(UpTo(stmt, k)) /\ Cardinality(UpTo(stmt, k)) <= Cardinality(D)
    BY <1>1, <2>2, FS_Subset
  <2>4. Cardinality(UpTo(stmt, k)) \in Nat /\ Cardinality(UpTo(stmt, k)) # 0
    BY <2>2, <2>3, FS_CardinalityType, FS_EmptySet
  <2>5. QED  BY <1>1, <2>2, <2>3, <2>4
<1>5. ASSUME NEW j \in D, NEW k \in D, j # k PROVE PlaceOf(stmt, j) # PlaceOf(stmt, k)
  <2>1. \/ UpTo(stmt, j) \subseteq UpTo(stmt, k) /\ k \notin UpTo(stmt, j)
        \/ UpTo(stmt, k) \subseteq UpTo(stmt, j) /\ j \notin UpTo(stmt, k)
    <3>1. stmt[j].page_no \in Int /\ stmt[k].page_no \in Int /\ \A l \in D : stmt[l].page_no \in Int
      BY <1>2
    <3>2. CASE stmt[j].page_no < stmt[k].page_no \/ (stmt[j].page_no = stmt[k].page_no /\ j < k)
      BY <3>1, <3>2 DEF UpTo
    <3>3. CASE stmt[k].page_no < stmt[j].page_no \/ (stmt[j].page_no = stmt[k].page_no /\ k < j)
      BY <3>1, <3>3 DEF UpTo
    <3>4. \/ stmt[j].page_no < stmt[k].page_no \/ stmt[k].page_no < stmt[j].page_no
          \/ stmt[j].page_no = stmt[k].page_no
      BY <3>1
    <3>5. j < k \/ k < j
      BY <1>5
    <3>6. QED  BY <3>2, <3>3, <3>4, <3>5
  <2>2. UpTo(stmt, j) # UpTo(stmt, k)
    BY <1>4, <2>1
  <2>3. Cardinality(UpTo(stmt, j)) # Cardinality(UpTo(stmt, k))
    BY <1>4, <2>1, <2>2, FS_Subset
  <2>4. QED  BY <1>3, <2>3
<1>6. place \in Injection(D, D)
  <2>1. place \in [D -> D]
    BY <1>3, <1>4
  <2>2. \A j, k \in D : place[j] = place[k] => j = k
    BY <1>5
  <2> HIDE DEF place
  <2>3. QED  BY <2>1, <2>2 DEF Injection, IsInjective
<1>7. place \in Surjection(D, D)
  <2> HIDE DEF place, D
  <2>1. QED  BY <1>1, <1>6, FS_Injection
<1>8. \A i \in D : \E k \in D : place[k] = i
  <2> HIDE DEF place
  <2>1. QED  BY <1>7 DEF Surjection
<1>9. QED  BY <1>3, <1>4, <1>5, <1>8

(* The pages are all there, in their order.                                *)
LEMMA PagesAreOrdered ==
  ASSUME NEW stmt \in Seq(StatementPage)
  PROVE  /\ OrderedPages(stmt) \in [1..Len(stmt) -> StatementPage]
         /\ \A k \in 1..Len(stmt) : \E i \in 1..Len(stmt) : OrderedPages(stmt)[i] = stmt[k]
<1> DEFINE n == Len(stmt)
           Chosen(i) == CHOOSE k \in 1..n : PlaceOf(stmt, k) = i
<1>1. ASSUME NEW i \in 1..n
      PROVE  Chosen(i) \in 1..n /\ PlaceOf(stmt, Chosen(i)) = i /\ OrderedPages(stmt)[i] = stmt[Chosen(i)]
  <2>1. \E k \in 1..n : PlaceOf(stmt, k) = i
    BY PagesKeepPlaces
  <2>2. OrderedPages(stmt)[i] = stmt[Chosen(i)]
    BY DEF OrderedPages
  <2>3. QED  BY <2>1, <2>2
<1>2. OrderedPages(stmt) \in [1..n -> StatementPage]
  <2>1. ASSUME NEW i \in 1..n PROVE OrderedPages(stmt)[i] \in StatementPage
    <3>1. stmt[Chosen(i)] \in StatementPage
      BY <1>1, <2>1
    <3>2. QED  BY <1>1, <3>1
  <2>2. OrderedPages(stmt) = [i \in 1..n |-> OrderedPages(stmt)[i]]
    BY DEF OrderedPages
  <2>3. QED  BY <2>1, <2>2
<1>3. ASSUME NEW k \in 1..n PROVE \E i \in 1..n : OrderedPages(stmt)[i] = stmt[k]
  <2>1. PlaceOf(stmt, k) \in 1..n
    BY PagesKeepPlaces
  <2>2. Chosen(PlaceOf(stmt, k)) = k
    BY <1>1, <2>1, PagesKeepPlaces
  <2>3. QED  BY <1>1, <2>1, <2>2
<1>4. QED  BY <1>2, <1>3

(* upto are the first of seqs, one after the other.                        *)
IsFlattened(upto, seqs, n) ==
  /\ n = 0 => FlattenSeq(seqs) = <<>>
  /\ n # 0 => FlattenSeq(seqs) = upto[n]
  /\ \A i \in 1..n : upto[i] = IF i = 1 THEN seqs[i] ELSE upto[i - 1] \o seqs[i]

(* FlattenSeq puts sequences one after the other.                          *)
LEMMA FlattenedSteps ==
  ASSUME NEW T, NEW n \in Nat, NEW seqs \in [1..n -> Seq(T)]
  PROVE  \E upto : IsFlattened(upto, seqs, n)
<1> DEFINE Eq(g) == g = [i \in 1..n |-> IF i = 1 THEN seqs[i] ELSE g[i - 1] \o seqs[i]]
           it == CHOOSE g : Eq(g)
           D == 1..n
           pick == [s \in SUBSET D |-> Max(s)]
           h == [p \in D \X Seq(T) |-> p[2] \o seqs[p[1]]]
<1>1. Len(seqs) = n
  BY LenProperties
<1>2. n = 0 => FlattenSeq(seqs) = <<>>
  BY <1>1 DEF FlattenSeq
<1>3. n # 0 => FlattenSeq(seqs) = it[n]
  BY <1>1 DEF FlattenSeq
<1>4. Picks(pick, D)
  <2>1. ASSUME NEW s \in SUBSET D, s # {} PROVE Max(s) \in s
    <3>1. s \in SUBSET Nat /\ \A m \in s : m <= n
      OBVIOUS
    <3>2. QED  BY <2>1, <3>1, MaxOfNaturals
  <2>2. QED  BY <2>1 DEF Picks
<1>5. h \in [D \X Seq(T) -> Seq(T)] /\ <<>> \in Seq(T) /\ IsFiniteSet(D)
  <2>1. IsFiniteSet(D)
    BY FS_Interval
  <2>2. ASSUME NEW i \in D, NEW s \in Seq(T) PROVE s \o seqs[i] \in Seq(T)
    BY ConcatProperties
  <2>3. h \in [D \X Seq(T) -> Seq(T)]
    BY <2>2
  <2>4. <<>> \in Seq(T)
    OBVIOUS
  <2>5. QED  BY <2>1, <2>3, <2>4
<1> HIDE DEF D, h, pick
<1>6. PICK g \in [SUBSET D -> Seq(T)] : IsFold(g, <<>>, h, pick, D)
  BY <1>4, <1>5, FoldExists
<1> DEFINE f == [i \in 1..n |-> g[1..i]]
<1>7. \A i \in 1..n : g[1..i] \in Seq(T) /\ g[1..i] = g[1..(i - 1)] \o seqs[i]
  <2>1. SUFFICES ASSUME NEW i \in 1..n PROVE g[1..i] \in Seq(T) /\ g[1..i] = g[1..(i - 1)] \o seqs[i]
    OBVIOUS
  <2> DEFINE S == 1..i
             U == 1..(i - 1)
  <2>2. S \in SUBSET D /\ U \in SUBSET D /\ S # {} /\ S \ {i} = U /\ i \in D
    <3>1. S \in SUBSET D
      BY DEF D
    <3>2. i \in S /\ S \ {i} = U
      OBVIOUS
    <3> HIDE DEF S, U
    <3>3. QED  BY <3>1, <3>2
  <2>3. pick[S] = i
    BY <2>2, MaxUpTo DEF pick
  <2>4. g[S] \in Seq(T) /\ g[U] \in Seq(T)
    BY <1>6, <2>2
  <2>5. h[<<i, g[U]>>] = g[U] \o seqs[i]
    BY <2>2, <2>4 DEF h
  <2> HIDE DEF S, U
  <2>6. g[S] = g[U] \o seqs[i]
    BY <1>6, <2>2, <2>3, <2>5 DEF IsFold
  <2>7. QED  BY <2>4, <2>6 DEF S, U
<1>8. 1..0 \in SUBSET D /\ 1..0 = {} /\ g[1..0] = <<>>
  <2>1. 1..0 = {}
    OBVIOUS
  <2>2. g[{}] = <<>>
    BY <1>6 DEF IsFold
  <2>3. QED  BY <2>1, <2>2
<1>9. \A i \in 1..n : f[i] = IF i = 1 THEN seqs[i] ELSE f[i - 1] \o seqs[i]
  <2>1. ASSUME NEW i \in 1..n, i = 1 PROVE g[1..i] = seqs[i]
    <3>1. g[1..1] = g[1..(1 - 1)] \o seqs[1]
      BY <1>7, <2>1
    <3>2. 1 - 1 = 0
      OBVIOUS
    <3>3. g[1..1] = <<>> \o seqs[1]
      BY <1>8, <3>1, <3>2
    <3>4. seqs[1] \in Seq(T)
      BY <2>1
    <3>5. QED  BY <2>1, <3>3, <3>4
  <2>2. ASSUME NEW i \in 1..n, i # 1 PROVE g[1..i] = f[i - 1] \o seqs[i]
    <3>1. i - 1 \in 1..n
      BY <2>2
    <3>2. QED  BY <1>7, <3>1
  <2>3. QED  BY <2>1, <2>2
<1>10. Eq(f)
  <2>1. f = [i \in 1..n |-> f[i]]
    OBVIOUS
  <2> HIDE DEF f
  <2>2. QED  BY <1>9, <2>1
<1>11. Eq(it)
  BY <1>10
<1>12. \A i \in 1..n : it[i] = IF i = 1 THEN seqs[i] ELSE it[i - 1] \o seqs[i]
  <2> HIDE DEF it
  <2>1. QED  BY <1>11
<1>13. IsFlattened(it, seqs, n)
  <2> HIDE DEF it
  <2>1. QED  BY <1>2, <1>3, <1>12 DEF IsFlattened
<1>14. QED  BY <1>13

(* ... so it is a sequence, and of one or two sequences what they are.     *)
LEMMA FlattenedType ==
  ASSUME NEW T, NEW n \in Nat, NEW seqs \in [1..n -> Seq(T)]
  PROVE  FlattenSeq(seqs) \in Seq(T)
<1>1. PICK it : IsFlattened(it, seqs, n)
  BY FlattenedSteps
<1> DEFINE N == {k \in Nat : k \in 1..n => it[k] \in Seq(T)}
<1>2. 0 \in N
  OBVIOUS
<1>3. ASSUME NEW k \in N PROVE k + 1 \in N
  <2>1. SUFFICES ASSUME k + 1 \in 1..n PROVE it[k + 1] \in Seq(T)
    OBVIOUS
  <2>2. it[k + 1] = IF k + 1 = 1 THEN seqs[k + 1] ELSE it[(k + 1) - 1] \o seqs[k + 1]
    BY <1>1, <2>1 DEF IsFlattened
  <2>3. seqs[k + 1] \in Seq(T)
    BY <2>1
  <2>4. k # 0 => it[k] \in Seq(T)
    BY <2>1
  <2>5. (k + 1) - 1 = k /\ (k + 1 = 1 <=> k = 0)
    OBVIOUS
  <2>6. QED  BY <2>2, <2>3, <2>4, <2>5
<1>4. N = Nat
  <2> HIDE DEF N
  <2>1. N \in SUBSET Nat
    BY DEF N
  <2>2. QED  BY <1>2, <1>3, <2>1, NatInduct
<1>5. n \in N
  BY <1>4
<1>6. QED  BY <1>1, <1>5 DEF IsFlattened

LEMMA FlattenedFew ==
  ASSUME NEW T, NEW n \in {1, 2}, NEW seqs \in [1..n -> Seq(T)]
  PROVE  FlattenSeq(seqs) = IF n = 1 THEN seqs[1] ELSE seqs[1] \o seqs[2]
<1>1. PICK it : IsFlattened(it, seqs, n)
  BY FlattenedSteps
<1>2. FlattenSeq(seqs) = it[n] /\ it[1] = seqs[1]
  <2>1. n # 0 /\ 1 \in 1..n
    OBVIOUS
  <2>2. QED  BY <1>1, <2>1 DEF IsFlattened
<1>3. n = 2 => it[2] = it[1] \o seqs[2]
  <2>1. n = 2 => 2 \in 1..n /\ 2 # 1 /\ 2 - 1 = 1
    OBVIOUS
  <2>2. QED  BY <1>1, <2>1 DEF IsFlattened
<1>4. CASE n = 1
  BY <1>2, <1>4
<1>5. CASE n = 2
  BY <1>2, <1>3, <1>5
<1>6. QED  BY <1>4, <1>5

LEMMA FirstOfType ==
  ASSUME NEW n \in Nat, NEW values \in [1..n -> Posted]
  PROVE  FirstOf(values) \in Posted /\ (FirstOf(values) = None => \A k \in 1..n : values[k] = None)
<1> DEFINE there == {k \in 1..Len(values) : values[k] # None}
<1>1. Len(values) = n
  BY LenProperties
<1>2. there \in SUBSET Nat /\ there \subseteq 1..n
  BY <1>1
<1>3. CASE there = {}
  <2>1. FirstOf(values) = None
    BY <1>3 DEF FirstOf
  <2>2. QED  BY <1>1, <1>3, <2>1 DEF Posted
<1>4. CASE there # {}
  <2>1. Min(there) \in there
    BY <1>2, <1>4, MinOfNaturals
  <2>2. FirstOf(values) = values[Min(there)]
    BY <1>4 DEF FirstOf
  <2>3. QED  BY <1>2, <2>1, <2>2
<1>5. QED  BY <1>3, <1>4

LEMMA PageFields ==
  ASSUME NEW page \in StatementPage
  PROVE  page.page_no \in Int /\ page.opening \in Posted /\ page.rows \in Seq(StatedRow)
BY DEF StatementPage

LEMMA ReversedType ==
  ASSUME NEW T, NEW s \in Seq(T)
  PROVE  Reverse(s) \in Seq(T)
<1> DEFINE n == Len(s)
<1>1. n \in Nat /\ s \in [1..n -> T]
  BY LenProperties
<1>2. ASSUME NEW i \in 1..n PROVE s[(n - i) + 1] \in T
  <2>1. (n - i) + 1 \in 1..n
    BY <1>1
  <2>2. QED  BY <1>1, <2>1
<1>3. Reverse(s) = [i \in 1..n |-> s[(n - i) + 1]]
  BY DEF Reverse
<1> HIDE DEF n
<1>4. Reverse(s) \in [1..n -> T]
  BY <1>2, <1>3
<1>5. QED  BY <1>1, <1>4

LEMMA ReadingType ==
  ASSUME NEW stmt \in Seq(StatementPage)
  PROVE  Reading(stmt) \in Seq(StatedRow)
<1> DEFINE n == Len(stmt)
           rows == [k \in 1..n |-> OrderedPages(stmt)[k].rows]
<1>1. n \in Nat
  OBVIOUS
<1>2. rows \in [1..n -> Seq(StatedRow)]
  BY PagesAreOrdered, PageFields
<1>3. Printed(stmt) = FlattenSeq(rows)
  BY DEF Printed
<1> HIDE DEF n, rows
<1>4. Printed(stmt) \in Seq(StatedRow)
  BY <1>1, <1>2, <1>3, FlattenedType
<1>5. QED  BY <1>4, ReversedType DEF Reading

LEMMA OpeningsAre ==
  ASSUME NEW stmt \in Seq(StatementPage)
  PROVE  /\ Len(stmt) \in Nat /\ Openings(stmt) \in [1..Len(stmt) -> Posted]
         /\ \A k \in 1..Len(stmt) : \E i \in 1..Len(stmt) : stmt[k].opening = Openings(stmt)[i]
<1> DEFINE n == Len(stmt)
<1>1. n \in Nat
  OBVIOUS
<1>2. Openings(stmt) = [k \in 1..n |-> OrderedPages(stmt)[k].opening]
  BY DEF Openings
<1>3. Openings(stmt) \in [1..n -> Posted]
  BY <1>2, PagesAreOrdered, PageFields
<1>4. ASSUME NEW k \in 1..n PROVE \E i \in 1..n : stmt[k].opening = Openings(stmt)[i]
  <2>1. PICK i \in 1..n : OrderedPages(stmt)[i] = stmt[k]
    BY PagesAreOrdered
  <2>2. Openings(stmt)[i] = stmt[k].opening
    BY <1>2, <2>1
  <2>3. QED  BY <2>2
<1>5. QED  BY <1>1, <1>3, <1>4

LEMMA PageOpeningIs ==
  ASSUME NEW stmt \in Seq(StatementPage), NEW p
  PROVE  PageOpening(stmt, p) = None \/ \E k \in 1..Len(stmt) : PageOpening(stmt, p) = stmt[k].opening
<1> DEFINE there == {k \in 1..Len(stmt) : stmt[k].page_no = p}
<1>1. CASE there = {}
  BY <1>1 DEF PageOpening
<1>2. CASE there # {}
  <2>1. there \in SUBSET Nat /\ Len(stmt) \in Nat /\ \A m \in there : m <= Len(stmt)
    OBVIOUS
  <2>2. Max(there) \in there
    <3> HIDE DEF there
    <3>1. QED  BY <1>2, <2>1, MaxOfNaturals
  <2>3. PageOpening(stmt, p) = stmt[Max(there)].opening
    BY <1>2 DEF PageOpening
  <2>4. QED  BY <2>2, <2>3
<1>3. QED  BY <1>1, <1>2

LEMMA FilesAreStatements ==
  ASSUME None \notin Int, NEW stmt \in Seq(StatementPage)
  PROVE  IsStatement(stmt) /\ NoPageOpens(stmt)
<1> DEFINE rows == Reading(stmt)
<1>1. rows \in Seq(StatedRow)
  BY ReadingType
<1>2. \A k \in 1..Len(stmt) : stmt[k].opening \in Posted
  BY PageFields
<1>3. \A p \in Int : PageOpening(stmt, p) \in Posted
  BY <1>2, PageOpeningIs DEF Posted
<1>4. FirstOf(Openings(stmt)) \in Posted
  BY OpeningsAre, FirstOfType
<1>5. OpeningBalance(stmt) \in Posted
  <2>1. CASE Derived(stmt) /\ rows # <<>> /\ rows[1].balance # None
    <3>1. rows[1] \in StatedRow
      BY <1>1, <2>1
    <3>2. rows[1].balance \in Int /\ Net(rows[1]) \in Posted
      BY <2>1, <3>1, NetType DEF StatedRow, Posted
    <3>3. OrZero(Net(rows[1])) \in Int
      BY <3>2 DEF OrZero, Posted
    <3>4. OpeningBalance(stmt) = rows[1].balance - OrZero(Net(rows[1]))
      BY <2>1 DEF OpeningBalance
    <3> HIDE DEF rows
    <3>5. OpeningBalance(stmt) \in Int
      BY <3>2, <3>3, <3>4
    <3>6. QED  BY <3>5 DEF Posted
  <2>2. CASE Derived(stmt) /\ (rows = <<>> \/ rows[1].balance = None)
    BY <2>2 DEF OpeningBalance, Posted
  <2>3. CASE ~Derived(stmt)
    BY <1>4, <2>3 DEF OpeningBalance
  <2>4. QED  BY <2>1, <2>2, <2>3
<1>6. ASSUME Derived(stmt), NEW p \in Int PROVE PageOpening(stmt, p) = None
  <2>1. \A k \in 1..Len(stmt) : Openings(stmt)[k] = None
    BY <1>6, OpeningsAre, FirstOfType DEF Derived
  <2>2. \A k \in 1..Len(stmt) : stmt[k].opening = None
    BY <2>1, OpeningsAre
  <2>3. QED  BY <2>2, PageOpeningIs
<1>7. QED  BY <1>1, <1>3, <1>5, <1>6 DEF IsStatement, NoPageOpens

(* check_file: whatever its pages print, a file whose opening balance is   *)
(* known (HasBasis) reconciles exactly when some account explains it: sides *)
(* for the amounts without one and a balance to begin with, under which    *)
(* every figure is true.  Each row moves something that can be told.       *)
THEOREM FilesAreJudged ==
  ASSUME None \notin Int, NEW stmt \in Seq(StatementPage), Reading(stmt) # <<>>,
         \A k \in 1..Len(Reading(stmt)) : Moving(Reading(stmt)[k]),
         NEW starts \in SUBSET Int, OpeningBalance(stmt) \in starts
  PROVE  FileIsJudged(stmt, starts)
<1>1. IsStatement(stmt) /\ NoPageOpens(stmt)
  BY FilesAreStatements
<1>2. IsLedger(stmt)
  BY <1>1 DEF IsLedger
<1>3. QED  BY <1>1, <1>2, LedgersAreJudged

-----------------------------------------------------------------------------
(* evaluate: a page and what its answer is scored.                         *)

(* A rate, as its two parts.                                               *)
Natural2 == Nat \X Nat

LEMMA ProductIsNatural ==
  ASSUME NEW a \in Nat, NEW b \in Nat
  PROVE  a * b \in Nat
OBVIOUS

(* What the scores of a page are made of are counts.                       *)
LEMMA RateType ==
  ASSUME NEW part \in Nat, NEW whole \in Nat, NEW other \in Nat
  PROVE  Rate(part, whole, other) \in Natural2
BY DEF Rate, Natural2

LEMMA F1Type ==
  ASSUME NEW p \in Natural2, NEW r \in Natural2
  PROVE  F1(p, r) \in Natural2
<1>1. p[1] \in Nat /\ p[2] \in Nat /\ r[1] \in Nat /\ r[2] \in Nat
  BY DEF Natural2
<1> DEFINE sum == p[1] * r[2] + r[1] * p[2]
           top == 2 * p[1] * r[1]
<1>2. sum \in Nat
  <2>1. p[1] * r[2] \in Nat /\ r[1] * p[2] \in Nat
    BY <1>1, ProductIsNatural
  <2>2. QED  BY <2>1
<1>3. top \in Nat
  <2>1. 2 * p[1] \in Nat
    BY <1>1
  <2>2. QED  BY <1>1, <2>1, ProductIsNatural
<1>4. F1(p, r) = IF sum = 0 THEN <<0, 1>> ELSE <<top, sum>>
  BY DEF F1
<1> HIDE DEF sum, top
<1>5. QED  BY <1>2, <1>3, <1>4 DEF Natural2

(* A precision, recall and F1 are rates.                                   *)
ArePrf(r) == r.precision \in Natural2 /\ r.recall \in Natural2 /\ r.f1 \in Natural2

LEMMA PrfType ==
  ASSUME NEW tp \in Nat, NEW pred \in Nat, NEW tr \in Nat
  PROVE  ArePrf(Prf(tp, pred, tr))
BY RateType, F1Type DEF Prf, ArePrf

LEMMA MicroPrfType ==
  ASSUME NEW scored, IsFiniteSet(DOMAIN scored)
  PROVE  ArePrf(MicroPrf(scored))
<1> DEFINE A == {k \in DOMAIN scored : scored[k].field_exact /\ scored[k].pred # None /\ scored[k].in_gt}
           B == {k \in DOMAIN scored : scored[k].pred # None}
           C == {k \in DOMAIN scored : scored[k].gt # None /\ scored[k].in_gt}
<1>1. MicroPrf(scored) = Prf(Cardinality(A), Cardinality(B), Cardinality(C))
  BY DEF MicroPrf
<1>2. A \subseteq DOMAIN scored /\ B \subseteq DOMAIN scored /\ C \subseteq DOMAIN scored
  OBVIOUS
<1> HIDE DEF A, B, C
<1>3. Cardinality(A) \in Nat /\ Cardinality(B) \in Nat /\ Cardinality(C) \in Nat
  BY <1>2, FS_Subset, FS_CardinalityType
<1>4. QED  BY <1>1, <1>3, PrfType

(* The rows of a page that the truth has as well.                          *)
LEMMA RowKeysAreFinite ==
  ASSUME NEW T, NEW rows \in Seq(T)
  PROVE  IsFiniteSet(RowKeys(rows))
<1> DEFINE D == 1..Len(rows)
           f == [k \in D |-> RowKey(rows[k])]
<1>1. IsFiniteSet(D)
  BY FS_Interval
<1>2. f \in Surjection(D, RowKeys(rows))
  <2>1. f \in [D -> RowKeys(rows)] /\ \A x \in RowKeys(rows) : \E k \in D : f[k] = x
    BY DEF RowKeys
  <2> HIDE DEF f, D
  <2>2. QED  BY <2>1 DEF Surjection
<1>3. QED
  <2> HIDE DEF f, D
  <2>1. QED  BY <1>1, <1>2, FS_Surjection

LEMMA CopiesType ==
  ASSUME NEW T, NEW rows \in Seq(T), NEW key
  PROVE  Copies(rows, key) \in Nat
<1>1. IsFiniteSet(1..Len(rows))
  BY FS_Interval
<1>2. {k \in 1..Len(rows) : RowKey(rows[k]) = key} \subseteq 1..Len(rows)
  OBVIOUS
<1>3. QED  BY <1>1, <1>2, FS_Subset, FS_CardinalityType DEF Copies

(* The rows of a page that are in the truth, copy for copy, added up. *)
RowsMatched(pred, tr) == MapThenSumSet(LAMBDA key : Min({Copies(pred, key), Copies(tr, key)}), RowKeys(tr))

LEMMA MatchedSum ==
  ASSUME NEW pred, NEW tr, IsFiniteSet(RowKeys(tr)), \A key \in RowKeys(tr) : Min({Copies(pred, key), Copies(tr, key)}) \in Int
  PROVE  \E f \in [SUBSET RowKeys(tr) -> Int] :
           IsSum(f, [x \in RowKeys(tr) |-> Min({Copies(pred, x), Copies(tr, x)})], RowKeys(tr)) /\ RowsMatched(pred, tr) = f[RowKeys(tr)]
<1> DEFINE V(x) == Min({Copies(pred, x), Copies(tr, x)})
           Q == RowKeys(tr)
           F == [x \in Q |-> V(x)]
           Eq(g) == g = [s \in SUBSET Q |-> IF s = {} THEN 0
                         ELSE LET x == CHOOSE x \in s : TRUE IN V(x) + g[s \ {x}]]
           it == CHOOSE g : Eq(g)
<1>1. RowsMatched(pred, tr) = it[Q]
  BY DEF RowsMatched, MapThenSumSet, MapThenFoldSet
<1>2. \A x \in Q : V(x) \in Int
  OBVIOUS
<1>3. IsFiniteSet(Q)
  BY FS_Interval
<1> HIDE DEF V, Q
<1>4. F \in [Q -> Int]
  BY <1>2
<1>5. PICK g \in [SUBSET Q -> Int] : IsSum(g, F, Q)
  BY <1>3, <1>4, SumExists
<1>6. \A s \in SUBSET Q : s # {} => One(s) \in Q /\ F[One(s)] = V(One(s))
  BY DEF One
<1>7. Eq(g)
  BY <1>5, <1>6 DEF IsSum, One
<1>8. Eq(it)
  BY <1>7
<1>9. IsSum(it, F, Q) /\ it = [s \in SUBSET Q |-> it[s]]
  <2> HIDE DEF it, F
  <2>1. QED  BY <1>6, <1>8 DEF IsSum, One
<1>10. \E f \in [SUBSET Q -> Int] : IsSum(f, F, Q) /\ RowsMatched(pred, tr) = f[Q]
  <2> HIDE DEF it, F
  <2>1. it \in [SUBSET Q -> Int]
    BY <1>3, <1>4, <1>9, SumIsFunction
  <2>2. QED  BY <1>1, <1>9, <2>1
<1>11. QED  BY <1>10 DEF Q, V

LEMMA RowsMatchedType ==
  ASSUME NEW T, NEW pred \in Seq(T), NEW tr \in Seq(T)
  PROVE  RowsMatched(pred, tr) \in Nat
<1> DEFINE Q == RowKeys(tr)
           F == [x \in Q |-> Min({Copies(pred, x), Copies(tr, x)})]
<1>1. IsFiniteSet(Q)
  BY RowKeysAreFinite
<1>2. \A x \in Q : F[x] \in Nat
  <2>1. ASSUME NEW x \in Q PROVE Min({Copies(pred, x), Copies(tr, x)}) \in Nat
    <3> DEFINE a == Copies(pred, x)
               b == Copies(tr, x)
    <3>1. a \in Nat /\ b \in Nat
      BY CopiesType
    <3> HIDE DEF a, b
    <3>2. Min({a, b}) \in {a, b}
      BY <3>1, MinOfNaturals
    <3>3. Min({a, b}) \in Nat
      BY <3>1, <3>2
    <3>4. QED  BY <3>3 DEF a, b
  <2>2. QED  BY <2>1
<1>3. \A x \in Q : Min({Copies(pred, x), Copies(tr, x)}) \in Int
  BY <1>2
<1>4. PICK f \in [SUBSET Q -> Int] : IsSum(f, F, Q) /\ RowsMatched(pred, tr) = f[Q]
  BY <1>1, <1>3, MatchedSum
<1>5. f[Q] \in Nat
  <2> HIDE DEF Q, F
  <2>1. Nat \in SUBSET Int /\ 0 \in Nat /\ \A a, b \in Nat : a + b \in Nat
    OBVIOUS
  <2>2. QED  BY <1>1, <1>2, <1>4, <2>1, SumType
<1>6. QED  BY <1>4, <1>5

LEMMA RowPrfType ==
  ASSUME NEW T, NEW pred \in Seq(T), NEW tr \in Seq(T)
  PROVE  ArePrf(RowPrf(pred, tr))
<1>1. RowPrf(pred, tr) = Prf(RowsMatched(pred, tr), Len(pred), Len(tr))
  BY DEF RowPrf, RowsMatched
<1>2. Len(pred) \in Nat /\ Len(tr) \in Nat
  BY LenProperties
<1>3. QED  BY <1>1, <1>2, RowsMatchedType, PrfType

(* A value of a metric that is a rate; an error rate is at most one.       *)
IsValue(metric, v) == v \in Natural2 /\ (metric \in {"cer", "wer"} => v[1] <= v[2])

IsNoBetter(failed, answered) ==
  /\ DOMAIN failed = DOMAIN answered
  /\ \A m \in DOMAIN failed : NoBetter(m, failed[m], answered[m])

LEMMA WorstIsWorst ==
  ASSUME None \notin Natural2, NEW metric, NEW v, IsValue(metric, v)
  PROVE  NoBetter(metric, Worst(metric), v)
<1>1. v[1] \in Nat /\ v[2] \in Nat /\ v # None /\ Worst(metric) # None
  BY DEF IsValue, Natural2, Worst
<1>2. CASE metric \in {"cer", "wer"}
  <2>1. v[1] * 1 <= 1 * v[2]
    BY <1>1, <1>2 DEF IsValue
  <2>2. QED  BY <1>1, <1>2, <2>1 DEF NoBetter, AtMost, Worst
<1>3. CASE metric \notin {"cer", "wer"}
  <2>1. 0 * v[2] <= v[1] * 1
    BY <1>1
  <2>2. QED  BY <1>1, <1>3, <2>1 DEF NoBetter, AtMost, Worst
<1>4. QED  BY <1>2, <1>3

LEMMA WorstIsNoBetter ==
  ASSUME None \notin Natural2, NEW none, NEW f,
         \A m \in DOMAIN f : IF m \in none THEN f[m] = None ELSE IsValue(m, f[m])
  PROVE  IsNoBetter([m \in DOMAIN f |-> IF m \in none THEN None ELSE Worst(m)], f)
<1>1. ASSUME NEW m \in DOMAIN f
      PROVE  NoBetter(m, IF m \in none THEN None ELSE Worst(m), f[m])
  <2>1. CASE m \in none
    BY <2>1 DEF NoBetter
  <2>2. CASE m \notin none
    BY <2>2, WorstIsWorst
  <2>3. QED  BY <2>1, <2>2
<1>2. QED  BY <1>1 DEF IsNoBetter

LEMMA LikenessIsValue ==
  ASSUME NEW likeness \in 0..100
  PROVE  /\ \A m : m \notin {"cer", "wer"} => IsValue(m, Scaled(likeness))
         /\ \A m : IsValue(m, Missed(likeness))
<1>1. likeness \in Nat /\ 100 - likeness \in Nat /\ 100 - likeness <= 100
  OBVIOUS
<1>2. QED  BY <1>1 DEF IsValue, Natural2, Scaled, Missed

-----------------------------------------------------------------------------
(* A prediction that there may be, for a page of the manifest.             *)
IsAnswer(p) ==
  /\ p.likeness \in 0..100
  /\ IsFiniteSet(DOMAIN p.fields) /\ IsFiniteSet(DOMAIN p.reread)
  /\ \E T : p.rows \in Seq(T)

(* A truth has finitely many fields, and rows.                             *)
IsTruth(tr) == IsFiniteSet(DOMAIN tr.fields) /\ \E T : tr.rows \in Seq(T)

LEMMA MeasureType ==
  ASSUME NEW row, NEW tr
  PROVE  Measure(row, tr) \in {"no_gt", "text", "markup", "kie", "classify", "statement", "not_applicable"}
BY DEF Measure

(* The official score of a row that has one.                               *)
Tob(row, p) == IF row.tob = None THEN <<>> ELSE [tob_score |-> Scaled(AnswerLikeness(p))]

LEMMA AnswerLikenessType ==
  ASSUME NEW p, IsAnswer(p)
  PROVE  AnswerLikeness(p) \in 0..100
BY DEF AnswerLikeness, IsAnswer

LEMMA TobType ==
  ASSUME NEW row, NEW p, IsAnswer(p)
  PROVE  /\ DOMAIN Tob(row, p) = IF row.tob # None THEN {"tob_score"} ELSE {}
         /\ \A m \in DOMAIN Tob(row, p) : IsValue(m, Tob(row, p)[m])
<1>1. CASE row.tob = None
  <2>1. Tob(row, p) = <<>>
    BY <1>1 DEF Tob
  <2>2. QED  BY <1>1, <2>1
<1>2. CASE row.tob # None
  <2>1. Tob(row, p) = [tob_score |-> Scaled(AnswerLikeness(p))]
    BY <1>2 DEF Tob
  <2>2. IsValue("tob_score", Scaled(AnswerLikeness(p)))
    BY AnswerLikenessType, LikenessIsValue
  <2>3. QED  BY <1>2, <2>1, <2>2
<1>3. QED  BY <1>1, <1>2

(* What is named in one of two is in both. *)
LEMMA WithType ==
  ASSUME NEW f, NEW g
  PROVE  /\ DOMAIN With(f, g) = DOMAIN f \cup DOMAIN g
         /\ \A m \in DOMAIN f : With(f, g)[m] = f[m]
         /\ \A m \in DOMAIN g \ DOMAIN f : With(f, g)[m] = g[m]
BY DEF With

LEMMA WithValues ==
  ASSUME NEW f, \A m \in DOMAIN f : IsValue(m, f[m]), NEW g, \A m \in DOMAIN g : IsValue(m, g[m])
  PROVE  \A m \in DOMAIN With(f, g) : IsValue(m, With(f, g)[m])
<1>1. ASSUME NEW m \in DOMAIN With(f, g) PROVE IsValue(m, With(f, g)[m])
  <2>1. CASE m \in DOMAIN f
    BY <2>1, WithType
  <2>2. CASE m \notin DOMAIN f
    <3>1. m \in DOMAIN g \ DOMAIN f
      BY <1>1, <2>2, WithType
    <3>2. With(f, g)[m] = g[m]
      BY <3>1, <2>2 DEF With
    <3>3. QED  BY <3>1, <3>2
  <2>3. QED  BY <2>1, <2>2
<1>2. QED  BY <1>1

LEMMA KieType ==
  ASSUME NEW p, IsAnswer(p), NEW tr, IsTruth(tr)
  PROVE  ArePrf(MicroPrf(ScoreFields(PredFields(p), tr.fields)))
<1>1. IsFiniteSet(DOMAIN PredFields(p)) /\ IsFiniteSet(DOMAIN tr.fields)
  BY DEF PredFields, IsAnswer, IsTruth
<1>2. DOMAIN ScoreFields(PredFields(p), tr.fields) = DOMAIN PredFields(p) \cup DOMAIN tr.fields
  BY DEF ScoreFields
<1>3. IsFiniteSet(DOMAIN PredFields(p) \cup DOMAIN tr.fields)
  BY <1>1, FS_Union
<1>4. QED  BY <1>2, <1>3, MicroPrfType

(* The metrics of a page beside its official score: those of names have a  *)
(* value, those of none have none.                                         *)
IsMeasured(f, names, none) ==
  /\ DOMAIN f = names
  /\ \A m \in names : IF m \in none THEN f[m] = None ELSE IsValue(m, f[m])

LEMMA MeasuredIsNoBetter ==
  ASSUME None \notin Natural2, NEW row, NEW p, IsAnswer(p), NEW f, NEW names, IsMeasured(f, names, {}),
         NEW worst,
         worst = [m \in names \cup (IF row.tob # None THEN {"tob_score"} ELSE {}) |->
                    IF m \in {} THEN None ELSE Worst(m)]
  PROVE  IsNoBetter(worst, With(Tob(row, p), f))
<1> DEFINE t == Tob(row, p)
           v == With(t, f)
<1>1. DOMAIN v = names \cup (IF row.tob # None THEN {"tob_score"} ELSE {})
  <2>1. DOMAIN f = names
    BY DEF IsMeasured
  <2>2. DOMAIN t = IF row.tob # None THEN {"tob_score"} ELSE {}
    BY TobType
  <2> HIDE DEF t
  <2>3. QED  BY <2>1, <2>2 DEF With
<1>2. \A m \in DOMAIN v : IsValue(m, v[m])
  <2>1. \A m \in DOMAIN f : IsValue(m, f[m])
    BY DEF IsMeasured
  <2>2. \A m \in DOMAIN t : IsValue(m, t[m])
    BY TobType
  <2> HIDE DEF t
  <2>3. QED  BY <2>1, <2>2, WithValues
<1>3. worst = [m \in DOMAIN v |-> IF m \in {} THEN None ELSE Worst(m)]
  BY <1>1
<1> HIDE DEF v
<1>4. \A m \in DOMAIN v : IF m \in {} THEN v[m] = None ELSE IsValue(m, v[m])
  BY <1>2
<1>5. IsNoBetter([m \in DOMAIN v |-> IF m \in {} THEN None ELSE Worst(m)], v)
  BY <1>4, WorstIsNoBetter
<1>6. QED  BY <1>3, <1>5 DEF v

LEMMA TextMiss ==
  ASSUME None \notin Natural2, NEW row, NEW tr, NEW p, IsAnswer(p), Measure(row, tr) = "text"
  PROVE  IsNoBetter(WorstValues(row, tr), MetricValues(row, tr, p))
<1> DEFINE f == [cer |-> Missed(p.likeness), wer |-> Missed(p.likeness), bmfl |-> Scaled(AnswerLikeness(p))]
           names == {"cer", "wer", "bmfl"}
<1>1. MetricValues(row, tr, p) = With(Tob(row, p), f)
  BY DEF MetricValues, Tob
<1>2. WorstValues(row, tr) = [m \in names \cup (IF row.tob # None THEN {"tob_score"} ELSE {}) |->
                                IF m \in {} THEN None ELSE Worst(m)]
  BY DEF WorstValues
<1>3. IsMeasured(f, names, {})
  <2>1. p.likeness \in 0..100 /\ AnswerLikeness(p) \in 0..100
    BY AnswerLikenessType DEF IsAnswer
  <2>2. \A m \in names : IsValue(m, f[m])
    BY <2>1, LikenessIsValue
  <2>3. DOMAIN f = names
    OBVIOUS
  <2> HIDE DEF f, names
  <2>4. QED  BY <2>2, <2>3 DEF IsMeasured
<1> HIDE DEF f, names
<1>4. QED  BY <1>1, <1>2, <1>3, MeasuredIsNoBetter

LEMMA MarkupMiss ==
  ASSUME None \notin Natural2, NEW row, NEW tr, NEW p, IsAnswer(p), Measure(row, tr) = "markup"
  PROVE  IsNoBetter(WorstValues(row, tr), MetricValues(row, tr, p))
<1> DEFINE f == [ted |-> Scaled(p.likeness), cer |-> Missed(p.likeness)]
           names == {"ted", "cer"}
<1>1. MetricValues(row, tr, p) = With(Tob(row, p), f)
  BY DEF MetricValues, Tob
<1>2. WorstValues(row, tr) = [m \in names \cup (IF row.tob # None THEN {"tob_score"} ELSE {}) |->
                                IF m \in {} THEN None ELSE Worst(m)]
  BY DEF WorstValues
<1>3. IsMeasured(f, names, {})
  <2>1. p.likeness \in 0..100 /\ AnswerLikeness(p) \in 0..100
    BY AnswerLikenessType DEF IsAnswer
  <2>2. \A m \in names : IsValue(m, f[m])
    BY <2>1, LikenessIsValue
  <2>3. DOMAIN f = names
    OBVIOUS
  <2> HIDE DEF f, names
  <2>4. QED  BY <2>2, <2>3 DEF IsMeasured
<1> HIDE DEF f, names
<1>4. QED  BY <1>1, <1>2, <1>3, MeasuredIsNoBetter

LEMMA ClassifyMiss ==
  ASSUME None \notin Natural2, NEW row, NEW tr, NEW p, IsAnswer(p), Measure(row, tr) = "classify"
  PROVE  IsNoBetter(WorstValues(row, tr), MetricValues(row, tr, p))
<1> DEFINE f == [anls |-> Scaled(p.likeness)]
           names == {"anls"}
<1>1. MetricValues(row, tr, p) = With(Tob(row, p), f)
  BY DEF MetricValues, Tob
<1>2. WorstValues(row, tr) = [m \in names \cup (IF row.tob # None THEN {"tob_score"} ELSE {}) |->
                                IF m \in {} THEN None ELSE Worst(m)]
  BY DEF WorstValues
<1>3. IsMeasured(f, names, {})
  <2>1. p.likeness \in 0..100 /\ AnswerLikeness(p) \in 0..100
    BY AnswerLikenessType DEF IsAnswer
  <2>2. \A m \in names : IsValue(m, f[m])
    BY <2>1, LikenessIsValue
  <2>3. DOMAIN f = names
    OBVIOUS
  <2> HIDE DEF f, names
  <2>4. QED  BY <2>2, <2>3 DEF IsMeasured
<1> HIDE DEF f, names
<1>4. QED  BY <1>1, <1>2, <1>3, MeasuredIsNoBetter

LEMMA KieMiss ==
  ASSUME None \notin Natural2, NEW row, NEW tr, IsTruth(tr), NEW p, IsAnswer(p), Measure(row, tr) = "kie"
  PROVE  IsNoBetter(WorstValues(row, tr), MetricValues(row, tr, p))
<1> DEFINE k == MicroPrf(ScoreFields(PredFields(p), tr.fields))
           f == [kie_precision |-> k.precision, kie_recall |-> k.recall, kie_f1 |-> k.f1]
           names == {"kie_precision", "kie_recall", "kie_f1"}
<1>0. ArePrf(k)
  BY KieType
<1>1. MetricValues(row, tr, p) = With(Tob(row, p), f)
  BY DEF MetricValues, Tob
<1> HIDE DEF k
<1>2. WorstValues(row, tr) = [m \in names \cup (IF row.tob # None THEN {"tob_score"} ELSE {}) |->
                                IF m \in {} THEN None ELSE Worst(m)]
  BY DEF WorstValues
<1>3. IsMeasured(f, names, {})
  <2>1. \A m \in names : IsValue(m, f[m])
    BY <1>0 DEF ArePrf, IsValue
  <2>2. DOMAIN f = names
    OBVIOUS
  <2> HIDE DEF f, names
  <2>3. QED  BY <2>1, <2>2 DEF IsMeasured
<1> HIDE DEF f, names
<1>4. QED  BY <1>1, <1>2, <1>3, MeasuredIsNoBetter

LEMMA NothingMeasured ==
  ASSUME NEW row, NEW tr, NEW p, Measure(row, tr) \in {"no_gt", "not_applicable"}
  PROVE  IsNoBetter(WorstValues(row, tr), MetricValues(row, tr, p))
<1> DEFINE what == Measure(row, tr)
<1>1. MetricValues(row, tr, p) = [m \in {what} |-> None]
  BY DEF MetricValues
<1>2. WorstValues(row, tr) = [m \in {what} |-> None]
  BY DEF WorstValues
<1> HIDE DEF what
<1>3. QED  BY <1>1, <1>2 DEF IsNoBetter, NoBetter

LEMMA StatementMiss ==
  ASSUME None \notin Natural2, NEW row, row.tob = None, NEW tr, IsTruth(tr), NEW p, IsAnswer(p),
         Measure(row, tr) = "statement"
  PROVE  IsNoBetter(WorstValues(row, tr), MetricValues(row, tr, p))
<1> DEFINE g == RowMetrics(p.rows, tr.rows, tr.header)
           e == IF tr.kind = "text_layer" THEN [cer |-> Missed(p.likeness)] ELSE <<>>
           f == With(g, e)
           v == With(<<>>, f)
           rows == {"row_precision", "row_recall", "row_f1"}
           names == rows \cup (IF tr.kind = "text_layer" THEN {"cer"} ELSE {})
           none == IF ~tr.header THEN rows ELSE {}
<1>1. MetricValues(row, tr, p) = v
  BY DEF MetricValues
<1>2. WorstValues(row, tr) = [m \in names |-> IF m \in none THEN None ELSE Worst(m)]
  BY DEF WorstValues
<1>3. DOMAIN g = rows /\ \A m \in rows : IF m \in none THEN g[m] = None ELSE IsValue(m, g[m])
  <2> DEFINE r == RowPrf(p.rows, tr.rows)
  <2>1. ArePrf(r)
    <3>1. PICK S : p.rows \in Seq(S)
      BY DEF IsAnswer
    <3>2. PICK T : tr.rows \in Seq(T)
      BY DEF IsTruth
    <3> DEFINE U == S \cup T
               a == p.rows
               b == tr.rows
    <3>3. a \in Seq(U) /\ b \in Seq(U)
      <4>1. Seq(S) \subseteq Seq(U) /\ Seq(T) \subseteq Seq(U)
        <5>1. S \subseteq U /\ T \subseteq U
          OBVIOUS
        <5> HIDE DEF U
        <5>2. QED  BY <5>1, SeqMonotonic
      <4>2. QED  BY <3>1, <3>2, <4>1
    <3> HIDE DEF a, b, U
    <3>4. ArePrf(RowPrf(a, b))
      BY <3>3, RowPrfType
    <3>5. QED  BY <3>4 DEF a, b
  <2> HIDE DEF r
  <2>2. CASE ~tr.header
    <3>1. g = [row_precision |-> None, row_recall |-> None, row_f1 |-> None]
      BY <2>2 DEF RowMetrics
    <3>2. none = rows
      BY <2>2
    <3> HIDE DEF g, none
    <3>3. QED  BY <3>1, <3>2
  <2>3. CASE tr.header
    <3>1. g = [row_precision |-> r.precision, row_recall |-> r.recall, row_f1 |-> r.f1]
      BY <2>3 DEF RowMetrics, r
    <3>2. none = {}
      BY <2>3
    <3> HIDE DEF g, none
    <3>3. QED  BY <2>1, <3>1, <3>2 DEF ArePrf, IsValue
  <2>4. QED  BY <2>2, <2>3
<1>4. DOMAIN e = (IF tr.kind = "text_layer" THEN {"cer"} ELSE {}) /\ \A m \in DOMAIN e : IsValue(m, e[m])
  <2>1. p.likeness \in 0..100
    BY DEF IsAnswer
  <2>2. CASE tr.kind = "text_layer"
    <3>1. e = [cer |-> Missed(p.likeness)] /\ IsValue("cer", Missed(p.likeness))
      BY <2>1, <2>2, LikenessIsValue
    <3> HIDE DEF e
    <3>2. QED  BY <2>2, <3>1
  <2>3. CASE tr.kind # "text_layer"
    <3>1. e = <<>>
      BY <2>3
    <3> HIDE DEF e
    <3>2. QED  BY <2>3, <3>1
  <2>4. QED  BY <2>2, <2>3
<1>5. "cer" \notin rows /\ none \subseteq rows
  OBVIOUS
<1> HIDE DEF g, e, rows, none
<1>6. DOMAIN f = names /\ \A m \in names : IF m \in none THEN f[m] = None ELSE IsValue(m, f[m])
  <2>1. DOMAIN f = names
    BY <1>3, <1>4 DEF With
  <2>2. ASSUME NEW m \in rows PROVE f[m] = g[m]
    BY <1>3, <2>2 DEF With
  <2>3. ASSUME NEW m \in DOMAIN e PROVE f[m] = e[m] /\ m \notin none
    <3>1. m \in DOMAIN e \ DOMAIN g /\ m \notin none
      BY <1>3, <1>4, <1>5, <2>3
    <3>2. f[m] = e[m]
      BY <3>1 DEF With
    <3>3. QED  BY <3>1, <3>2
  <2>4. names = rows \cup DOMAIN e
    BY <1>4
  <2> HIDE DEF f, names
  <2>5. QED  BY <1>3, <1>4, <2>1, <2>2, <2>3, <2>4
<1>7. DOMAIN v = DOMAIN f /\ \A m \in DOMAIN f : v[m] = f[m]
  <2> HIDE DEF f
  <2>1. DOMAIN <<>> = {}
    OBVIOUS
  <2>2. QED  BY <2>1 DEF With
<1> HIDE DEF f, names, v
<1>8. IsNoBetter([m \in DOMAIN v |-> IF m \in none THEN None ELSE Worst(m)], v)
  <2>1. \A m \in DOMAIN v : IF m \in none THEN v[m] = None ELSE IsValue(m, v[m])
    BY <1>6, <1>7
  <2>2. QED  BY <2>1, WorstIsNoBetter
<1>9. DOMAIN v = names
  BY <1>6, <1>7
<1>10. QED  BY <1>1, <1>2, <1>8, <1>9

LEMMA MissIsWorst ==
  ASSUME None \notin Natural2, NEW row, row.task = "statement" => row.tob = None,
         NEW tr, IsTruth(tr), NEW p, IsAnswer(p)
  PROVE  IsNoBetter(WorstValues(row, tr), MetricValues(row, tr, p))
<1>1. Measure(row, tr) = "statement" => row.tob = None
  BY DEF Measure
<1>2. QED  BY <1>1, MeasureType, TextMiss, MarkupMiss, ClassifyMiss, KieMiss, NothingMeasured, StatementMiss

(* Of a page that was missed no field is better than nothing read, either. *)
LEMMA WorstIsNoBetterThanItself ==
  ASSUME None \notin Natural2, NEW row, NEW tr
  PROVE  IsNoBetter(WorstValues(row, tr), WorstValues(row, tr))
<1> DEFINE f == WorstValues(row, tr)
<1>1. \A m \in DOMAIN f : f[m] = None \/ f[m] = Worst(m)
  BY DEF WorstValues
<1> HIDE DEF f
<1>2. \A m \in DOMAIN f : NoBetter(m, f[m], f[m])
  <2>1. \A m : Worst(m) # None /\ AtMost(Worst(m), Worst(m))
    BY DEF Worst, AtMost, Natural2
  <2>2. QED  BY <1>1, <2>1 DEF NoBetter
<1>3. QED  BY <1>2 DEF IsNoBetter, f

LEMMA FailedIsMiss ==
  ASSUME NEW failure \in Failures
  PROVE  IsFullMiss(Failed(failure))
BY DEF Failures, Failed, NoOutput, IsFullMiss, IsPartial

AreCredited(failed, answered) ==
  LET asked == {k \in DOMAIN answered : answered[k].in_gt}
  IN /\ DOMAIN failed = asked
     /\ \A k \in asked : /\ ~failed[k].field_exact /\ ~failed[k].field_fuzzy
                         /\ answered[k].false_reject => failed[k].false_reject

LEMMA FieldsOfMiss ==
  ASSUME NEW row, NEW tr, NEW p
  PROVE  AreCredited(WorstFields(row, tr), MetricFields(row, tr, p))
<1>1. CASE Measure(row, tr) \in {"kie", "statement"}
  <2> DEFINE f == WorstCaseFields(tr.fields)
             a == ScoreFields(PredFields(p), tr.fields)
             g == tr.fields
  <2>1. WorstFields(row, tr) = f /\ MetricFields(row, tr, p) = a
    BY <1>1 DEF WorstFields, MetricFields
  <2>2. DOMAIN f = DOMAIN g
    BY DEF WorstCaseFields
  <2>3. \A k \in DOMAIN g : ~f[k].field_exact /\ ~f[k].field_fuzzy /\ f[k].false_reject = (g[k] # None)
    BY DEF WorstCaseFields
  <2>4. \A k \in DOMAIN a : a[k].in_gt = (k \in DOMAIN g)
    BY DEF ScoreFields
  <2>5. DOMAIN g \subseteq DOMAIN a
    BY DEF ScoreFields
  <2>6. \A k \in DOMAIN g : a[k].false_reject => g[k] # None
    BY DEF ScoreFields, FieldAt
  <2> HIDE DEF f, a, g
  <2>7. QED  BY <2>1, <2>2, <2>3, <2>4, <2>5, <2>6 DEF AreCredited
<1>2. CASE Measure(row, tr) \notin {"kie", "statement"}
  <2>1. WorstFields(row, tr) = <<>> /\ MetricFields(row, tr, p) = <<>>
    BY <1>2 DEF WorstFields, MetricFields
  <2>2. QED  BY <2>1 DEF AreCredited
<1>3. QED  BY <1>1, <1>2

LEMMA FieldsOfTwoMisses ==
  ASSUME NEW row, NEW tr
  PROVE  AreCredited(WorstFields(row, tr), WorstFields(row, tr))
<1>1. CASE Measure(row, tr) \in {"kie", "statement"}
  <2> DEFINE f == WorstCaseFields(tr.fields)
  <2>1. WorstFields(row, tr) = f
    BY <1>1 DEF WorstFields
  <2>2. \A k \in DOMAIN f : ~f[k].field_exact /\ ~f[k].field_fuzzy /\ f[k].in_gt
    BY DEF WorstCaseFields
  <2> HIDE DEF f
  <2>3. QED  BY <2>1, <2>2 DEF AreCredited
<1>2. CASE Measure(row, tr) \notin {"kie", "statement"}
  <2>1. WorstFields(row, tr) = <<>>
    BY <1>2 DEF WorstFields
  <2>2. QED  BY <2>1 DEF AreCredited
<1>3. QED  BY <1>1, <1>2

(* FailureNeverOutscores for every page, ground truth and answer.          *)
THEOREM NoGainByFailing ==
  ASSUME None \notin Nat \X Nat, case.kind = "sample",
         case.row.task = "statement" => case.row.tob = None, IsTruth(LoadGt(case.row)),
         IsAnswer(case.answer), case.failure \in Failures
  PROVE  FailureNeverOutscores
<1> DEFINE row == case.row
           tr == LoadGt(row)
           p == case.answer
           answered == ScoreSample(row, p)
           failed == ScoreSample(row, Failed(case.failure))
<1>1. failed = [values |-> WorstValues(row, tr), fields |-> WorstFields(row, tr)]
  BY FailedIsMiss DEF ScoreSample
<1>2. IsNoBetter(failed.values, answered.values) /\ AreCredited(failed.fields, answered.fields)
  <2>0. None \notin Natural2
    BY DEF Natural2
  <2>1. CASE IsFullMiss(p)
    <3>1. answered = [values |-> WorstValues(row, tr), fields |-> WorstFields(row, tr)]
      BY <2>1 DEF ScoreSample
    <3> HIDE DEF row, tr, p, answered, failed
    <3>2. IsNoBetter(WorstValues(row, tr), WorstValues(row, tr))
      BY <2>0, WorstIsNoBetterThanItself
    <3>3. QED  BY <1>1, <3>1, <3>2, FieldsOfTwoMisses
  <2>2. CASE ~IsFullMiss(p)
    <3>1. answered = [values |-> MetricValues(row, tr, p), fields |-> MetricFields(row, tr, p)]
      BY <2>2 DEF ScoreSample
    <3>2. IsNoBetter(WorstValues(row, tr), MetricValues(row, tr, p))
      BY <2>0, MissIsWorst
    <3>3. AreCredited(WorstFields(row, tr), MetricFields(row, tr, p))
      BY FieldsOfMiss
    <3> HIDE DEF row, tr, p, answered, failed
    <3>4. QED  BY <1>1, <3>1, <3>2, <3>3
  <2>3. QED  BY <2>1, <2>2
<1>3. QED
  <2> HIDE DEF answered, failed
  <2>1. QED  BY <1>2 DEF FailureNeverOutscores, IsNoBetter, AreCredited, answered, failed, row, p

-----------------------------------------------------------------------------
(* imaging: the crops of blocks.                                           *)

LEMMA MinOfTwo ==
  ASSUME NEW a \in Int, NEW b \in Int
  PROVE  Min({a, b}) = (IF a <= b THEN a ELSE b)
<1> DEFINE m == IF a <= b THEN a ELSE b
<1>1. m \in {a, b} /\ \A x \in {a, b} : m <= x
  OBVIOUS
<1>2. \A y \in {a, b} : (\A x \in {a, b} : y <= x) => y = m
  OBVIOUS
<1> HIDE DEF m
<1>3. Min({a, b}) = m
  BY <1>1, <1>2 DEF Min
<1>4. QED  BY <1>3 DEF m

LEMMA MaxOfTwo ==
  ASSUME NEW a \in Int, NEW b \in Int
  PROVE  Max({a, b}) = (IF a <= b THEN b ELSE a)
<1> DEFINE m == IF a <= b THEN b ELSE a
<1>1. m \in {a, b} /\ \A x \in {a, b} : x <= m
  OBVIOUS
<1>2. \A y \in {a, b} : (\A x \in {a, b} : x <= y) => y = m
  OBVIOUS
<1> HIDE DEF m
<1>3. Max({a, b}) = m
  BY <1>1, <1>2 DEF Max
<1>4. QED  BY <1>3 DEF m

(* Numbers of a finite set have a largest and a smallest.                  *)
LEMMA LargestAndSmallest ==
  ASSUME NEW S, IsFiniteSet(S), S # {}, S \in SUBSET Nat
  PROVE  Max(S) \in S /\ Min(S) \in S /\ \A x \in S : Min(S) <= x /\ x <= Max(S)
<1> DEFINE G == {T \in SUBSET S : \E b \in Nat : \A x \in T : x <= b}
<1>1. ASSUME NEW T \in SUBSET S, \A x \in T : T \ {x} \in G PROVE T \in G
  <2>1. CASE T = {}
    <3>1. 0 \in Nat /\ \A x \in T : x <= 0
      BY <2>1
    <3>2. QED  BY <3>1
  <2>2. CASE T # {}
    <3>1. PICK a \in T : TRUE
      BY <2>2
    <3>2. PICK b \in Nat : \A x \in T \ {a} : x <= b
      BY <1>1, <3>1
    <3>3. a \in Nat
      BY <3>1
    <3>4. CASE a <= b
      <4>1. \A x \in T : x <= b
        BY <3>2, <3>4
      <4>2. QED  BY <4>1
    <3>5. CASE ~(a <= b)
      <4>1. \A x \in T : x <= a
        <5>1. ASSUME NEW x \in T PROVE x <= a
          <6>1. x \in Nat
            BY <5>1
          <6>2. x = a \/ x <= b
            BY <3>2, <5>1
          <6>3. QED  BY <3>3, <3>5, <6>1, <6>2
        <5>2. QED  BY <5>1
      <4>2. QED  BY <3>3, <4>1
    <3>6. QED  BY <3>4, <3>5
  <2>3. QED  BY <2>1, <2>2
<1>2. SUBSET S \subseteq G
  <2> HIDE DEF G
  <2>1. QED  BY <1>1, FiniteInduct
<1>3. PICK b \in Nat : \A x \in S : x <= b
  BY <1>2
<1>4. QED  BY <1>3, MinOfNaturals, MaxOfNaturals

LEMMA Division ==
  ASSUME NEW n \in Nat, NEW d \in Nat \ {0}
  PROVE  n \div d \in Nat /\ n % d \in 0..(d - 1) /\ n = d * (n \div d) + (n % d)
OBVIOUS

LEMMA RoundType ==
  ASSUME NEW n \in Nat, NEW d \in Nat \ {0}
  PROVE  Round(n, d) \in Nat
BY Division DEF Round

LEMMA ProductGrows ==
  ASSUME NEW d \in Nat, NEW a \in Nat, NEW b \in Nat, a <= b
  PROVE  d * a <= d * b /\ d * a \in Nat
<1>1. PICK c \in Nat : b = a + c
  <2>1. b - a \in Nat /\ b = a + (b - a)
    OBVIOUS
  <2>2. QED  BY <2>1
<1>2. d * c \in Nat /\ d * a \in Nat /\ d * b = d * a + d * c
  BY <1>1
<1>3. QED  BY <1>2

(* Ceil(n, d) is the least number that d times is no less than n.          *)
LEMMA CeilIsLeast ==
  ASSUME NEW n \in Nat, NEW d \in Nat \ {0}
  PROVE  /\ Ceil(n, d) \in Nat /\ n <= d * Ceil(n, d)
         /\ \A k \in Nat : n <= d * k => Ceil(n, d) <= k
<1> DEFINE top == n + d - 1
           q == top \div d
           r == top % d
<1>1. top \in Nat /\ Ceil(n, d) = q
  BY DEF Ceil
<1>2. q \in Nat /\ r \in 0..(d - 1) /\ top = d * q + r
  <2> HIDE DEF top
  <2>1. QED  BY <1>1, Division
<1>3. top = n + d - 1
  OBVIOUS
<1> HIDE DEF top, q, r
<1>4. d * q \in Nat
  BY <1>2, ProductGrows
<1>5. n <= d * q
  BY <1>2, <1>3, <1>4
<1>6. ASSUME NEW k \in Nat, n <= d * k PROVE q <= k
  <2>1. SUFFICES ASSUME k + 1 <= q PROVE FALSE
    BY <1>2
  <2>2. d * (k + 1) <= d * q
    BY <1>2, <2>1, ProductGrows
  <2>3. d * (k + 1) = d * k + d /\ d * k \in Nat
    BY ProductGrows
  <2>4. QED  BY <1>2, <1>3, <1>4, <1>6, <2>2, <2>3
<1>7. QED  BY <1>1, <1>2, <1>5, <1>6

(* Pixels from and up to of a side of an image.                            *)
Inside(from, to, side) == from \in Nat /\ to \in Nat /\ from < to /\ to <= side

LEMMA RegionSideInside ==
  ASSUME NEW a \in Nat, NEW b \in Nat, NEW side \in Nat \ {0}
  PROVE  LET from == Clip(a, 0, side - 1)
         IN Inside(from, Min({Max({b, from + 1}), side}), side)
<1> DEFINE low == Max({a, 0})
           from == Min({low, side - 1})
           far == Max({b, from + 1})
           to == Min({far, side})
<1>1. low = a
  BY MaxOfTwo
<1>2. from = IF a <= side - 1 THEN a ELSE side - 1
  BY <1>1, MinOfTwo
<1> HIDE DEF low, from
<1>3. from \in Nat /\ from < side
  BY <1>2
<1>4. far = IF b <= from + 1 THEN from + 1 ELSE b
  BY <1>3, MaxOfTwo
<1> HIDE DEF far
<1>5. far \in Nat
  BY <1>3, <1>4
<1>6. to = IF far <= side THEN far ELSE side
  BY <1>5, MinOfTwo
<1> HIDE DEF to
<1>7. Inside(from, to, side)
  BY <1>3, <1>4, <1>5, <1>6 DEF Inside
<1>8. QED  BY <1>7 DEF Clip, from, to, far, low

(* An image, and a box on it.                                              *)
IsSize(size) == size.w \in Nat \ {0} /\ size.h \in Nat \ {0}

IsBox(box, size) == Inside(box.x1, box.x2, size.w) /\ Inside(box.y1, box.y2, size.h)

LEMMA PointRounded ==
  ASSUME ImagesAssumption, NEW u \in Nat, NEW side \in Nat
  PROVE  Round(u * side, Units) \in Nat
<1>1. Units \in Nat \ {0}
  BY DEF ImagesAssumption
<1>2. u * side \in Nat
  BY ProductGrows
<1>3. QED  BY <1>1, <1>2, RoundType

LEMMA RegionInside ==
  ASSUME ImagesAssumption, NEW r, r.x1 \in Nat, r.y1 \in Nat, r.x2 \in Nat, r.y2 \in Nat,
         NEW size, IsSize(size)
  PROVE  IsBox(RegionToPixels(r, size), size)
<1> DEFINE a == Round(Min({r.x1, r.x2}) * size.w, Units)
           b == Round(Max({r.x1, r.x2}) * size.w, Units)
           c == Round(Min({r.y1, r.y2}) * size.h, Units)
           d == Round(Max({r.y1, r.y2}) * size.h, Units)
           box == RegionToPixels(r, size)
<1>1. /\ Min({r.x1, r.x2}) \in Nat /\ Max({r.x1, r.x2}) \in Nat
      /\ Min({r.y1, r.y2}) \in Nat /\ Max({r.y1, r.y2}) \in Nat
  BY MinOfTwo, MaxOfTwo
<1>2. size.w \in Nat \ {0} /\ size.h \in Nat \ {0}
  BY DEF IsSize
<1>3. a \in Nat /\ b \in Nat /\ c \in Nat /\ d \in Nat
  BY <1>1, <1>2, PointRounded
<1>4. /\ box.x1 = Clip(a, 0, size.w - 1) /\ box.x2 = Min({Max({b, box.x1 + 1}), size.w})
      /\ box.y1 = Clip(c, 0, size.h - 1) /\ box.y2 = Min({Max({d, box.y1 + 1}), size.h})
  BY DEF RegionToPixels
<1> HIDE DEF a, b, c, d, box
<1>5. Inside(box.x1, box.x2, size.w) /\ Inside(box.y1, box.y2, size.h)
  BY <1>2, <1>3, <1>4, RegionSideInside
<1>6. QED  BY <1>5 DEF IsBox, box

(* A side of the rectangle around some pixels, as far as it is in the image. *)
LEMMA SpanInside ==
  ASSUME NEW S, IsFiniteSet(S), S # {}, S \in SUBSET Nat, NEW side \in Nat \ {0},
         ~(Min({Max(S) + 1, side}) <= Max({Min(S), 0}))
  PROVE  Inside(Max({Min(S), 0}), Min({Max(S) + 1, side}), side)
<1> DEFINE low == Min(S)
           high == Max(S)
<1>1. low \in Nat /\ high \in Nat
  BY LargestAndSmallest
<1> HIDE DEF low, high
<1>2. Max({low, 0}) = low
  BY <1>1, MaxOfTwo
<1>3. Min({high + 1, side}) = IF high + 1 <= side THEN high + 1 ELSE side
  BY <1>1, MinOfTwo
<1>4. ~(Min({high + 1, side}) <= Max({low, 0}))
  BY DEF low, high
<1>5. Inside(Max({low, 0}), Min({high + 1, side}), side)
  BY <1>1, <1>2, <1>3, <1>4 DEF Inside
<1>6. QED  BY <1>5 DEF low, high

(* A corner, in pixels.                                                    *)
Place == [x : Nat, y : Nat]

LEMMA PixelsAreFinite ==
  ASSUME ImagesAssumption, NEW points \in Seq(Place), points # <<>>, NEW side \in Nat
  PROVE  /\ LET xs == {Round(points[k].x * side, Units) : k \in 1..Len(points)}
            IN IsFiniteSet(xs) /\ xs # {} /\ xs \in SUBSET Nat
         /\ LET ys == {Round(points[k].y * side, Units) : k \in 1..Len(points)}
            IN IsFiniteSet(ys) /\ ys # {} /\ ys \in SUBSET Nat
<1> DEFINE D == 1..Len(points)
           X(k) == Round(points[k].x * side, Units)
           Y(k) == Round(points[k].y * side, Units)
<1>1. IsFiniteSet(D) /\ 1 \in D
  <2>1. Len(points) \in Nat /\ Len(points) # 0
    BY LenProperties, EmptySeq
  <2>2. QED  BY <2>1, FS_Interval
<1>2. \A k \in D : X(k) \in Nat /\ Y(k) \in Nat
  <2>1. ASSUME NEW k \in D PROVE X(k) \in Nat /\ Y(k) \in Nat
    <3>1. points[k] \in Place
      BY <2>1, ElementOfSeq
    <3>2. points[k].x \in Nat /\ points[k].y \in Nat
      BY <3>1 DEF Place
    <3>3. QED  BY <3>2, PointRounded
  <2>2. QED  BY <2>1
<1> HIDE DEF D, X, Y
<1>3. IsFiniteSet({X(k) : k \in D}) /\ IsFiniteSet({Y(k) : k \in D})
  <2> DEFINE f == [k \in D |-> X(k)]
             g == [k \in D |-> Y(k)]
  <2>1. f \in Surjection(D, {X(k) : k \in D}) /\ g \in Surjection(D, {Y(k) : k \in D})
    BY DEF Surjection
  <2> HIDE DEF f, g
  <2>2. QED  BY <1>1, <2>1, FS_Surjection
<1>4. /\ {X(k) : k \in D} # {} /\ {X(k) : k \in D} \in SUBSET Nat
      /\ {Y(k) : k \in D} # {} /\ {Y(k) : k \in D} \in SUBSET Nat
  BY <1>1, <1>2
<1>5. QED  BY <1>3, <1>4 DEF D, X, Y

LEMMA CropInside ==
  ASSUME ImagesAssumption, NEW points \in Seq(Place), points # <<>>, NEW size, IsSize(size)
  PROVE  IsBox(CropBlock(points, size), size)
<1> DEFINE xs == {Round(points[k].x * size.w, Units) : k \in 1..Len(points)}
           ys == {Round(points[k].y * size.h, Units) : k \in 1..Len(points)}
           left == Max({Min(xs), 0})
           right == Min({Max(xs) + 1, size.w})
           top == Max({Min(ys), 0})
           bottom == Min({Max(ys) + 1, size.h})
           crop == CropBlock(points, size)
<1>1. CASE Len(points) = 2
  <2> DEFINE r == [x1 |-> points[1].x, y1 |-> points[1].y, x2 |-> points[2].x, y2 |-> points[2].y]
  <2>1. crop = RegionToPixels(r, size)
    BY <1>1 DEF CropBlock
  <2>2. points[1] \in Place /\ points[2] \in Place
    <3>1. 1 \in 1..Len(points) /\ 2 \in 1..Len(points)
      BY <1>1
    <3> DEFINE one == 1
               two == 2
    <3> HIDE DEF one, two
    <3>2. points[one] \in Place /\ points[two] \in Place
      BY <3>1, ElementOfSeq DEF one, two
    <3>3. QED  BY <3>2 DEF one, two
  <2>3. r.x1 \in Nat /\ r.y1 \in Nat /\ r.x2 \in Nat /\ r.y2 \in Nat
    BY <2>2 DEF Place
  <2> HIDE DEF r, crop
  <2>4. QED  BY <2>1, <2>3, RegionInside DEF crop
<1>2. CASE Len(points) # 2
  <2>1. crop = IF right <= left \/ bottom <= top THEN [x1 |-> 0, y1 |-> 0, x2 |-> 1, y2 |-> 1]
               ELSE [x1 |-> left, y1 |-> top, x2 |-> right, y2 |-> bottom]
    BY <1>2 DEF CropBlock
  <2>2. size.w \in Nat \ {0} /\ size.h \in Nat \ {0}
    BY DEF IsSize
  <2>3. /\ IsFiniteSet(xs) /\ xs # {} /\ xs \in SUBSET Nat
        /\ IsFiniteSet(ys) /\ ys # {} /\ ys \in SUBSET Nat
    BY <2>2, PixelsAreFinite
  <2>4. ~(right <= left) => Inside(left, right, size.w)
    <3> HIDE DEF xs
    <3>1. QED  BY <2>2, <2>3, SpanInside
  <2>5. ~(bottom <= top) => Inside(top, bottom, size.h)
    <3> HIDE DEF ys
    <3>1. QED  BY <2>2, <2>3, SpanInside
  <2> HIDE DEF left, right, top, bottom, crop
  <2>6. IsBox(crop, size)
    BY <2>1, <2>2, <2>4, <2>5 DEF IsBox, Inside
  <2>7. QED  BY <2>6 DEF crop
<1>3. QED  BY <1>1, <1>2

(* What is sent is large enough, and no longer than the model takes.       *)
Fits(size) ==
  Min({size.w, size.h}) >= MinEdge /\ Max({size.w, size.h}) <= MaxRatio * Min({size.w, size.h})

LEMMA RatioKept ==
  ASSUME ImagesAssumption, NEW size, IsSize(size),
         LET long == Max({size.w, size.h}) IN long <= MaxRatio * Min({size.w, size.h}),
         NEW edge, edge = Min({size.w, size.h}), edge < MinEdge
  PROVE  Fits([w |-> Ceil(size.w * MinEdge, edge), h |-> Ceil(size.h * MinEdge, edge)])
<1> DEFINE W == Ceil(size.w * MinEdge, edge)
           H == Ceil(size.h * MinEdge, edge)
<1>1. size.w \in Nat \ {0} /\ size.h \in Nat \ {0} /\ MinEdge \in Nat \ {0} /\ MaxRatio \in Nat \ {0}
  BY DEF IsSize, ImagesAssumption
<1>2. edge = (IF size.w <= size.h THEN size.w ELSE size.h) /\ edge \in Nat \ {0}
  BY <1>1, MinOfTwo
<1>3. ASSUME NEW x \in Nat, edge <= x, x <= MaxRatio * edge
      PROVE  /\ Ceil(x * MinEdge, edge) \in Nat /\ MinEdge <= Ceil(x * MinEdge, edge)
             /\ Ceil(x * MinEdge, edge) <= MaxRatio * MinEdge
             /\ x = edge => Ceil(x * MinEdge, edge) = MinEdge
  <2> DEFINE n == x * MinEdge
             c == Ceil(n, edge)
  <2>1. n \in Nat /\ MaxRatio * MinEdge \in Nat
    BY <1>1, ProductGrows
  <2>2. n <= edge * (MaxRatio * MinEdge)
    <3>1. MaxRatio * edge \in Nat
      BY <1>1, <1>2, ProductGrows
    <3>2. MinEdge * x <= MinEdge * (MaxRatio * edge)
      BY <1>1, <1>3, <3>1, ProductGrows
    <3>3. n = MinEdge * x /\ MinEdge * (MaxRatio * edge) = edge * (MaxRatio * MinEdge)
      BY <1>1, <1>2
    <3>4. QED  BY <3>2, <3>3
  <2>3. edge * MinEdge <= n
    <3>1. MinEdge * edge <= MinEdge * x
      BY <1>1, <1>2, <1>3, ProductGrows
    <3>2. QED  BY <1>1, <1>2, <3>1
  <2>4. n = x * MinEdge
    OBVIOUS
  <2> HIDE DEF n
  <2>5. c \in Nat /\ n <= edge * c /\ \A k \in Nat : n <= edge * k => c <= k
    BY <1>2, <2>1, CeilIsLeast
  <2> HIDE DEF c
  <2>6. MinEdge <= c
    <3>1. SUFFICES ASSUME c + 1 <= MinEdge PROVE FALSE
      BY <1>1, <2>5
    <3>2. edge * (c + 1) <= edge * MinEdge
      BY <1>1, <1>2, <2>5, <3>1, ProductGrows
    <3>3. edge * (c + 1) = edge * c + edge /\ edge * c \in Nat /\ edge * MinEdge \in Nat
      BY <1>1, <1>2, <2>5, ProductGrows
    <3>4. QED  BY <1>2, <2>1, <2>3, <2>5, <3>2, <3>3
  <2>7. x = edge => c = MinEdge
    <3>1. x = edge => n <= edge * MinEdge
      BY <1>1, <1>2, <2>4
    <3>2. ASSUME x = edge PROVE c <= MinEdge
      <4>1. n <= edge * MinEdge
        BY <3>1, <3>2
      <4>2. MinEdge \in Nat
        BY <1>1
      <4>3. QED  BY ONLY <2>5, <4>1, <4>2
    <3>3. QED  BY ONLY <1>1, <2>5, <2>6, <3>2
  <2>8. QED  BY <2>1, <2>2, <2>5, <2>6, <2>7 DEF c, n
<1>4. size.w <= MaxRatio * edge /\ size.h <= MaxRatio * edge
  <2>1. Max({size.w, size.h}) = IF size.w <= size.h THEN size.h ELSE size.w
    BY <1>1, MaxOfTwo
  <2>2. MaxRatio * edge \in Nat
    BY <1>1, <1>2, ProductGrows
  <2>3. QED  BY <1>1, <2>1, <2>2
<1>5. /\ W \in Nat /\ H \in Nat /\ MinEdge <= W /\ MinEdge <= H
      /\ W <= MaxRatio * MinEdge /\ H <= MaxRatio * MinEdge
      /\ W = MinEdge \/ H = MinEdge
  <2>1. edge <= size.w /\ edge <= size.h /\ (edge = size.w \/ edge = size.h)
    BY ONLY <1>1, <1>2
  <2>2. QED  BY <1>1, <1>3, <1>4, <2>1
<1> HIDE DEF W, H
<1>6. Min({W, H}) = MinEdge /\ Max({W, H}) <= MaxRatio * MinEdge
  <2>1. Min({W, H}) = MinEdge
    BY <1>1, <1>5, MinOfTwo
  <2>2. Max({W, H}) = W \/ Max({W, H}) = H
    BY <1>5, MaxOfTwo
  <2>3. QED  BY <1>5, <2>1, <2>2
<1>7. Fits([w |-> W, h |-> H])
  BY <1>1, <1>6 DEF Fits
<1>8. QED  BY <1>7 DEF W, H

(* A side of Ceil(long, MaxRatio) is no more than MaxRatio times shorter.  *)
LEMMA PaddedSide ==
  ASSUME ImagesAssumption, NEW long \in Nat \ {0}
  PROVE  LET side == Ceil(long, MaxRatio)
         IN side \in Nat \ {0} /\ side <= long /\ long <= MaxRatio * side
<1> DEFINE side == Ceil(long, MaxRatio)
<1>1. MaxRatio \in Nat \ {0}
  BY DEF ImagesAssumption
<1>2. side \in Nat /\ long <= MaxRatio * side /\ \A k \in Nat : long <= MaxRatio * k => side <= k
  BY <1>1, CeilIsLeast
<1> HIDE DEF side
<1>3. long <= MaxRatio * long
  <2>1. long * 1 <= long * MaxRatio
    BY <1>1, ProductGrows
  <2>2. QED  BY <1>1, <2>1
<1>4. side # 0
  BY <1>1, <1>2
<1>5. side \in Nat \ {0} /\ side <= long /\ long <= MaxRatio * side
  BY <1>2, <1>3, <1>4
<1>6. QED  BY <1>5 DEF side

Padded(size) ==
  IF Max({size.w, size.h}) <= MaxRatio * Min({size.w, size.h}) THEN size
  ELSE IF size.w > size.h THEN [size EXCEPT !.h = Ceil(size.w, MaxRatio)]
  ELSE [size EXCEPT !.w = Ceil(size.h, MaxRatio)]

LEMMA PaddedFits ==
  ASSUME ImagesAssumption, NEW size \in [w : Nat \ {0}, h : Nat \ {0}]
  PROVE  LET p == Padded(size)
         IN IsSize(p) /\ Max({p.w, p.h}) <= MaxRatio * Min({p.w, p.h})
<1> DEFINE p == Padded(size)
<1>1. size.w \in Nat \ {0} /\ size.h \in Nat \ {0}
  OBVIOUS
<1>2. CASE Max({size.w, size.h}) <= MaxRatio * Min({size.w, size.h})
  BY <1>1, <1>2 DEF Padded, IsSize
<1>3. CASE ~(Max({size.w, size.h}) <= MaxRatio * Min({size.w, size.h})) /\ size.w > size.h
  <2> DEFINE side == Ceil(size.w, MaxRatio)
  <2>1. side \in Nat \ {0} /\ side <= size.w /\ size.w <= MaxRatio * side
    BY <1>1, PaddedSide
  <2>2. p.w = size.w /\ p.h = side
    BY <1>3 DEF Padded
  <2> HIDE DEF p, side
  <2>3. Max({p.w, p.h}) = size.w /\ Min({p.w, p.h}) = side
    BY <1>1, <2>1, <2>2, MinOfTwo, MaxOfTwo
  <2>4. IsSize(p) /\ Max({p.w, p.h}) <= MaxRatio * Min({p.w, p.h})
    BY <1>1, <2>1, <2>2, <2>3 DEF IsSize
  <2>5. QED  BY <2>4 DEF p
<1>4. CASE ~(Max({size.w, size.h}) <= MaxRatio * Min({size.w, size.h})) /\ ~(size.w > size.h)
  <2> DEFINE side == Ceil(size.h, MaxRatio)
  <2>1. side \in Nat \ {0} /\ side <= size.h /\ size.h <= MaxRatio * side
    BY <1>1, PaddedSide
  <2>2. p.w = side /\ p.h = size.h
    BY <1>4 DEF Padded
  <2> HIDE DEF p, side
  <2>3. Max({p.w, p.h}) = size.h /\ Min({p.w, p.h}) = side
    BY <1>1, <2>1, <2>2, MinOfTwo, MaxOfTwo
  <2>4. IsSize(p) /\ Max({p.w, p.h}) <= MaxRatio * Min({p.w, p.h})
    BY <1>1, <2>1, <2>2, <2>3 DEF IsSize
  <2>5. QED  BY <2>4 DEF p
<1>5. QED  BY <1>2, <1>3, <1>4

LEMMA NeededSizeFits ==
  ASSUME ImagesAssumption, NEW size \in [w : Nat \ {0}, h : Nat \ {0}]
  PROVE  Fits(ResizeByNeed(size))
<1> DEFINE p == Padded(size)
           edge == Min({p.w, p.h})
<1>1. ResizeByNeed(size) = IF edge >= MinEdge THEN p
                           ELSE [w |-> Ceil(p.w * MinEdge, edge), h |-> Ceil(p.h * MinEdge, edge)]
  BY DEF ResizeByNeed, Padded
<1>2. IsSize(p) /\ Max({p.w, p.h}) <= MaxRatio * edge
  BY PaddedFits
<1>3. edge \in Nat /\ MinEdge \in Nat
  BY <1>2, MinOfTwo DEF IsSize, ImagesAssumption
<1>4. edge = Min({p.w, p.h})
  OBVIOUS
<1> HIDE DEF p, edge
<1>5. CASE edge >= MinEdge
  BY <1>1, <1>2, <1>4, <1>5 DEF Fits
<1>6. CASE ~(edge >= MinEdge)
  <2>1. edge < MinEdge
    BY <1>3, <1>6
  <2>2. Max({p.w, p.h}) <= MaxRatio * Min({p.w, p.h})
    BY <1>2, <1>4
  <2>3. QED  BY <1>1, <1>2, <1>4, <1>6, <2>1, <2>2, RatioKept
<1>7. QED  BY <1>5, <1>6

(* BlocksFitTheModel for pages of all sizes and blocks of any corners.     *)
THEOREM BlocksFit ==
  ASSUME ImagesAssumption, case.kind = "crop", case.w \in Nat \ {0}, case.h \in Nat \ {0},
         case.from \in Points, case.to \in Points, case.more \in Seq(Points)
  PROVE  BlocksFitTheModel
<1> DEFINE size == [w |-> case.w, h |-> case.h]
           from == case.from
           to == case.to
           points == <<from, to>> \o case.more
           box == CropBlock(points, size)
           out == SizeOfBox(box)
           sent == ResizeByNeed(RotateCrop(out, case.angle))
           edge == Max({from.x, to.x})
           next == <<[x |-> edge, y |-> from.y], [x |-> Units, y |-> to.y]>>
           right == CropBlock(next, size)
<1>1. Units \in Nat \ {0} /\ IsSize(size)
  BY DEF ImagesAssumption, IsSize
<1>2. Points \subseteq Place
  BY <1>1 DEF Points, Place
<1>3. from \in Place /\ to \in Place /\ <<from, to>> \in Seq(Place) /\ Len(<<from, to>>) = 2
  BY <1>2
<1>4. case.more \in Seq(Place)
  BY <1>2, SeqMonotonic
<1>5. points \in Seq(Place) /\ Len(points) = 2 + Len(case.more) /\ points # <<>> /\ points[1] = from /\ points[2] = to
  <2> DEFINE pair == <<from, to>>
             more == case.more
  <2>1. pair[1] = from /\ pair[2] = to /\ Len(pair) = 2
    OBVIOUS
  <2>2. pair \in Seq(Place) /\ more \in Seq(Place) /\ Len(more) \in Nat
    BY <1>3, <1>4, LenProperties
  <2> HIDE DEF pair, more
  <2>3. pair \o more \in Seq(Place) /\ Len(pair \o more) = 2 + Len(more) /\ (pair \o more)[1] = from /\ (pair \o more)[2] = to
    <3>1. pair \o more \in Seq(Place) /\ Len(pair \o more) = Len(pair) + Len(more)
      BY <2>2, ConcatProperties
    <3>2. \A i \in 1..Len(pair) : (pair \o more)[i] = pair[i]
      <4>1. Len(pair) \in Nat /\ Len(more) \in Nat
        BY <2>1, <2>2
      <4>2. \A i \in 1..(Len(pair) + Len(more)) : (pair \o more)[i] = IF i <= Len(pair) THEN pair[i] ELSE more[i - Len(pair)]
        BY <2>2, ConcatProperties
      <4>3. QED  BY <4>1, <4>2
    <3>3. QED  BY <2>1, <2>2, <3>1, <3>2
  <2>4. pair \o more # <<>>
    BY <2>2, <2>3
  <2>5. QED  BY <2>3, <2>4 DEF pair, more
<1> HIDE DEF from, to, points, size
<1>6. IsBox(box, size)
  BY <1>1, <1>5, CropInside
<1>7. 0 <= box.x1 /\ box.x1 < box.x2 /\ box.x2 <= case.w /\ 0 <= box.y1 /\ box.y1 < box.y2 /\ box.y2 <= case.h
  BY <1>6 DEF IsBox, Inside, size
<1>8. Len(points) = 2 => box = CropBlock(<<to, from>>, size)
  <2>1. {from.x, to.x} = {to.x, from.x} /\ {from.y, to.y} = {to.y, from.y}
    OBVIOUS
  <2>2. QED  BY <1>5, <2>1 DEF CropBlock, RegionToPixels
<1>9. Len(points) = 2 => right.x1 <= box.x2
  <2>1. SUFFICES ASSUME Len(points) = 2 PROVE right.x1 <= box.x2
    OBVIOUS
  <2> DEFINE a == Round(edge * size.w, Units)
             low == Max({a, 0})
             far == Max({a, box.x1 + 1})
  <2>2. from.x \in Nat /\ to.x \in Nat /\ edge \in Nat /\ edge <= Units
    <3>1. from \in Points /\ to \in Points
      BY DEF from, to
    <3>2. from.x \in 0..Units /\ to.x \in 0..Units
      BY <3>1 DEF Points
    <3>3. edge = IF from.x <= to.x THEN to.x ELSE from.x
      <4>1. from.x \in Int /\ to.x \in Int
        BY <1>1, <3>2
      <4>2. QED  BY <4>1, MaxOfTwo
    <3>4. QED  BY <1>1, <3>2, <3>3
  <2>3. box.x2 = Min({far, size.w})
    BY <1>5, <2>1 DEF CropBlock, RegionToPixels
  <2>4. right.x1 = Clip(Round(Min({edge, Units}) * size.w, Units), 0, size.w - 1)
    BY DEF CropBlock, RegionToPixels
  <2>5. Min({edge, Units}) = edge
    <3> HIDE DEF edge
    <3>1. edge \in Int /\ Units \in Int /\ edge <= Units
      BY <1>1, <2>2
    <3>2. Min({edge, Units}) = IF edge <= Units THEN edge ELSE Units
      BY <3>1, MinOfTwo
    <3>3. QED  BY <3>1, <3>2
  <2>6. size.w \in Nat \ {0}
    BY <1>1 DEF IsSize
  <2>7. a \in Nat
    BY <2>2, <2>6, PointRounded
  <2>8. right.x1 = Min({low, size.w - 1})
    BY <2>4, <2>5 DEF Clip
  <2>9. box.x1 \in Nat
    BY <1>6 DEF IsBox, Inside
  <2> HIDE DEF a, box, right, edge
  <2>10. low = a /\ far \in Nat /\ a <= far
    <3> DEFINE next1 == box.x1 + 1
    <3>1. next1 \in Nat /\ next1 = box.x1 + 1
      BY <2>9
    <3> HIDE DEF next1
    <3>2. Max({a, 0}) = (IF a <= 0 THEN 0 ELSE a) /\ Max({a, next1}) = IF a <= next1 THEN next1 ELSE a
      <4>1. a \in Int /\ 0 \in Int /\ next1 \in Int
        BY <2>7, <3>1
      <4>2. Max({a, 0}) = IF a <= 0 THEN 0 ELSE a
        BY <4>1, MaxOfTwo
      <4>3. Max({a, next1}) = IF a <= next1 THEN next1 ELSE a
        BY <4>1, MaxOfTwo
      <4>4. QED  BY <4>2, <4>3
    <3>3. low = Max({a, 0}) /\ far = Max({a, next1})
      BY <3>1
    <3> HIDE DEF low, far
    <3>4. QED  BY <2>7, <3>1, <3>2, <3>3
  <2> HIDE DEF low, far
  <2>11. right.x1 = (IF a <= size.w - 1 THEN a ELSE size.w - 1) /\ box.x2 = IF far <= size.w THEN far ELSE size.w
    <3> DEFINE last == size.w - 1
    <3>1. last \in Int /\ size.w \in Int /\ a \in Int /\ far \in Int /\ size.w - 1 = last
      BY <2>6, <2>7, <2>10
    <3> HIDE DEF last
    <3>2. Min({a, last}) = (IF a <= last THEN a ELSE last) /\ Min({far, size.w}) = IF far <= size.w THEN far ELSE size.w
      BY <3>1, MinOfTwo
    <3>3. QED  BY <2>3, <2>8, <2>10, <3>1, <3>2
  <2>12. QED  BY <2>6, <2>7, <2>10, <2>11
<1>10. Fits(sent)
  <2>1. out \in [w : Nat \ {0}, h : Nat \ {0}]
    <3>1. out = [w |-> box.x2 - box.x1, h |-> box.y2 - box.y1]
      BY DEF SizeOfBox
    <3> HIDE DEF out, box
    <3>2. box.x2 - box.x1 \in Nat \ {0} /\ box.y2 - box.y1 \in Nat \ {0}
      <4>1. /\ box.x1 \in Nat /\ box.x2 \in Nat /\ box.x1 < box.x2
            /\ box.y1 \in Nat /\ box.y2 \in Nat /\ box.y1 < box.y2
        BY <1>6 DEF IsBox, Inside
      <4>2. \A p, q \in Nat : p < q => q - p \in Nat \ {0}
        OBVIOUS
      <4>3. QED  BY ONLY <4>1, <4>2
    <3>3. QED  BY <3>1, <3>2
  <2> HIDE DEF out
  <2>2. RotateCrop(out, case.angle) \in [w : Nat \ {0}, h : Nat \ {0}]
    BY <2>1 DEF RotateCrop
  <2>3. QED  BY <2>2, NeededSizeFits
<1>11. Min({sent.w, sent.h}) >= MinEdge /\ Max({sent.w, sent.h}) <= MaxRatio * Min({sent.w, sent.h})
  BY <1>10 DEF Fits
<1> HIDE DEF box, sent, right, next
<1>12. QED  BY <1>7, <1>8, <1>9, <1>11 DEF BlocksFitTheModel, points, from, to, size, box, sent, out, right, next, edge

-----------------------------------------------------------------------------
(* load_registry: the classes of a directory.                              *)

LEMMA AllAbsent ==
  ASSUME NEW values, Len(values) \in Nat, FirstOf(values) = None
  PROVE  \A k \in 1..Len(values) : values[k] = None
<1> DEFINE there == {k \in 1..Len(values) : values[k] # None}
<1>1. CASE there = {}
  BY <1>1
<1>2. CASE there # {}
  <2>1. there \in SUBSET Nat
    OBVIOUS
  <2>2. Min(there) \in there
    <3> HIDE DEF there
    <3>1. QED  BY <1>2, <2>1, MinOfNaturals
  <2>3. FirstOf(values) = values[Min(there)]
    BY <1>2 DEF FirstOf
  <2>4. QED  BY <2>2, <2>3
<1>3. QED  BY <1>1, <1>2

(* What a class file can be refused for.                                   *)
Errors ==
  {"directory", "mapping", "fields", "shape", "id", "duplicate", "cross", "banks_from", "overrides",
   "validator", "bank", "aliases_from", "header field", "column", "role"}

(* A field as a class file may have it.                                    *)
IsFieldSpec(f) ==
  /\ \E T : f.aliases \in Seq(T)
  /\ f.columns = None \/ \E T : f.columns \in Seq(T)
  /\ f.required = [when |-> f.required.when, banks |-> f.required.banks]

IsClassFile(yaml) ==
  yaml.fields # None => /\ \E T : yaml.fields \in Seq(T)
                        /\ \A i \in 1..Len(yaml.fields) : IsFieldSpec(yaml.fields[i])

FieldLoads(f, banks) ==
  /\ ShapeIsOk(f) /\ f.required.banks \subseteq banks
  /\ f.columns # None => \A i \in 1..Len(f.columns) : ColumnKeywords(f.columns[i][2]) # <<>>

FileLoads(yaml) ==
  /\ yaml.fields # None
  /\ \A i \in 1..Len(yaml.fields) : FieldLoads(yaml.fields[i], BankNames(yaml.banks))
  /\ Cardinality({f.name : f \in ToSet(yaml.fields)}) = Len(yaml.fields)

LEMMA FieldWithoutError ==
  ASSUME None \notin Errors, NEW f, IsFieldSpec(f), ShapeIsOk(f), NEW banks, FieldError(f, banks) = None
  PROVE  FieldLoads(f, banks)
<1> DEFINE errors == <<IF f.validators \subseteq FieldValidators THEN None ELSE "validator",
                       IF UnknownBanks(f, banks) = {} THEN None ELSE "bank", AliasError(f), ColumnError(f)>>
<1>1. Len(errors) = 4 /\ FirstOf(errors) = None
  BY DEF FieldError
<1>2. \A k \in 1..4 : errors[k] = None
  <2> HIDE DEF errors
  <2>1. Len(errors) \in Nat
    BY <1>1
  <2>2. \A k \in 1..Len(errors) : errors[k] = None
    BY <1>1, <2>1, AllAbsent
  <2>3. QED  BY <1>1, <2>2
<1>3. f.required.banks \subseteq banks
  <2>1. errors[2] = None
    <3> HIDE DEF errors
    <3>1. QED  BY <1>2
  <2>2. "bank" # None
    BY DEF Errors
  <2>3. QED  BY <2>1, <2>2 DEF UnknownBanks
<1>4. ASSUME f.columns # None PROVE \A i \in 1..Len(f.columns) : ColumnKeywords(f.columns[i][2]) # <<>>
  <2> DEFINE wrong == [i \in 1..Len(f.columns) |->
                        IF f.columns[i][1] # "column" \/ f.columns[i][2] = "" THEN "column"
                        ELSE IF ColumnKeywords(f.columns[i][2]) = <<>> THEN "role"
                        ELSE None]
  <2>1. ColumnError(f) = None
    <3>1. errors[4] = ColumnError(f)
      OBVIOUS
    <3> HIDE DEF errors
    <3>2. QED  BY <1>2, <3>1
  <2>2. FirstOf(wrong) = None
    BY <1>4, <2>1 DEF ColumnError
  <2>3. Len(f.columns) \in Nat
    BY <1>4, LenProperties DEF IsFieldSpec
  <2>4. Len(wrong) = Len(f.columns)
    BY <2>3
  <2>5. \A i \in 1..Len(f.columns) : wrong[i] = None
    <3> HIDE DEF wrong
    <3>1. QED  BY <2>2, <2>3, <2>4, AllAbsent
  <2>6. "column" # None /\ "role" # None
    BY DEF Errors
  <2>7. QED  BY <2>5, <2>6
<1>5. QED  BY <1>3, <1>4 DEF FieldLoads

LEMMA FileWithoutError ==
  ASSUME None \notin Errors, NEW yaml, IsClassFile(yaml), ClassError(yaml) = None
  PROVE  FileLoads(yaml)
<1> DEFINE n == Len(yaml.fields)
           shapes == [i \in 1..n |-> IF ShapeIsOk(yaml.fields[i]) THEN None ELSE "shape"]
           later == [i \in 1..n |-> FieldError(yaml.fields[i], BankNames(yaml.banks))]
           many == Cardinality({f.name : f \in ToSet(yaml.fields)})
           errors == <<FirstOf(shapes),
                       IF yaml.id = yaml.stem THEN None ELSE "id",
                       IF many = n THEN None ELSE "duplicate",
                       IF yaml.cross \subseteq CrossValidators THEN None ELSE "cross",
                       BanksError(yaml.banks), FirstOf(later)>>
<1>1. "mapping" # None /\ "fields" # None /\ "duplicate" # None /\ "shape" # None
  BY DEF Errors
<1>2. yaml.shape = "mapping" /\ yaml.fields # None
  BY <1>1 DEF ClassError
<1>3. FirstOf(errors) = None /\ Len(errors) = 6
  BY <1>2 DEF ClassError
<1>4. n \in Nat /\ \A i \in 1..n : IsFieldSpec(yaml.fields[i])
  BY <1>2, LenProperties DEF IsClassFile
<1>5. \A k \in 1..6 : errors[k] = None
  <2> HIDE DEF errors, shapes, later, many
  <2>1. Len(errors) \in Nat
    BY <1>3
  <2>2. \A k \in 1..Len(errors) : errors[k] = None
    BY <1>3, <2>1, AllAbsent
  <2>3. QED  BY <1>3, <2>2
<1>6. FirstOf(shapes) = None /\ FirstOf(later) = None /\ many = n
  <2>1. errors[1] = None /\ errors[6] = None /\ errors[3] = None
    <3> HIDE DEF errors
    <3>1. QED  BY <1>5
  <2> HIDE DEF shapes, later, many, n
  <2>2. QED  BY <1>1, <2>1
<1>7. Len(shapes) = n /\ Len(later) = n
  BY <1>4
<1>8. \A i \in 1..n : shapes[i] = None /\ later[i] = None
  <2> HIDE DEF shapes, later, n
  <2>1. QED  BY <1>4, <1>6, <1>7, AllAbsent
<1>9. \A i \in 1..n : FieldLoads(yaml.fields[i], BankNames(yaml.banks))
  <2>1. ASSUME NEW i \in 1..n PROVE FieldLoads(yaml.fields[i], BankNames(yaml.banks))
    <3>1. ShapeIsOk(yaml.fields[i]) /\ FieldError(yaml.fields[i], BankNames(yaml.banks)) = None
      BY <1>1, <1>8, <2>1
    <3>2. IsFieldSpec(yaml.fields[i])
      BY <1>4, <2>1
    <3>3. QED  BY <3>1, <3>2, FieldWithoutError
  <2>2. QED  BY <2>1
<1>10. QED  BY <1>2, <1>6, <1>9 DEF FileLoads

(* A set is in G whenever those with one element less are.                 *)
IsInductive(G, S) == \A T \in SUBSET S : (\A x \in T : T \ {x} \in G) => T \in G

LEMMA InductiveHolds ==
  ASSUME NEW S, IsFiniteSet(S), NEW G, IsInductive(G, S)
  PROVE  SUBSET S \subseteq G
BY FiniteInduct DEF IsInductive

(* Each of some things once.                                               *)
Once(all) ==
  FoldLeft(LAMBDA seen, a : IF a \in ToSet(seen) THEN seen ELSE Append(seen, a), <<>>, all)

Distinct(T) == {s \in Seq(T) : IsInjective(s)}

LEMMA AppendDistinct ==
  ASSUME NEW T, NEW s \in Distinct(T), NEW a \in T
  PROVE  (IF a \in ToSet(s) THEN s ELSE Append(s, a)) \in Distinct(T)
<1>1. s \in Seq(T) /\ Len(s) \in Nat /\ DOMAIN s = 1..Len(s) /\ IsInjective(s)
  BY LenProperties DEF Distinct
<1>2. CASE a \notin ToSet(s)
  <2> DEFINE t == Append(s, a)
  <2>1. /\ t \in Seq(T) /\ DOMAIN t = 1..(Len(s) + 1) /\ t[Len(s) + 1] = a
        /\ \A i \in 1..Len(s) : t[i] = s[i]
    BY <1>1
  <2> HIDE DEF t
  <2>2. \A i \in 1..Len(s) : s[i] # a
    BY <1>1, <1>2 DEF ToSet
  <2>3. IsInjective(t)
    <3>1. SUFFICES ASSUME NEW i \in 1..(Len(s) + 1), NEW j \in 1..(Len(s) + 1), t[i] = t[j] PROVE i = j
      BY <2>1 DEF IsInjective
    <3>2. (i \in 1..Len(s) \/ i = Len(s) + 1) /\ (j \in 1..Len(s) \/ j = Len(s) + 1)
      BY <1>1
    <3>3. CASE i \in 1..Len(s) /\ j \in 1..Len(s)
      BY <1>1, <2>1, <3>1, <3>3 DEF IsInjective
    <3>4. CASE i \in 1..Len(s) /\ j = Len(s) + 1
      BY <2>1, <2>2, <3>1, <3>4
    <3>5. CASE i = Len(s) + 1 /\ j \in 1..Len(s)
      BY <2>1, <2>2, <3>1, <3>5
    <3>6. QED  BY <3>2, <3>3, <3>4, <3>5
  <2>4. QED  BY <1>2, <2>1, <2>3 DEF Distinct, t
<1>3. QED  BY <1>2

LEMMA OnceIsDistinct ==
  ASSUME NEW V, NEW all \in Seq(V)
  PROVE  Once(all) \in Distinct(V)
<1> DEFINE n == Len(all)
           Base == <<>>
           S == DOMAIN all
           Add(seen, a) == IF a \in ToSet(seen) THEN seen ELSE Append(seen, a)
           Eq(g) == g = [s \in SUBSET S |-> IF s = {} THEN Base
                         ELSE LET x == Max(s) IN Add(g[s \ {x}], all[x])]
           it == CHOOSE g : Eq(g)
           pick == [s \in SUBSET S |-> Max(s)]
           h == [p \in S \X Distinct(V) |-> Add(p[2], all[p[1]])]
<1>1. Once(all) = it[S]
  BY DEF Once, FoldLeft, MapThenFoldSet
<1>2. n \in Nat /\ S = 1..n /\ IsFiniteSet(S)
  BY LenProperties, FS_Interval
<1>3. Picks(pick, S)
  <2>1. ASSUME NEW s \in SUBSET S, s # {} PROVE Max(s) \in s
    <3>1. s \in SUBSET Nat /\ \A m \in s : m <= n
      BY <1>2
    <3>2. QED  BY <1>2, <2>1, <3>1, MaxOfNaturals
  <2>2. QED  BY <2>1 DEF Picks
<1>4. \A x \in S, s \in Distinct(V) : Add(s, all[x]) \in Distinct(V)
  <2>1. \A x \in S : all[x] \in V
    BY <1>2, ElementOfSeq
  <2>2. QED  BY <2>1, AppendDistinct
<1>5. Base \in Distinct(V)
  <2>1. <<>> \in Seq(V) /\ IsInjective(<<>>)
    BY DEF IsInjective
  <2>2. QED  BY <2>1 DEF Distinct
<1> HIDE DEF n, Base, S, Add
<1>6. h \in [S \X Distinct(V) -> Distinct(V)]
  BY <1>4
<1>7. \A x \in S, s \in Distinct(V) : h[<<x, s>>] = Add(s, all[x])
  OBVIOUS
<1>8. \A s \in SUBSET S : s # {} => pick[s] = Max(s) /\ Max(s) \in S
  BY <1>3 DEF Picks
<1> HIDE DEF h, pick
<1>9. PICK g \in [SUBSET S -> Distinct(V)] : IsFold(g, Base, h, pick, S)
  BY <1>2, <1>3, <1>5, <1>6, FoldExists
<1>10. \A s \in SUBSET S : g[s] = IF s = {} THEN Base ELSE Add(g[s \ {Max(s)}], all[Max(s)])
  <2>1. \A s \in SUBSET S : s \ {Max(s)} \in SUBSET S
    OBVIOUS
  <2>2. QED  BY <1>7, <1>8, <1>9, <2>1 DEF IsFold
<1>11. Eq(g)
  BY <1>9, <1>10
<1>12. Eq(it)
  BY <1>11
<1>13. \A s \in SUBSET S : it[s] = IF s = {} THEN Base ELSE Add(it[s \ {Max(s)}], all[Max(s)])
  <2> HIDE DEF it
  <2>1. QED  BY <1>12
<1> HIDE DEF it
<1> DEFINE G == {s \in SUBSET S : it[s] \in Distinct(V)}
<1>14. ASSUME NEW s \in SUBSET S, \A x \in s : s \ {x} \in G PROVE s \in G
  <2>1. CASE s = {}
    BY <1>5, <1>13, <2>1
  <2>2. CASE s # {}
    <3>1. Max(s) \in s
      BY <1>3, <1>8, <2>2 DEF Picks
    <3>2. it[s] = Add(it[s \ {Max(s)}], all[Max(s)])
      BY <1>13, <2>2
    <3>3. it[s \ {Max(s)}] \in Distinct(V)
      BY <1>14, <3>1
    <3>4. QED  BY <1>4, <3>1, <3>2, <3>3
  <2>3. QED  BY <2>1, <2>2
<1>15. SUBSET S \subseteq G
  <2> HIDE DEF G
  <2>1. IsInductive(G, S)
    BY <1>14 DEF IsInductive
  <2>2. IsFiniteSet(S)
    BY <1>2
  <2>3. QED  BY <2>1, <2>2, InductiveHolds
<1>16. QED  BY <1>1, <1>15

LEMMA AliasesAreDistinct ==
  ASSUME NEW f, IsFieldSpec(f)
  PROVE  IsInjective(Aliases(f))
<1> DEFINE labels == IF f.aliases_from = None THEN <<>> ELSE HeaderLabels(f.aliases_from[2])
           given == f.aliases
           L == {"Account No.", "A/C", "Statement Period"}
<1>1. PICK T : given \in Seq(T)
  BY DEF IsFieldSpec
<1>2. labels \in Seq(L)
  <2>1. <<>> \in Seq(L) /\ <<"Account No.", "A/C">> \in Seq(L) /\ <<"Statement Period">> \in Seq(L)
    OBVIOUS
  <2>2. \A x : HeaderLabels(x) \in {<<>>, <<"Account No.", "A/C">>, <<"Statement Period">>}
    BY DEF HeaderLabels
  <2> HIDE DEF L
  <2>3. QED  BY <2>1, <2>2
<1>3. Aliases(f) = Once(given \o labels)
  BY DEF Aliases, Once
<1> HIDE DEF labels, given, L
<1>4. given \o labels \in Seq(T \cup L)
  <2>1. given \in Seq(T \cup L) /\ labels \in Seq(T \cup L)
    <3>1. T \subseteq T \cup L /\ L \subseteq T \cup L
      OBVIOUS
    <3>2. QED  BY <1>1, <1>2, <3>1, SeqMonotonic
  <2>2. QED  BY <2>1, ConcatProperties
<1>5. Once(given \o labels) \in Distinct(T \cup L)
  BY <1>4, OnceIsDistinct
<1>6. QED  BY <1>3, <1>5 DEF Distinct

(* No two fields of a class have one name.                                 *)
LEMMA NamesAreDistinct ==
  ASSUME NEW yaml, IsClassFile(yaml), FileLoads(yaml)
  PROVE  \A i, j \in 1..Len(yaml.fields) : yaml.fields[i].name = yaml.fields[j].name => i = j
<1> DEFINE n == Len(yaml.fields)
           D == 1..n
           N == {f.name : f \in ToSet(yaml.fields)}
           name == [i \in D |-> yaml.fields[i].name]
<1>1. PICK T : yaml.fields \in Seq(T)
  BY DEF IsClassFile, FileLoads
<1>2. n \in Nat /\ DOMAIN yaml.fields = D
  BY <1>1, LenProperties
<1>3. IsFiniteSet(D) /\ Cardinality(D) = n
  BY <1>2, FS_Interval
<1>4. Cardinality(N) = n
  BY DEF FileLoads
<1>5. N = {yaml.fields[i].name : i \in D}
  BY <1>2 DEF ToSet
<1>6. name \in Surjection(D, N)
  <2>1. name \in [D -> N] /\ \A x \in N : \E i \in D : name[i] = x
    BY <1>5
  <2> HIDE DEF name, D, N
  <2>2. QED  BY <2>1 DEF Surjection
<1>7. name \in Injection(D, N)
  <2> HIDE DEF name, D, N
  <2>1. Cardinality(D) = Cardinality(N) /\ IsFiniteSet(D)
    BY <1>3, <1>4
  <2>2. QED  BY <1>6, <2>1, FS_SurjSameCardinalityImpliesInj
<1>8. \A i, j \in D : name[i] = name[j] => i = j
  <2> HIDE DEF name, D, N
  <2>1. QED  BY <1>7 DEF Injection, IsInjective
<1>9. QED  BY <1>8

LEMMA Resolved ==
  ASSUME NEW f
  PROVE  LET r == ResolveField(f)
         IN /\ r.name = f.name /\ r.type = f.type /\ r.aliases = Aliases(f) /\ r.validators = f.validators
            /\ r.required = f.required /\ r.columns = ColumnWords(f)
            /\ \A w : [r EXCEPT !.required.when = w].required = [f.required EXCEPT !.when = w]
BY DEF ResolveField

(* A field of a class is found by its name.                                *)
LEMMA FieldIsFound ==
  ASSUME NEW yaml, IsClassFile(yaml), FileLoads(yaml), NEW i \in 1..Len(yaml.fields)
  PROVE  Field(LoadClass(yaml), yaml.fields[i].name) = ResolveField(yaml.fields[i])
<1> DEFINE class == LoadClass(yaml)
           n == Len(yaml.fields)
           name == yaml.fields[i].name
<1>0. n \in Nat
  BY LenProperties DEF IsClassFile, FileLoads
<1>1. ToSet(class.fields) = {ResolveField(yaml.fields[j]) : j \in 1..n}
  BY DEF LoadClass, ToSet
<1>2. \A j \in 1..n : ResolveField(yaml.fields[j]).name = yaml.fields[j].name
  BY Resolved
<1>3. ResolveField(yaml.fields[i]) \in ToSet(class.fields)
  BY <1>1
<1>4. \A f \in ToSet(class.fields) : f.name = name => f = ResolveField(yaml.fields[i])
  <2>1. SUFFICES ASSUME NEW j \in 1..n, ResolveField(yaml.fields[j]).name = name
                 PROVE  j = i
    BY <1>1
  <2>2. QED  BY <1>2, <2>1, NamesAreDistinct
<1>5. ResolveField(yaml.fields[i]).name = name
  BY <1>2
<1> HIDE DEF class, name
<1>6. QED  BY <1>3, <1>4, <1>5 DEF Field, class, name

(* A field that is loaded is what LoadedClassIsUsable says.                *)
LEMMA ConditionIsSayable ==
  ASSUME NEW f, NEW banks, FieldLoads(f, banks), NEW bank \in f.required.banks
  PROVE  Accepts("known_bank", Text(bank, {"letter"}, 0), banks)
<1>1. bank \in banks
  BY DEF FieldLoads
<1>2. Text(bank, {"letter"}, 0).text = bank
  BY DEF Text
<1>3. QED  BY <1>1, <1>2 DEF Accepts

(* The other of the two conditions on the bank.                            *)
Opposite(when) == IF when = "bank_in" THEN "bank_not_in" ELSE "bank_in"

(* g is f with its condition turned round.                                 *)
AreOpposite(f, g) ==
  /\ f.required.when \in {"bank_in", "bank_not_in"}
  /\ f.required = [when |-> f.required.when, banks |-> f.required.banks]
  /\ g.required = [f.required EXCEPT !.when = Opposite(f.required.when)]

LEMMA ConditionsPartition ==
  ASSUME NEW f, NEW g, AreOpposite(f, g), NEW bank
  PROVE  /\ IsRequired(f, bank) # IsRequired(g, bank)
         /\ bank \in {None, "unknown"} => (IsRequired(f, bank) <=> f.required.when = "bank_not_in")
<1> DEFINE r == f.required
<1>1. r.when = "bank_in" \/ r.when = "bank_not_in"
  BY DEF AreOpposite
<1>2. g.required.when = Opposite(r.when) /\ g.required.banks = r.banks
  <2>1. r = [when |-> r.when, banks |-> r.banks]
    BY DEF AreOpposite
  <2>2. g.required = [r EXCEPT !.when = Opposite(r.when)]
    BY DEF AreOpposite
  <2> HIDE DEF r
  <2> DEFINE q == g.required
  <2>3. q = [when |-> Opposite(r.when), banks |-> r.banks]
    BY <2>1, <2>2
  <2> HIDE DEF q
  <2>4. q.when = Opposite(r.when) /\ q.banks = r.banks
    BY <2>3
  <2>5. QED  BY <2>4 DEF q
<1>3. bank \in {None, "unknown"} => ~KnownBank(bank)
  BY DEF KnownBank
<1>4. CASE r.when = "bank_in"
  <2>1. IsRequired(f, bank) = (KnownBank(bank) /\ bank \in r.banks)
    BY <1>4 DEF IsRequired
  <2>2. IsRequired(g, bank) = (~KnownBank(bank) \/ bank \notin r.banks)
    BY <1>2, <1>4 DEF IsRequired, Opposite
  <2>3. QED  BY <1>3, <1>4, <2>1, <2>2
<1>5. CASE r.when = "bank_not_in"
  <2>1. IsRequired(f, bank) = (~KnownBank(bank) \/ bank \notin r.banks)
    BY <1>5 DEF IsRequired
  <2>2. IsRequired(g, bank) = (KnownBank(bank) /\ bank \in r.banks)
    BY <1>2, <1>5 DEF IsRequired, Opposite
  <2>3. QED  BY <1>3, <1>5, <2>1, <2>2
<1>6. QED  BY <1>1, <1>4, <1>5

LEMMA ColumnsAreFound ==
  ASSUME None \notin Errors, NEW f, IsFieldSpec(f), NEW banks, FieldLoads(f, banks), f.type = "table"
  PROVE  ColumnWords(f) # <<>> /\ \A i \in DOMAIN ColumnWords(f) : ColumnWords(f)[i] # <<>>
<1>1. f.columns # None /\ f.columns # <<>>
  BY DEF FieldLoads, ShapeIsOk
<1>2. PICK T : f.columns \in Seq(T)
  BY <1>1 DEF IsFieldSpec
<1>3. Len(f.columns) \in Nat /\ Len(f.columns) # 0
  BY <1>1, <1>2, LenProperties, EmptySeq
<1> DEFINE n == Len(f.columns)
           words == [i \in 1..n |-> ColumnKeywords(f.columns[i][2])]
<1>4. ColumnWords(f) = words
  BY <1>1 DEF ColumnWords
<1>5. \A i \in 1..n : words[i] # <<>>
  BY <1>1 DEF FieldLoads
<1>6. DOMAIN words = 1..n
  OBVIOUS
<1>7. words # <<>>
  <2>1. DOMAIN <<>> = {} /\ 1 \in 1..n
    BY <1>3
  <2> HIDE DEF words
  <2>2. QED  BY <1>6, <2>1
<1> HIDE DEF words
<1>8. QED  BY <1>4, <1>5, <1>6, <1>7

IsUsable(class, f) ==
  LET opposite == [f EXCEPT !.required.when = Opposite(f.required.when)]
  IN /\ \A bank \in f.required.banks : Accepts("known_bank", Text(bank, {"letter"}, 0), class.banks)
     /\ f.required.when # "always" =>
          /\ \A bank \in class.banks \cup {None, "unknown"} :
               IsRequired(f, bank) # IsRequired(opposite, bank)
          /\ \A bank \in {None, "unknown"} :
               f \in RequiredFields(class, bank) <=> f.required.when = "bank_not_in"
     /\ IsInjective(f.aliases)
     /\ f.type = "table" => f.columns # <<>> /\ \A i \in DOMAIN f.columns : f.columns[i] # <<>>
     /\ \A v \in DocValues : ValidateValue(class, f.name, v) =>
          ("known_bank" \in f.validators => v.text \in class.banks)

LEMMA LoadedFieldIsUsable ==
  ASSUME None \notin Errors, NEW yaml, IsClassFile(yaml), FileLoads(yaml), NEW i \in 1..Len(yaml.fields)
  PROVE  IsUsable(LoadClass(yaml), ResolveField(yaml.fields[i]))
<1> DEFINE class == LoadClass(yaml)
           x == yaml.fields[i]
           f == ResolveField(x)
           when == f.required.when
           g == [f EXCEPT !.required.when = Opposite(when)]
           banks == BankNames(yaml.banks)
<1>1. class.banks = banks
  BY DEF LoadClass
<1>2. IsFieldSpec(x) /\ FieldLoads(x, banks)
  BY DEF IsClassFile, FileLoads
<1>3. /\ f.name = x.name /\ f.type = x.type /\ f.aliases = Aliases(x) /\ f.validators = x.validators
      /\ f.required = x.required /\ f.columns = ColumnWords(x)
  BY Resolved
<1>4. g.required = [f.required EXCEPT !.when = Opposite(when)]
  <2> HIDE DEF when
  <2>1. QED  BY Resolved
<1>5. Field(class, f.name) = f
  BY <1>3, FieldIsFound
<1>6. f \in ToSet(class.fields)
  <2>1. class.fields = [k \in 1..Len(yaml.fields) |-> ResolveField(yaml.fields[k])]
    BY DEF LoadClass
  <2>2. QED  BY <2>1 DEF ToSet
<1> HIDE DEF class, x, f, g, banks
<1>7. \A bank \in f.required.banks : Accepts("known_bank", Text(bank, {"letter"}, 0), class.banks)
  BY <1>1, <1>2, <1>3, ConditionIsSayable
<1>8. ASSUME when # "always", NEW bank
      PROVE  /\ IsRequired(f, bank) # IsRequired(g, bank)
             /\ bank \in {None, "unknown"} => (IsRequired(f, bank) <=> when = "bank_not_in")
  <2>1. x.required.when \in {"always", "bank_in", "bank_not_in"}
    BY <1>2 DEF FieldLoads, ShapeIsOk
  <2>2. f.required = x.required /\ when = x.required.when
    BY <1>3
  <2>3. x.required = [when |-> x.required.when, banks |-> x.required.banks]
    BY <1>2 DEF IsFieldSpec
  <2>4. f.required.when \in {"bank_in", "bank_not_in"}
    BY <1>8, <2>1, <2>2
  <2>5. f.required = [when |-> f.required.when, banks |-> f.required.banks]
    BY <2>2, <2>3
  <2>6. when = f.required.when
    OBVIOUS
  <2> HIDE DEF when
  <2>7. g.required = [f.required EXCEPT !.when = Opposite(f.required.when)]
    BY <1>4, <2>6
  <2>8. /\ IsRequired(f, bank) # IsRequired(g, bank)
        /\ bank \in {None, "unknown"} => (IsRequired(f, bank) <=> f.required.when = "bank_not_in")
    <3>1. AreOpposite(f, g)
      BY <2>4, <2>5, <2>7 DEF AreOpposite
    <3>2. QED  BY <3>1, ConditionsPartition
  <2>9. QED  BY <2>6, <2>8
<1>9. IsInjective(f.aliases)
  BY <1>2, <1>3, AliasesAreDistinct
<1>10. f.type = "table" => f.columns # <<>> /\ \A k \in DOMAIN f.columns : f.columns[k] # <<>>
  <2>1. x.type = "table" => ColumnWords(x) # <<>> /\ \A k \in DOMAIN ColumnWords(x) : ColumnWords(x)[k] # <<>>
    BY <1>2, ColumnsAreFound
  <2>2. f.type = x.type /\ f.columns = ColumnWords(x)
    BY <1>3
  <2>3. QED  BY <2>1, <2>2
<1>11. ASSUME NEW v, ValidateValue(class, f.name, v), "known_bank" \in f.validators
       PROVE  v.text \in class.banks
  <2>1. Accepts("known_bank", v, class.banks)
    BY <1>5, <1>11 DEF ValidateValue
  <2>2. QED  BY <2>1 DEF Accepts
<1>12. when # "always" => \A bank \in {None, "unknown"} : f \in RequiredFields(class, bank) <=> when = "bank_not_in"
  BY <1>6, <1>8 DEF RequiredFields
<1>13. IsUsable(class, f)
  <2>1. g = [f EXCEPT !.required.when = Opposite(f.required.when)]
    BY DEF g
  <2>2. when = f.required.when
    OBVIOUS
  <2> DEFINE Usable2 == f.required.when # "always" =>
               /\ \A bank \in class.banks \cup {None, "unknown"} : IsRequired(f, bank) # IsRequired(g, bank)
               /\ \A bank \in {None, "unknown"} :
                    f \in RequiredFields(class, bank) <=> f.required.when = "bank_not_in"
  <2>3. Usable2
    BY <1>8, <1>12
  <2>4. \A v \in DocValues : ValidateValue(class, f.name, v) => ("known_bank" \in f.validators => v.text \in class.banks)
    BY <1>11
  <2> HIDE DEF when
  <2>5. QED  BY <1>7, <1>9, <1>10, <2>1, <2>3, <2>4 DEF IsUsable
<1>14. QED  BY <1>13 DEF class, f, x

(* LoadedClassIsUsable for every directory of class files.                 *)
THEOREM LoadedClassesAreUsable ==
  ASSUME None \notin Errors, case.kind = "classes",
         case.files # None => /\ \E T : case.files \in Seq(T)
                              /\ \A k \in 1..Len(case.files) : IsClassFile(case.files[k])
  PROVE  LoadedClassIsUsable
<1> DEFINE files == case.files
           n == Len(files)
           registry == LoadRegistry(files)
<1>1. SUFFICES ASSUME RegistryError(files) = None
      PROVE  /\ \A yaml \in ToSet(files) : ClassError(yaml) = None /\ yaml.id \in DOMAIN registry
             /\ \A id \in DOMAIN registry : \A f \in ToSet(registry[id].fields) : IsUsable(registry[id], f)
  BY DEF LoadedClassIsUsable, IsUsable, Opposite
<1>2. files # None
  <2>1. "directory" # None
    BY DEF Errors
  <2>2. QED  BY <1>1, <2>1 DEF RegistryError
<1>3. n \in Nat /\ DOMAIN files = 1..n /\ \A k \in 1..n : IsClassFile(files[k])
  BY <1>2, LenProperties
<1>4. ToSet(files) = {files[k] : k \in 1..n}
  BY <1>3 DEF ToSet
<1> HIDE DEF files
<1>5. \A k \in 1..n : ClassError(files[k]) = None
  <2> DEFINE errors == [k \in 1..n |-> ClassError(files[k])]
  <2>1. FirstOf(errors) = None
    BY <1>1, <1>2 DEF RegistryError
  <2>2. Len(errors) = n
    BY <1>3
  <2>3. \A k \in 1..n : errors[k] = None
    <3> HIDE DEF errors, n
    <3>1. QED  BY <1>3, <2>1, <2>2, AllAbsent
  <2>4. QED  BY <2>3
<1>6. \A yaml \in ToSet(files) : IsClassFile(yaml) /\ ClassError(yaml) = None
  BY <1>3, <1>4, <1>5
<1>7. DOMAIN registry = {yaml.id : yaml \in ToSet(files)}
  BY DEF LoadRegistry
<1>8. ASSUME NEW id \in DOMAIN registry
      PROVE  \E yaml \in ToSet(files) : registry[id] = LoadClass(yaml)
  <2> DEFINE chosen == CHOOSE yaml \in ToSet(files) : yaml.id = id
  <2>1. chosen \in ToSet(files)
    BY <1>7, <1>8
  <2>2. registry[id] = LoadClass(chosen)
    BY <1>7, <1>8 DEF LoadRegistry
  <2>3. QED  BY <2>1, <2>2
<1>9. ASSUME NEW yaml \in ToSet(files), NEW f \in ToSet(LoadClass(yaml).fields)
      PROVE  IsUsable(LoadClass(yaml), f)
  <2>1. IsClassFile(yaml) /\ FileLoads(yaml)
    BY <1>6, <1>9, FileWithoutError
  <2>2. LoadClass(yaml).fields = [i \in 1..Len(yaml.fields) |-> ResolveField(yaml.fields[i])]
    BY DEF LoadClass
  <2>3. PICK i \in 1..Len(yaml.fields) : f = ResolveField(yaml.fields[i])
    BY <1>9, <2>2 DEF ToSet
  <2>4. QED  BY <2>1, <2>3, LoadedFieldIsUsable
<1> HIDE DEF registry
<1>10. QED  BY <1>6, <1>7, <1>8, <1>9

-----------------------------------------------------------------------------
(* check_file: true ledgers, printed and misprinted.                       *)

(* A ledger of any number of rows, printed in any of the ways.             *)
IsPrinted(c) ==
  /\ c.moves \in Seq(Moves) /\ c.moves # <<>>
  /\ c.unsided \in SUBSET (1..Len(c.moves)) /\ c.cut \in 1..Len(c.moves)
  /\ c.daily \in BOOLEAN /\ c.newest \in BOOLEAN
  /\ c.misprint \in Nat /\ c.unprinted \in Nat
  /\ PlausibleLedger(c)

LEMMA LedgerLength ==
  ASSUME NEW c, IsPrinted(c)
  PROVE  /\ Len(c.moves) \in Nat \ {0} /\ c.cut \in 1..Len(c.moves)
         /\ \A k \in 1..Len(c.moves) : c.moves[k] \in Moves /\ c.moves[k] \in Int /\ c.moves[k] # 0
<1>1. Len(c.moves) \in Nat \ {0}
  BY EmptySeq, LenProperties DEF IsPrinted
<1>2. ASSUME NEW k \in 1..Len(c.moves) PROVE c.moves[k] \in Moves
  BY <1>2 DEF IsPrinted
<1>3. ASSUME NEW m \in Moves PROVE m \in Int /\ m # 0
  <2>1. m \in Int /\ m + m # 0
    BY <1>3, MovesAssumption
  <2>2. QED  BY <2>1
<1>4. QED  BY <1>1, <1>2, <1>3 DEF IsPrinted

(* The true balance grows by what each row moves.                          *)
LEMMA TrueBalances ==
  ASSUME NEW c, IsPrinted(c)
  PROVE  /\ After(c.moves, 0) = Start
         /\ \A k \in 0..Len(c.moves) : After(c.moves, k) \in Int
         /\ \A k \in 1..Len(c.moves) : After(c.moves, k) = After(c.moves, k - 1) + c.moves[k]
<1> DEFINE n == Len(c.moves)
           after == AfterEach(Start, c.moves, n)
<1>1. IsAfter(after, Start, c.moves, n)
  <2>1. n \in Nat /\ Start \in Int /\ \A k \in 1..n : c.moves[k] \in Int
    BY LedgerLength, MovesAssumption
  <2>2. QED  BY <2>1, BalanceAfter
<1>2. \A k : After(c.moves, k) = after[k]
  BY DEF After
<1> HIDE DEF after
<1>3. QED  BY <1>1, <1>2 DEF IsAfter

LEMMA PositionsInTime ==
  ASSUME NEW c, IsPrinted(c), NEW q \in 1..Len(c.moves)
  PROVE  RowAt(c, q) \in 1..Len(c.moves) /\ RowAt(c, RowAt(c, q)) = q
<1>1. Len(c.moves) \in Nat
  BY LedgerLength
<1>2. QED  BY <1>1 DEF RowAt

(* A position holds what its row prints.                                   *)
LEMMA PrintedRow ==
  ASSUME None \notin Int, NEW c, IsPrinted(c), NEW k \in 1..Len(c.moves), NEW q, RowAt(c, q) = k
  PROVE  LET row == LedgerRow(c, q) IN
         /\ row.page = PageAt(c, q) /\ row.date = IF c.daily THEN k ELSE 1
         /\ Net(row) = IF k \in c.unsided THEN None ELSE c.moves[k]
         /\ row.amount = IF k \in c.unsided THEN Abs(c.moves[k]) ELSE None
         /\ row.balance = IF k = c.unprinted THEN None
                          ELSE After(c.moves, k) + (IF k = c.misprint THEN 1 ELSE 0)
         /\ row \in StatedRow /\ Moving(row)
<1> DEFINE move == c.moves[k]
           row == LedgerRow(c, q)
           true == After(c.moves, k)
           off == IF k = c.misprint THEN 1 ELSE 0
           sided == k \notin c.unsided
<1>1. move \in Int /\ move # 0
  BY LedgerLength
<1>2. true \in Int /\ k \in Int
  <2>1. k \in 0..Len(c.moves)
    BY LedgerLength
  <2>2. QED  BY <2>1, TrueBalances
<1>3. row = [page |-> PageAt(c, q), date |-> IF c.daily THEN k ELSE 1,
             debit |-> IF sided /\ move < 0 THEN -move ELSE None,
             credit |-> IF sided /\ move > 0 THEN move ELSE None,
             amount |-> IF sided THEN None ELSE Abs(move),
             balance |-> IF k = c.unprinted THEN None ELSE true + off]
  BY DEF LedgerRow
<1> HIDE DEF move, row, true, sided
<1>4. /\ row.page = PageAt(c, q) /\ row.date = IF c.daily THEN k ELSE 1
      /\ row.debit = IF sided /\ move < 0 THEN -move ELSE None
      /\ row.credit = IF sided /\ move > 0 THEN move ELSE None
      /\ row.amount = IF sided THEN None ELSE Abs(move)
      /\ row.balance = IF k = c.unprinted THEN None ELSE true + off
  BY <1>3
<1>5. Net(row) = IF sided THEN move ELSE None
  <2>1. CASE ~sided
    BY <1>4, <2>1 DEF Net
  <2>2. CASE sided /\ move < 0
    <3>5. ~(move > 0)
      BY <1>1, <2>2
    <3>1. row.debit = -move /\ row.credit = None
      <4>1. row.debit = -move
        BY <1>4, <2>2
      <4>2. row.credit = None
        BY <1>4, <3>5
      <4>3. QED  BY <4>1, <4>2
    <3>4. -move # None
      BY <1>1
    <3>2. Net(row) = 0 - (-move)
      BY <3>1, <3>4 DEF Net, OrZero
    <3>3. QED  BY <1>1, <2>2, <3>2
  <2>3. CASE sided /\ move > 0
    <3>5. ~(move < 0)
      BY <1>1, <2>3
    <3>1. row.credit = move /\ row.debit = None
      <4>1. row.credit = move
        BY <1>4, <2>3
      <4>2. row.debit = None
        BY <1>4, <3>5
      <4>3. QED  BY <4>1, <4>2
    <3>4. move # None
      BY <1>1
    <3>2. Net(row) = move - 0
      BY <3>1, <3>4 DEF Net, OrZero
    <3>3. QED  BY <1>1, <2>3, <3>2
  <2>4. QED  BY <1>1, <2>1, <2>2, <2>3
<1>6. Abs(move) \in Int
  BY <1>1 DEF Abs
<1>7. off \in Int /\ true + off \in Int
  BY <1>2
<1>8. row \in StatedRow
  <2>1. PageAt(c, q) \in Int /\ (IF c.daily THEN k ELSE 1) \in Posted
    BY <1>2 DEF PageAt, Posted
  <2>2. (IF sided /\ move < 0 THEN -move ELSE None) \in Posted /\ (IF sided /\ move > 0 THEN move ELSE None) \in Posted
    BY <1>1 DEF Posted
  <2>3. (IF sided THEN None ELSE Abs(move)) \in Posted
    BY <1>6 DEF Posted
  <2>4. (IF k = c.unprinted THEN None ELSE true + off) \in Posted
    BY <1>7 DEF Posted
  <2> HIDE DEF off
  <2>5. QED  BY <1>3, <2>1, <2>2, <2>3, <2>4 DEF StatedRow
<1>9. Moving(row)
  <2>1. CASE sided
    <3>1. Net(row) # None
      BY <1>1, <1>5, <2>1
    <3>2. QED  BY <3>1 DEF Moving
  <2>2. CASE ~sided
    <3>1. c.unprinted # k
      BY <2>2 DEF IsPrinted, PlausibleLedger, sided
    <3>2. row.amount # None /\ row.balance # None
      BY <1>4, <1>6, <1>7, <2>2, <3>1
    <3>3. QED  BY <3>2 DEF Moving
  <2>3. QED  BY <2>1, <2>2
<1>10. QED  BY <1>4, <1>5, <1>8, <1>9 DEF row, move, true, sided


(* The positions of a page are those after Before, up to Upto.             *)
Before(c, p) == IF p = 1 THEN 0 ELSE c.cut
Upto(c, p) == IF p = 1 THEN c.cut ELSE Len(c.moves)

LEMMA MinOfInterval ==
  ASSUME NEW a \in Nat, NEW b \in Nat, a <= b
  PROVE  Min(a..b) = a
<1> DEFINE T == a..b
           least == Min(T)
<1>1. T \in SUBSET Nat /\ T # {} /\ a \in T /\ \A m \in T : a <= m
  OBVIOUS
<1> HIDE DEF T
<1>2. least \in T /\ \A m \in T : least <= m
  BY <1>1, MinOfNaturals
<1> HIDE DEF least
<1>3. least \in Nat /\ least <= a /\ a <= least
  BY <1>1, <1>2
<1>4. least = a
  BY <1>3
<1>5. QED  BY <1>4 DEF T, least

LEMMA PositionsOfPage ==
  ASSUME NEW c, IsPrinted(c), NEW p \in LedgerPages(c)
  PROVE  /\ p \in {1, 2} /\ Before(c, p) \in Nat /\ Upto(c, p) \in Nat
         /\ Before(c, p) < Upto(c, p) /\ Upto(c, p) <= Len(c.moves)
         /\ PositionsOn(c, p) = (Before(c, p) + 1)..Upto(c, p)
         /\ Min(PositionsOn(c, p)) = Before(c, p) + 1
         /\ Cardinality(PositionsOn(c, p)) = Upto(c, p) - Before(c, p)
<1> DEFINE n == Len(c.moves)
           last == c.cut
           from == Before(c, p)
           to == Upto(c, p)
<1>1. n \in Nat \ {0} /\ last \in 1..n
  BY LedgerLength
<1>2. p = 1 \/ (p = 2 /\ last # n)
  BY DEF LedgerPages
<1>3. from \in Nat /\ to \in Nat /\ from < to /\ to <= n
  BY <1>1, <1>2 DEF Before, Upto
<1>4. PositionsOn(c, p) = (from + 1)..to
  <2>1. CASE p = 1
    <3>1. from = 0 /\ to = last
      BY <2>1 DEF Before, Upto
    <3>2. \A q \in 1..n : PageAt(c, q) = p <=> q <= last
      BY <2>1 DEF PageAt
    <3>3. PositionsOn(c, p) = {q \in 1..n : q <= last}
      BY <3>2 DEF PositionsOn
    <3> HIDE DEF n, last, from, to
    <3>4. QED  BY <1>1, <3>1, <3>3
  <2>2. CASE p = 2
    <3>1. from = last /\ to = n
      BY <2>2 DEF Before, Upto
    <3>2. \A q \in 1..n : PageAt(c, q) = p <=> ~(q <= last)
      BY <2>2 DEF PageAt
    <3>3. PositionsOn(c, p) = {q \in 1..n : ~(q <= last)}
      BY <3>2 DEF PositionsOn
    <3> HIDE DEF n, last, from, to
    <3>4. QED  BY <1>1, <3>1, <3>3
  <2>3. QED  BY <1>2, <2>1, <2>2
<1> HIDE DEF from, to, n, last
<1>5. Min((from + 1)..to) = from + 1
  <2>1. from + 1 \in Nat /\ from + 1 <= to
    BY <1>3
  <2>2. QED  BY <1>3, <2>1, MinOfInterval
<1>6. Cardinality((from + 1)..to) = to - from
  <2>1. Cardinality((from + 1)..to) = IF from + 1 > to THEN 0 ELSE (to - (from + 1)) + 1
    <3>1. from + 1 \in Int /\ to \in Int
      BY <1>3
    <3>2. QED  BY <3>1, FS_Interval
  <2>2. QED  BY <1>3, <2>1
<1>7. QED  BY <1>2, <1>3, <1>4, <1>5, <1>6 DEF from, to, n, last

(* The file is made of such pages.                                         *)
RowsOfPage(c, p) == [i \in 1..(Upto(c, p) - Before(c, p)) |-> LedgerRow(c, Before(c, p) + i)]

LEMMA RowsOfPageType ==
  ASSUME None \notin Int, NEW c, IsPrinted(c), NEW p \in LedgerPages(c)
  PROVE  /\ RowsOfPage(c, p) \in Seq(StatedRow)
         /\ Len(RowsOfPage(c, p)) = Upto(c, p) - Before(c, p)
         /\ LedgerFile(c)[p].rows = RowsOfPage(c, p)
<1> DEFINE from == Before(c, p)
           m == Upto(c, p) - from
           n == Len(c.moves)
<1>1. from \in Nat /\ m \in Nat /\ from + m <= n /\ n \in Nat
  BY PositionsOfPage, LedgerLength
<1>2. ASSUME NEW i \in 1..m PROVE LedgerRow(c, from + i) \in StatedRow
  <2>1. from + i \in 1..n
    <3> HIDE DEF from, m, n
    <3>1. QED  BY <1>1
  <2>2. RowAt(c, from + i) \in 1..n
    BY <2>1, PositionsInTime
  <2>3. QED  BY <2>2, PrintedRow
<1>3. LedgerFile(c)[p].rows = [i \in 1..m |-> LedgerRow(c, (from + 1) + i - 1)]
  BY PositionsOfPage DEF LedgerFile
<1>4. \A i \in 1..m : (from + 1) + i - 1 = from + i
  <2> HIDE DEF from, m
  <2>1. QED  BY <1>1
<1>5. [i \in 1..m |-> LedgerRow(c, (from + 1) + i - 1)] = [i \in 1..m |-> LedgerRow(c, from + i)]
  BY <1>4
<1> DEFINE rows == [i \in 1..m |-> LedgerRow(c, from + i)]
<1>6. rows \in [1..m -> StatedRow]
  BY <1>2
<1>7. rows = RowsOfPage(c, p)
  BY DEF RowsOfPage
<1> HIDE DEF from, m, rows
<1>8. rows \in Seq(StatedRow) /\ Len(rows) = m
  BY <1>1, <1>6
<1>9. QED  BY <1>3, <1>5, <1>7, <1>8 DEF rows, m, from


(* The oldest row of a page.                                               *)
LEMMA OldestRow ==
  ASSUME NEW c, IsPrinted(c), NEW p \in LedgerPages(c)
  PROVE  /\ OldestOn(c, p) \in 1..Len(c.moves) /\ PageAt(c, RowAt(c, OldestOn(c, p))) = p
         /\ \A k \in 1..Len(c.moves) : PageAt(c, RowAt(c, k)) = p => OldestOn(c, p) <= k
<1> DEFINE n == Len(c.moves)
           T == {RowAt(c, q) : q \in PositionsOn(c, p)}
           least == OldestOn(c, p)
<1>1. n \in Nat \ {0}
  BY LedgerLength
<1>2. \A q \in 1..n : RowAt(c, q) \in 1..n /\ RowAt(c, RowAt(c, q)) = q
  BY PositionsInTime
<1>3. \A q : q \in PositionsOn(c, p) <=> q \in 1..n /\ PageAt(c, q) = p
  BY DEF PositionsOn
<1>4. T \in SUBSET Nat /\ T # {}
  <2>1. T \in SUBSET (1..n)
    BY <1>2, <1>3
  <2>2. Min(PositionsOn(c, p)) = Before(c, p) + 1 /\ Before(c, p) + 1 \in PositionsOn(c, p)
    <3>1. Before(c, p) + 1 \in (Before(c, p) + 1)..Upto(c, p)
      BY PositionsOfPage
    <3>2. QED  BY <3>1, PositionsOfPage
  <2>3. QED  BY <1>1, <2>1, <2>2
<1>5. least = Min(T)
  BY DEF OldestOn
<1>6. Min(T) \in T /\ \A m \in T : Min(T) <= m
  <2> HIDE DEF T
  <2>1. QED  BY <1>4, MinOfNaturals
<1>7. PICK q \in PositionsOn(c, p) : least = RowAt(c, q)
  BY <1>5, <1>6
<1>8. least \in 1..n /\ PageAt(c, RowAt(c, least)) = p
  BY <1>2, <1>3, <1>7
<1>9. ASSUME NEW k \in 1..n, PageAt(c, RowAt(c, k)) = p PROVE least <= k
  <2>1. RowAt(c, k) \in PositionsOn(c, p)
    BY <1>2, <1>3, <1>9
  <2>2. RowAt(c, RowAt(c, k)) = k
    BY <1>2
  <2>3. k \in T
    BY <2>1, <2>2
  <2>4. QED  BY <1>5, <1>6, <2>3
<1>10. QED  BY <1>8, <1>9

(* What the rows of one side move is no less than nothing.                 *)
LEMMA MovedIsNatural ==
  ASSUME NEW n \in Nat, NEW net, IsNet(net, n), NEW sign \in {-1, 1}
  PROVE  Moved(net, n, sign) \in Nat
<1>1. PICK f : IsTally(f, net, n, sign)
  BY MovedUpTo
<1> DEFINE N == {k \in Nat : k <= n => f[k] \in Nat}
<1>2. f[0] = 0 /\ f[n] = Moved(net, n, sign)
  BY <1>1 DEF IsTally
<1>3. \A k \in 1..n : f[k] = f[k - 1] + (IF sign * net[k] > 0 THEN sign * net[k] ELSE 0)
  BY <1>1 DEF IsTally
<1>4. ASSUME NEW k \in N PROVE k + 1 \in N
  <2>1. SUFFICES ASSUME k + 1 <= n PROVE f[k + 1] \in Nat
    OBVIOUS
  <2> DEFINE j == k + 1
  <2>2. j \in 1..n /\ j - 1 = k /\ f[k] \in Nat
    BY <2>1
  <2> HIDE DEF j
  <2>3. f[j] = f[k] + (IF sign * net[j] > 0 THEN sign * net[j] ELSE 0)
    BY <1>3, <2>2
  <2>4. net[j] \in Int
    BY <2>2 DEF IsNet
  <2>5. CASE sign = 1
    BY <2>2, <2>3, <2>4, <2>5 DEF j
  <2>6. CASE sign = -1
    BY <2>2, <2>3, <2>4, <2>6 DEF j
  <2>7. QED  BY <2>5, <2>6
<1>5. N = Nat
  <2>1. 0 \in N
    BY <1>2
  <2> HIDE DEF N
  <2>2. N \in SUBSET Nat
    BY DEF N
  <2>3. QED  BY <1>4, <2>1, <2>2, NatInduct
<1>6. QED  BY <1>2, <1>5

(* The pages of a ledger, and where a page prints where it begins.         *)
OpensOn(c, p) == c.opening = "every" \/ (c.opening = "first" /\ OldestOn(c, p) = 1)

LEMMA LedgerFileType ==
  ASSUME None \notin Int, NEW c, IsPrinted(c)
  PROVE  /\ LedgerFile(c) \in Seq(StatementPage) /\ Len(LedgerFile(c)) \in {1, 2}
         /\ LedgerPages(c) = 1..Len(LedgerFile(c))
         /\ \A p \in LedgerPages(c) :
              /\ LedgerFile(c)[p].page_no = p /\ LedgerFile(c)[p].rows = RowsOfPage(c, p)
              /\ LedgerFile(c)[p].opening = IF OpensOn(c, p) THEN After(c.moves, OldestOn(c, p) - 1) ELSE None
<1> DEFINE n == Len(c.moves)
           pages == IF c.cut = n THEN 1 ELSE 2
           stmt == LedgerFile(c)
           totals(p) == c.totals /\ p = Max(LedgerPages(c))
<1>1. pages \in {1, 2} /\ pages \in Nat
  OBVIOUS
<1>2. LedgerPages(c) = 1..pages
  BY DEF LedgerPages
<1>3. stmt = [p \in 1..pages |-> stmt[p]] /\ DOMAIN stmt = 1..pages
  BY <1>2 DEF LedgerFile
<1>4. \A p \in 1..pages :
        stmt[p] = [page_no |-> p,
                   opening |-> IF OpensOn(c, p) THEN After(c.moves, OldestOn(c, p) - 1) ELSE None,
                   closing |-> IF totals(p) THEN After(c.moves, n) ELSE None,
                   debit   |-> IF totals(p) THEN Moved(c.moves, n, -1) ELSE None,
                   credit  |-> IF totals(p) THEN Moved(c.moves, n, 1) + (IF c.misprint > n THEN 1 ELSE 0) ELSE None,
                   rows    |-> [i \in 1..Cardinality(PositionsOn(c, p)) |-> LedgerRow(c, Min(PositionsOn(c, p)) + i - 1)]]
  BY <1>2 DEF LedgerFile, OpensOn
<1>5. IsNet(c.moves, n) /\ n \in Nat
  BY LedgerLength DEF IsNet
<1>6. Moved(c.moves, n, -1) \in Posted
  <2>1. -1 \in {-1, 1}
    OBVIOUS
  <2>2. Moved(c.moves, n, -1) \in Nat
    BY <1>5, <2>1, MovedIsNatural
  <2>3. QED  BY <2>2 DEF Posted
<1>7. Moved(c.moves, n, 1) + (IF c.misprint > n THEN 1 ELSE 0) \in Posted
  <2>1. 1 \in {-1, 1}
    OBVIOUS
  <2>2. Moved(c.moves, n, 1) \in Nat
    BY <1>5, <2>1, MovedIsNatural
  <2>3. QED  BY <2>2 DEF Posted
<1>8. \A k \in 0..n : After(c.moves, k) \in Posted
  BY TrueBalances DEF Posted
<1>9. ASSUME NEW p \in 1..pages
      PROVE  /\ stmt[p] \in StatementPage /\ stmt[p].page_no = p /\ stmt[p].rows = RowsOfPage(c, p)
             /\ stmt[p].opening = IF OpensOn(c, p) THEN After(c.moves, OldestOn(c, p) - 1) ELSE None
  <2> DEFINE rows == [i \in 1..Cardinality(PositionsOn(c, p)) |-> LedgerRow(c, Min(PositionsOn(c, p)) + i - 1)]
             opening == IF OpensOn(c, p) THEN After(c.moves, OldestOn(c, p) - 1) ELSE None
             closing == IF totals(p) THEN After(c.moves, n) ELSE None
             debit == IF totals(p) THEN Moved(c.moves, n, -1) ELSE None
             credit == IF totals(p) THEN Moved(c.moves, n, 1) + (IF c.misprint > n THEN 1 ELSE 0) ELSE None
  <2>1. p \in LedgerPages(c) /\ p \in Int
    BY <1>2
  <2>2. stmt[p] = [page_no |-> p, opening |-> opening, closing |-> closing, debit |-> debit,
                   credit |-> credit, rows |-> rows]
    BY <1>4
  <2>3. OldestOn(c, p) - 1 \in 0..n
    BY <2>1, <1>5, OldestRow
  <2>4. opening \in Posted
    BY <1>8, <2>3 DEF Posted
  <2>5. closing \in Posted /\ debit \in Posted /\ credit \in Posted
    <3>1. n \in 0..n /\ None \in Posted
      BY <1>5 DEF Posted
    <3>2. QED  BY <1>6, <1>7, <1>8, <3>1
  <2> HIDE DEF opening, closing, debit, credit, rows
  <2>6. rows = RowsOfPage(c, p) /\ rows \in Seq(StatedRow)
    <3>1. stmt[p].rows = rows
      BY <2>2
    <3>2. QED  BY <2>1, <3>1, RowsOfPageType
  <2>7. stmt[p] \in StatementPage
    BY <2>1, <2>2, <2>4, <2>5, <2>6 DEF StatementPage
  <2>8. QED  BY <2>2, <2>6, <2>7 DEF opening
<1> HIDE DEF stmt, pages
<1>10. stmt \in [1..pages -> StatementPage]
  BY <1>3, <1>9
<1>11. stmt \in Seq(StatementPage) /\ Len(stmt) = pages
  BY <1>1, <1>10
<1>12. QED  BY <1>1, <1>2, <1>9, <1>11 DEF stmt


(* The pages of a ledger are in their order.                               *)
LEMMA LedgerInOrder ==
  ASSUME None \notin Int, NEW c, IsPrinted(c)
  PROVE  OrderedPages(LedgerFile(c)) = [p \in LedgerPages(c) |-> LedgerFile(c)[p]]
<1> DEFINE stmt == LedgerFile(c)
           pages == Len(stmt)
<1>1. stmt \in Seq(StatementPage) /\ pages \in Nat /\ LedgerPages(c) = 1..pages
      /\ \A p \in 1..pages : stmt[p].page_no = p
  BY LedgerFileType
<1> HIDE DEF stmt
<1>2. ASSUME NEW k \in 1..pages PROVE PlaceOf(stmt, k) = k
  <2> DEFINE S == {j \in 1..pages : \/ stmt[j].page_no < stmt[k].page_no
                                    \/ stmt[j].page_no = stmt[k].page_no /\ j <= k}
  <2>1. \A j \in 1..pages : j \in S <=> j <= k
    BY <1>1
  <2>2. S = 1..k
    <3> HIDE DEF S
    <3>1. S \subseteq 1..pages
      BY DEF S
    <3>2. ASSUME NEW j PROVE j \in S <=> j \in 1..k
      <4>1. j \in 1..k => j \in 1..pages /\ j <= k
        BY <1>1
      <4>2. j \in S => j \in 1..k
        BY <1>1, <2>1, <3>1
      <4>3. QED  BY <2>1, <4>1, <4>2
    <3>3. QED  BY <3>2
  <2>3. PlaceOf(stmt, k) = Cardinality(S)
    BY DEF PlaceOf
  <2>4. Cardinality(1..k) = k
    BY FS_Interval
  <2>5. QED  BY <2>2, <2>3, <2>4
<1>3. ASSUME NEW i \in 1..pages
      PROVE  (CHOOSE k \in 1..pages : PlaceOf(stmt, k) = i) = i
  <2>1. \A k \in 1..pages : PlaceOf(stmt, k) = i <=> k = i
    BY <1>2
  <2>2. QED  BY <2>1
<1>4. OrderedPages(stmt) = [i \in 1..pages |-> stmt[CHOOSE k \in 1..pages : PlaceOf(stmt, k) = i]]
  BY DEF OrderedPages
<1>5. OrderedPages(stmt) = [i \in 1..pages |-> stmt[i]]
  BY <1>3, <1>4
<1>6. QED  BY <1>1, <1>5 DEF stmt

(* Its rows are printed from the first position to the last.               *)
LEMMA PrintedRows ==
  ASSUME None \notin Int, NEW c, IsPrinted(c)
  PROVE  Printed(LedgerFile(c)) = [q \in 1..Len(c.moves) |-> LedgerRow(c, q)]
<1> DEFINE stmt == LedgerFile(c)
           pages == Len(stmt)
           n == Len(c.moves)
           seqs == [p \in 1..pages |-> OrderedPages(stmt)[p].rows]
           all == [q \in 1..n |-> LedgerRow(c, q)]
<1>1. pages \in {1, 2} /\ LedgerPages(c) = 1..pages /\ n \in Nat /\ c.cut \in 1..n
  BY LedgerFileType, LedgerLength
<1>2. \A p \in 1..pages : seqs[p] = RowsOfPage(c, p) /\ RowsOfPage(c, p) \in Seq(StatedRow)
  <2>1. \A p \in 1..pages : OrderedPages(stmt)[p] = stmt[p]
    BY <1>1, LedgerInOrder
  <2>2. QED  BY <1>1, <2>1, LedgerFileType, RowsOfPageType
<1>3. seqs \in [1..pages -> Seq(StatedRow)]
  BY <1>2
<1>4. Printed(stmt) = FlattenSeq(seqs)
  BY DEF Printed
<1>a. pages = 1 <=> c.cut = n
  BY <1>1 DEF LedgerPages
<1> HIDE DEF seqs, stmt, n, pages
<1>5. Printed(stmt) = IF pages = 1 THEN seqs[1] ELSE seqs[1] \o seqs[2]
  BY <1>1, <1>3, <1>4, FlattenedFew
<1>6. RowsOfPage(c, 1) = [i \in 1..c.cut |-> LedgerRow(c, i)]
  <2>1. Before(c, 1) = 0 /\ Upto(c, 1) = c.cut /\ c.cut - 0 = c.cut
    BY <1>1 DEF Before, Upto
  <2>2. \A i \in 1..c.cut : 0 + i = i
    OBVIOUS
  <2>3. RowsOfPage(c, 1) = [i \in 1..c.cut |-> LedgerRow(c, 0 + i)]
    BY <2>1 DEF RowsOfPage
  <2>4. QED  BY <2>2, <2>3
<1>7. CASE pages = 1
  <2>1. Printed(stmt) = RowsOfPage(c, 1)
    BY <1>1, <1>2, <1>5, <1>7
  <2>2. c.cut = n
    BY <1>a, <1>7
  <2>3. QED  BY <1>6, <2>1, <2>2 DEF stmt, n
<1>8. CASE pages = 2
  <2> DEFINE a == RowsOfPage(c, 1)
             b == RowsOfPage(c, 2)
  <2>1. Printed(stmt) = a \o b
    <3>1. seqs[1] = a /\ seqs[2] = b
      <4>1. 1 \in 1..pages /\ 2 \in 1..pages
        BY <1>8
      <4>2. QED  BY <1>2, <4>1
    <3>2. Printed(stmt) = seqs[1] \o seqs[2]
      BY <1>5, <1>8
    <3>3. QED  BY <3>1, <3>2
  <2>2. b = [i \in 1..(n - c.cut) |-> LedgerRow(c, c.cut + i)]
    BY DEF RowsOfPage, Before, Upto, n
  <2>3. n - c.cut \in Nat /\ c.cut \in Nat /\ c.cut + (n - c.cut) = n
    BY <1>1
  <2>4. a \in Seq(StatedRow) /\ b \in Seq(StatedRow) /\ Len(a) = c.cut /\ Len(b) = n - c.cut
    <3>1. a \in Seq(StatedRow) /\ b \in Seq(StatedRow)
      BY <1>2, <1>8
    <3>2. Len(a) = c.cut
      BY <1>6, <2>3, LenProperties
    <3>3. Len(b) = n - c.cut
      BY <2>2, <2>3, LenProperties
    <3>4. QED  BY <3>1, <3>2, <3>3
  <2>5. \A i \in 1..c.cut : a[i] = LedgerRow(c, i)
    BY <1>6
  <2>6. \A i \in 1..(n - c.cut) : b[i] = LedgerRow(c, c.cut + i)
    BY <2>2
  <2> HIDE DEF a, b
  <2>7. Len(a \o b) = n /\ a \o b \in Seq(StatedRow)
    <3>1. a \o b \in Seq(StatedRow) /\ Len(a \o b) = Len(a) + Len(b)
      BY <2>4, ConcatProperties
    <3>2. QED  BY <2>3, <2>4, <3>1
  <2>8. \A q \in 1..n : (a \o b)[q] = LedgerRow(c, q)
    <3>1. SUFFICES ASSUME NEW q \in 1..n PROVE (a \o b)[q] = LedgerRow(c, q)
      OBVIOUS
    <3>2. (a \o b)[q] = IF q <= c.cut THEN a[q] ELSE b[q - c.cut]
      BY <2>3, <2>4, <3>1, ConcatProperties
    <3>3. CASE q <= c.cut
      BY <2>5, <3>2, <3>3
    <3>4. CASE ~(q <= c.cut)
      <4>1. q - c.cut \in 1..(n - c.cut) /\ c.cut + (q - c.cut) = q
        BY <1>1, <2>3, <3>4
      <4>2. b[q - c.cut] = LedgerRow(c, c.cut + (q - c.cut))
        BY <2>6, <4>1
      <4>3. QED  BY <3>2, <3>4, <4>1, <4>2
    <3>5. QED  BY <3>3, <3>4
  <2>9. a \o b = [q \in 1..n |-> (a \o b)[q]]
    BY <2>7, LenProperties
  <2>10. a \o b = [q \in 1..n |-> LedgerRow(c, q)]
    BY <2>8, <2>9
  <2>11. QED  BY <2>1, <2>10 DEF stmt, n
<1>9. QED  BY <1>1, <1>7, <1>8

(* They are read from the oldest if the order is found.                    *)
InTime(c) == NewestFirst(Printed(LedgerFile(c))) <=> (c.newest /\ Len(c.moves) > 1)

LEMMA ReadRows ==
  ASSUME None \notin Int, NEW c, IsPrinted(c)
  PROVE  LET rows == Reading(LedgerFile(c))
             n == Len(c.moves)
         IN /\ Len(rows) = n /\ rows # <<>>
            /\ \A k \in 1..n : \E q \in 1..n : rows[k] = LedgerRow(c, q)
            /\ InTime(c) => \A k \in 1..n : rows[k] = LedgerRow(c, RowAt(c, k))
<1> DEFINE rows == Reading(LedgerFile(c))
           printed == Printed(LedgerFile(c))
           n == Len(c.moves)
<1>1. n \in Nat \ {0} /\ printed = [q \in 1..n |-> LedgerRow(c, q)] /\ Len(printed) = n
  <2>1. n \in Nat \ {0} /\ printed = [q \in 1..n |-> LedgerRow(c, q)]
    BY LedgerLength, PrintedRows
  <2> HIDE DEF printed, n
  <2>2. QED  BY <2>1, LenProperties
<1>2. rows = IF NewestFirst(printed) THEN Reverse(printed) ELSE printed
  BY DEF Reading
<1>3. Reverse(printed) = [k \in 1..n |-> printed[(n - k) + 1]]
  BY <1>1 DEF Reverse
<1>4. InTime(c) <=> (NewestFirst(printed) <=> (c.newest /\ n > 1))
  BY DEF InTime
<1>5. \A k \in 1..n : RowAt(c, k) = IF c.newest THEN n + 1 - k ELSE k
  BY DEF RowAt
<1>6. \A k \in 1..n : (n - k) + 1 \in 1..n /\ (n - k) + 1 = n + 1 - k
  BY <1>1
<1> HIDE DEF rows, printed, n
<1>7. Reverse(printed) = [k \in 1..n |-> LedgerRow(c, n + 1 - k)]
  BY <1>1, <1>3, <1>6
<1>8. CASE NewestFirst(printed)
  <2>1. rows = [k \in 1..n |-> LedgerRow(c, n + 1 - k)]
    BY <1>2, <1>7, <1>8
  <2>2. Len(rows) = n /\ rows # <<>>
    BY <1>1, <2>1, LenProperties
  <2>3. \A k \in 1..n : \E q \in 1..n : rows[k] = LedgerRow(c, q)
    BY <1>6, <2>1
  <2>4. ASSUME InTime(c) PROVE c.newest
    BY <1>4, <1>8, <2>4
  <2>5. InTime(c) => \A k \in 1..n : rows[k] = LedgerRow(c, RowAt(c, k))
    BY <1>5, <2>1, <2>4
  <2>6. QED  BY <2>2, <2>3, <2>5 DEF rows, n
<1>9. CASE ~NewestFirst(printed)
  <2>1. rows = [k \in 1..n |-> LedgerRow(c, k)]
    BY <1>1, <1>2, <1>9
  <2>2. Len(rows) = n /\ rows # <<>>
    BY <1>1, <2>1, LenProperties
  <2>3. \A k \in 1..n : \E q \in 1..n : rows[k] = LedgerRow(c, q)
    BY <2>1
  <2>4. ASSUME InTime(c), NEW k \in 1..n PROVE RowAt(c, k) = k
    <3>1. ~(c.newest /\ n > 1)
      BY <1>4, <1>9, <2>4
    <3>2. CASE ~c.newest
      BY <1>5, <3>2
    <3>3. CASE ~(n > 1)
      <4>1. n = 1 /\ k = 1
        BY <1>1, <3>3
      <4>2. n + 1 - k = k
        BY <4>1
      <4>3. QED  BY <1>5, <4>2
    <3>4. QED  BY <3>1, <3>2, <3>3
  <2>5. InTime(c) => \A k \in 1..n : rows[k] = LedgerRow(c, RowAt(c, k))
    BY <2>1, <2>4
  <2>6. QED  BY <2>2, <2>3, <2>5 DEF rows, n
<1>10. QED  BY <1>8, <1>9


(* Row k of a true ledger that prints every side and balance: r is the     *)
(* row of the ledger at each place of rows.                                *)
IsTrueCopy(rows, r, c) ==
  /\ Len(rows) = Len(c.moves) /\ r \in [1..Len(c.moves) -> 1..Len(c.moves)]
  /\ \A k \in 1..Len(c.moves) : /\ rows[k].balance = After(c.moves, r[k])
                                /\ Net(rows[k]) = c.moves[r[k]]

(* In time every balance continues the one before it.                      *)
LEMMA ChainInTime ==
  ASSUME None \notin Int, NEW c, IsPrinted(c), NEW rows, NEW r, IsTrueCopy(rows, r, c),
         \A k \in 1..Len(c.moves) : r[k] = k
  PROVE  ChainScore(rows) = Len(c.moves) - 1
<1> DEFINE n == Len(c.moves)
           S == {k \in 2..Len(rows) :
                   /\ None \notin {rows[k - 1].balance, rows[k].balance, Net(rows[k])}
                   /\ rows[k].balance = rows[k - 1].balance + Net(rows[k])}
<1>1. n \in Nat \ {0} /\ Len(rows) = n
  BY LedgerLength DEF IsTrueCopy
<1>2. \A k \in 0..n : After(c.moves, k) \in Int
  BY TrueBalances
<1>3. \A k \in 1..n : /\ After(c.moves, k) = After(c.moves, k - 1) + c.moves[k] /\ c.moves[k] \in Int
                      /\ rows[k].balance = After(c.moves, k) /\ Net(rows[k]) = c.moves[k]
  BY TrueBalances, LedgerLength DEF IsTrueCopy
<1>4. S = 2..n
  <2>1. ASSUME NEW k \in 2..n PROVE k \in S
    <3>1. k \in 1..n /\ k - 1 \in 1..n /\ k \in 0..n /\ k - 1 \in 0..n
      BY <1>1, <2>1
    <3>2. /\ rows[k].balance = After(c.moves, k) /\ rows[k - 1].balance = After(c.moves, k - 1)
          /\ Net(rows[k]) = c.moves[k] /\ c.moves[k] \in Int
      BY <1>3, <3>1
    <3>3. After(c.moves, k) \in Int /\ After(c.moves, k - 1) \in Int
      BY <1>2, <3>1
    <3>4. rows[k].balance = rows[k - 1].balance + Net(rows[k])
      BY <1>3, <3>1, <3>2
    <3>5. None \notin {rows[k - 1].balance, rows[k].balance, Net(rows[k])}
      BY <3>2, <3>3
    <3>6. QED  BY <1>1, <3>4, <3>5
  <2> HIDE DEF n
  <2>2. S \subseteq 2..n
    BY <1>1
  <2>3. QED  BY <2>1, <2>2
<1>5. ChainScore(rows) = Cardinality(S)
  BY DEF ChainScore
<1>6. Cardinality(2..n) = IF 2 > n THEN 0 ELSE (n - 2) + 1
  <2>1. 2 \in Int /\ n \in Int
    BY <1>1
  <2>2. QED  BY <2>1, FS_Interval
<1>7. QED
  <2> HIDE DEF S, n
  <2>1. ChainScore(rows) = n - 1
    BY <1>1, <1>4, <1>5, <1>6
  <2>2. QED  BY <2>1 DEF n

(* Backwards none does, since no move undoes another.                      *)
LEMMA ChainBackwards ==
  ASSUME None \notin Int, NEW c, IsPrinted(c), NEW rows, NEW r, IsTrueCopy(rows, r, c),
         \A k \in 1..Len(c.moves) : r[k] = Len(c.moves) + 1 - k
  PROVE  ChainScore(rows) = 0
<1> DEFINE n == Len(c.moves)
           S == {k \in 2..Len(rows) :
                   /\ None \notin {rows[k - 1].balance, rows[k].balance, Net(rows[k])}
                   /\ rows[k].balance = rows[k - 1].balance + Net(rows[k])}
<1>1. n \in Nat \ {0} /\ Len(rows) = n
  BY LedgerLength DEF IsTrueCopy
<1>2. S = {}
  <2>1. SUFFICES ASSUME NEW k \in 2..n, rows[k].balance = rows[k - 1].balance + Net(rows[k])
                 PROVE  FALSE
    BY <1>1
  <2> DEFINE j == n + 1 - k
  <2>2. k \in 1..n /\ k - 1 \in 1..n /\ j \in 1..n /\ j + 1 \in 1..n /\ j \in 0..n
        /\ n + 1 - (k - 1) = j + 1 /\ (j + 1) - 1 = j
    BY <1>1, <2>1
  <2>3. r[k] = j /\ r[k - 1] = j + 1
    BY <2>2
  <2> HIDE DEF j, n
  <2>4. /\ rows[k].balance = After(c.moves, j) /\ rows[k - 1].balance = After(c.moves, j + 1)
        /\ Net(rows[k]) = c.moves[j]
    BY <2>2, <2>3 DEF IsTrueCopy, n
  <2>5. After(c.moves, j + 1) = After(c.moves, j) + c.moves[j + 1] /\ After(c.moves, j) \in Int
    BY <2>2, TrueBalances DEF n
  <2>6. /\ c.moves[j] \in Moves /\ c.moves[j + 1] \in Moves
        /\ c.moves[j] \in Int /\ c.moves[j + 1] \in Int
    BY <2>2, LedgerLength DEF n
  <2>7. c.moves[j] + c.moves[j + 1] # 0
    BY <2>6, MovesAssumption
  <2>8. After(c.moves, j) = (After(c.moves, j) + c.moves[j + 1]) + c.moves[j]
    BY <2>1, <2>4, <2>5
  <2>9. QED  BY <2>5, <2>6, <2>7, <2>8
<1>3. ChainScore(rows) = Cardinality(S)
  BY DEF ChainScore
<1>4. QED  BY <1>2, <1>3, FS_EmptySet

(* The dates of a ledger are all there.                                    *)
LEMMA OrderByDates ==
  ASSUME None \notin Int, NEW n \in Nat \ {0}, NEW rows, Len(rows) = n,
         \A k \in 1..n : rows[k].date \in Int
  PROVE  NewestFirst(rows) <=>
           IF n >= 2 /\ rows[1].date # rows[n].date THEN rows[n].date < rows[1].date
           ELSE ChainScore(Reverse(rows)) > ChainScore(rows)
<1> DEFINE dated == {k \in 1..Len(rows) : rows[k].date # None}
<1>1. dated = 1..n
  OBVIOUS
<1>2. Min(1..n) = 1 /\ Max(1..n) = n /\ Cardinality(1..n) = n
  <2>1. 1 \in Nat /\ n \in Nat /\ 1 <= n /\ n # 0
    OBVIOUS
  <2>2. Cardinality(1..n) = n
    BY <2>1, FS_Interval
  <2>3. QED  BY <2>1, <2>2, MinOfInterval, MaxUpTo
<1>3. NewestFirst(rows) <=>
        IF Cardinality(dated) >= 2 /\ rows[Min(dated)].date # rows[Max(dated)].date
        THEN rows[Max(dated)].date < rows[Min(dated)].date
        ELSE ChainScore(Reverse(rows)) > ChainScore(rows)
  BY DEF NewestFirst
<1> HIDE DEF dated
<1>4. QED  BY <1>1, <1>2, <1>3

(* No row continues another where there is but one.                        *)
LEMMA ChainOfOne ==
  ASSUME NEW rows, Len(rows) = 1
  PROVE  ChainScore(rows) = 0
<1>1. 2..Len(rows) = {}
  OBVIOUS
<1>2. ChainScore(rows) = Cardinality({})
  BY <1>1 DEF ChainScore
<1>3. QED  BY <1>2, FS_EmptySet

(* Dates or fitting balances show the order of the rows.                   *)
LEMMA OrderIsFound ==
  ASSUME None \notin Int, NEW c, IsPrinted(c), OrderShows(c)
  PROVE  InTime(c)
<1> DEFINE n == Len(c.moves)
           printed == Printed(LedgerFile(c))
           back == Reverse(printed)
<1>1. n \in Nat \ {0} /\ 1 \in 1..n /\ n \in 1..n
  BY LedgerLength
<1>2. printed = [q \in 1..n |-> LedgerRow(c, q)] /\ Len(printed) = n
  <2>1. printed = [q \in 1..n |-> LedgerRow(c, q)]
    BY PrintedRows
  <2> HIDE DEF printed, n
  <2>2. QED  BY <1>1, <2>1, LenProperties
<1>3. back = [k \in 1..n |-> printed[(n - k) + 1]] /\ Len(back) = n
  <2>1. back = [k \in 1..n |-> printed[(n - k) + 1]]
    BY <1>2 DEF Reverse
  <2> HIDE DEF printed, n, back
  <2>2. QED  BY <1>1, <2>1, LenProperties
<1>4. \A q \in 1..n : RowAt(c, q) \in 1..n /\ RowAt(c, q) = IF c.newest THEN n + 1 - q ELSE q
  BY PositionsInTime DEF RowAt
<1>5. \A q \in 1..n : printed[q].date = (IF c.daily THEN RowAt(c, q) ELSE 1) /\ printed[q].date \in Int
  <2>1. ASSUME NEW q \in 1..n PROVE LedgerRow(c, q).date = IF c.daily THEN RowAt(c, q) ELSE 1
    <3>1. RowAt(c, q) \in 1..Len(c.moves)
      BY <1>4
    <3>2. QED  BY <3>1, PrintedRow
  <2> HIDE DEF n, printed
  <2>2. QED  BY <1>2, <1>4, <2>1
<1>6. c.newest \in BOOLEAN /\ c.daily \in BOOLEAN
  BY DEF IsPrinted
<1>7. SUFFICES NewestFirst(printed) <=> (c.newest /\ n > 1)
  BY DEF InTime
<1>9. NewestFirst(printed) <=>
           IF n >= 2 /\ printed[1].date # printed[n].date THEN printed[n].date < printed[1].date
           ELSE ChainScore(back) > ChainScore(printed)
  <2> HIDE DEF printed, n
  <2>1. QED  BY <1>1, <1>2, <1>5, OrderByDates DEF back
<1>10. CASE n = 1
  <2> HIDE DEF printed, n, back
  <2>1. ChainScore(back) = 0 /\ ChainScore(printed) = 0
    BY <1>2, <1>3, <1>10, ChainOfOne
  <2>3. ~(n >= 2) /\ ~(n > 1) /\ ~(0 > 0)
    BY <1>10
  <2>a. NewestFirst(printed) <=> ChainScore(back) > ChainScore(printed)
    BY <1>9, <2>3
  <2>2. ~NewestFirst(printed)
    <3>1. ~(ChainScore(back) > ChainScore(printed))
      BY <2>1
    <3>2. QED  BY <2>a, <3>1
  <2>4. QED  BY <1>10, <2>2, <2>3
<1>11. CASE n # 1 /\ c.daily
  <2> HIDE DEF printed, n, back
  <2>1. n >= 2 /\ n > 1
    BY <1>1, <1>11
  <2>2. printed[1].date = RowAt(c, 1) /\ printed[n].date = RowAt(c, n)
    BY <1>1, <1>5, <1>11
  <2>3. CASE c.newest
    <3>1. RowAt(c, 1) = n /\ RowAt(c, n) = 1
      BY <1>1, <1>4, <2>3
    <3>2. NewestFirst(printed)
      BY <1>9, <2>1, <2>2, <3>1
    <3>3. QED  BY <2>1, <2>3, <3>2
  <2>4. CASE ~c.newest
    <3>1. RowAt(c, 1) = 1 /\ RowAt(c, n) = n
      BY <1>1, <1>4, <2>4
    <3>a. 1 # n /\ ~(n < 1) /\ printed[1].date = 1 /\ printed[n].date = n
      BY <1>1, <2>1, <2>2, <3>1
    <3>2. ~NewestFirst(printed)
      BY <1>9, <2>1, <3>a
    <3>3. QED  BY <2>1, <2>4, <3>2
  <2>5. QED  BY <2>3, <2>4
<1>12. CASE n # 1 /\ ~c.daily
  <2>1. c.unsided = {} /\ c.misprint = 0 /\ c.unprinted = 0
    BY <1>12 DEF OrderShows
  <2>2. \A q \in 1..n : LET k == RowAt(c, q)
                        IN LedgerRow(c, q).balance = After(c.moves, k) /\ Net(LedgerRow(c, q)) = c.moves[k]
    <3>1. SUFFICES ASSUME NEW q \in 1..n, NEW k \in 1..n, RowAt(c, q) = k
                   PROVE  LedgerRow(c, q).balance = After(c.moves, k) /\ Net(LedgerRow(c, q)) = c.moves[k]
      BY <1>4
    <3>2. Net(LedgerRow(c, q)) = c.moves[k]
      BY <2>1, <3>1, PrintedRow
    <3>3. LedgerRow(c, q).balance = IF k = c.unprinted THEN None
                                    ELSE After(c.moves, k) + (IF k = c.misprint THEN 1 ELSE 0)
      BY <3>1, PrintedRow
    <3>4. After(c.moves, k) \in Int /\ k # 0
      <4>1. k \in 0..Len(c.moves)
        BY <1>1, <3>1
      <4>2. QED  BY <1>1, <3>1, <4>1, TrueBalances
    <3>5. QED  BY <2>1, <3>2, <3>3, <3>4
  <2> DEFINE r == [q \in 1..n |-> RowAt(c, q)]
             b == [q \in 1..n |-> RowAt(c, n + 1 - q)]
  <2>3. \A q \in 1..n : n + 1 - q \in 1..n /\ (n - q) + 1 = n + 1 - q
    BY <1>1
  <2> HIDE DEF printed, back
  <2>a. n > 1 /\ n - 1 > 0
    <3> HIDE DEF n
    <3>1. QED  BY <1>1, <1>12
  <2>4. IsTrueCopy(printed, r, c)
    BY <1>2, <1>4, <2>2 DEF IsTrueCopy
  <2>5. IsTrueCopy(back, b, c)
    <3>1. b \in [1..n -> 1..n]
      BY <1>4, <2>3
    <3>2. ASSUME NEW q \in 1..n
          PROVE  back[q].balance = After(c.moves, b[q]) /\ Net(back[q]) = c.moves[b[q]]
      <4>1. back[q] = LedgerRow(c, n + 1 - q)
        BY <1>2, <1>3, <2>3
      <4>2. b[q] = RowAt(c, n + 1 - q)
        OBVIOUS
      <4>3. QED  BY <2>2, <2>3, <4>1, <4>2
    <3>3. QED  BY <1>3, <3>1, <3>2 DEF IsTrueCopy
  <2>6. ~(printed[1].date # printed[n].date)
    BY <1>1, <1>5, <1>12
  <2>7. CASE c.newest
    <3>1. \A k \in 1..n : r[k] = n + 1 - k
      BY <1>4, <2>7
    <3>2. \A k \in 1..n : b[k] = k
      BY <1>1, <1>4, <2>3, <2>7
    <3> HIDE DEF r, b
    <3>3. ChainScore(printed) = 0 /\ ChainScore(back) = n - 1
      BY <2>4, <2>5, <3>1, <3>2, ChainInTime, ChainBackwards
    <3>5. n > 1 /\ n - 1 > 0
      BY <2>a
    <3>4. NewestFirst(printed)
      BY <1>9, <2>6, <3>3, <3>5
    <3>6. QED  BY <2>7, <3>4, <3>5
  <2>8. CASE ~c.newest
    <3>1. \A k \in 1..n : r[k] = k
      BY <1>4, <2>8
    <3>2. \A k \in 1..n : b[k] = n + 1 - k
      BY <1>4, <2>3, <2>8
    <3> HIDE DEF r, b
    <3>3. ChainScore(printed) = n - 1 /\ ChainScore(back) = 0
      BY <2>4, <2>5, <3>1, <3>2, ChainInTime, ChainBackwards
    <3>5. ~(0 > n - 1)
      BY <1>1
    <3>4. ~NewestFirst(printed)
      BY <1>9, <2>6, <3>3, <3>5
    <3>6. QED  BY <2>8, <3>4
  <2>9. QED  BY <2>7, <2>8
<1>13. QED  BY <1>6, <1>10, <1>11, <1>12


(* Where pages print that they begin, they begin there.                    *)
LEMMA LedgerOpenings ==
  ASSUME None \notin Int, NEW c, IsPrinted(c)
  PROVE  \A p \in LedgerPages(c) :
           /\ PageOpening(LedgerFile(c), p) = LedgerFile(c)[p].opening
           /\ PageOpening(LedgerFile(c), p) \in {None, After(c.moves, OldestOn(c, p) - 1)}
           /\ Openings(LedgerFile(c))[p] = LedgerFile(c)[p].opening
<1> DEFINE stmt == LedgerFile(c)
           pages == Len(stmt)
<1>1. /\ stmt \in Seq(StatementPage) /\ pages \in Nat /\ LedgerPages(c) = 1..pages
      /\ \A p \in 1..pages : /\ stmt[p].page_no = p
                             /\ stmt[p].opening = IF OpensOn(c, p) THEN After(c.moves, OldestOn(c, p) - 1) ELSE None
  BY LedgerFileType
<1>2. \A p \in 1..pages : OrderedPages(stmt)[p] = stmt[p]
  BY <1>1, LedgerInOrder
<1> HIDE DEF stmt
<1>3. SUFFICES ASSUME NEW p \in 1..pages
               PROVE  PageOpening(stmt, p) = stmt[p].opening /\ Openings(stmt)[p] = stmt[p].opening
  BY <1>1 DEF stmt
<1>4. Openings(stmt)[p] = stmt[p].opening
  BY <1>2 DEF Openings
<1> DEFINE there == {k \in 1..Len(stmt) : stmt[k].page_no = p}
<1>5. there = {p}
  BY <1>1
<1>6. Max({p}) = p
  <2>1. {p} \in SUBSET Nat /\ {p} # {} /\ p \in Nat /\ \A m \in {p} : m <= p
    OBVIOUS
  <2>2. Max({p}) \in {p}
    BY <2>1, MaxOfNaturals
  <2>3. QED  BY <2>2
<1>7. PageOpening(stmt, p) = IF there = {} THEN None ELSE stmt[Max(there)].opening
  BY DEF PageOpening
<1> HIDE DEF there
<1>8. QED  BY <1>4, <1>5, <1>6, <1>7

LEMMA ReadRowTypes ==
  ASSUME None \notin Int, NEW c, IsPrinted(c), NEW k \in 1..Len(c.moves)
  PROVE  LET row == Reading(LedgerFile(c))[k] IN
         /\ row \in StatedRow /\ Moving(row)
         /\ \E q \in 1..Len(c.moves) :
              /\ Net(row) = (IF q \in c.unsided THEN None ELSE c.moves[q])
              /\ row.balance = IF q = c.unprinted THEN None
                               ELSE After(c.moves, q) + (IF q = c.misprint THEN 1 ELSE 0)
<1>1. PICK q \in 1..Len(c.moves) : Reading(LedgerFile(c))[k] = LedgerRow(c, q)
  BY ReadRows
<1>2. RowAt(c, q) \in 1..Len(c.moves)
  BY PositionsInTime
<1>3. QED  BY <1>1, <1>2, PrintedRow

(* What check_file takes for the opening balance is not far from one.      *)
LEMMA LedgerStarts ==
  ASSUME None \notin Int, NEW c, IsPrinted(c)
  PROVE  /\ Starts0(c) \in SUBSET Int
         /\ OpeningBalance(LedgerFile(c)) # None => OpeningBalance(LedgerFile(c)) \in Starts0(c)
<1> DEFINE n == Len(c.moves)
           stmt == LedgerFile(c)
           far == Moved(c.moves, n, 1) + Moved(c.moves, n, -1) + 1
           rows == Reading(stmt)
<1>1. n \in Nat \ {0} /\ \A k \in 1..n : c.moves[k] \in Int
  BY LedgerLength
<1>2. far \in Nat /\ far >= 1
  <2>1. IsNet(c.moves, n) /\ n \in Nat /\ -1 \in {-1, 1} /\ 1 \in {-1, 1}
    BY <1>1 DEF IsNet
  <2>2. Moved(c.moves, n, 1) \in Nat /\ Moved(c.moves, n, -1) \in Nat
    BY <2>1, MovedIsNatural
  <2> HIDE DEF n
  <2>3. QED  BY <2>2
<1>3. \A k \in 0..n : After(c.moves, k) \in Int
  BY TrueBalances
<1>4. \A x : x \in Starts0(c) <=> \E k \in 0..n, d \in (-far)..far : x = After(c.moves, k) + d
  BY DEF Starts0
<1> HIDE DEF far
<1>5. Starts0(c) \in SUBSET Int
  <2> HIDE DEF n
  <2>1. \A k \in 0..n, d \in (-far)..far : After(c.moves, k) + d \in Int
    BY <1>2, <1>3
  <2>2. QED  BY <1>4, <2>1
<1>6. ASSUME NEW k \in 0..n, NEW d \in {0, 1}, NEW x, x = After(c.moves, k) + d
      PROVE  x \in Starts0(c)
  <2>1. d \in (-far)..far
    BY <1>2
  <2>2. QED  BY <1>4, <1>6, <2>1
<1>7. CASE ~Derived(stmt)
  <2> DEFINE there == {k \in 1..Len(Openings(stmt)) : Openings(stmt)[k] # None}
             p == Min(there)
  <2>1. stmt \in Seq(StatementPage) /\ LedgerPages(c) = 1..Len(stmt)
    BY LedgerFileType
  <2>2. Len(Openings(stmt)) = Len(stmt) /\ Len(stmt) \in Nat
    <3> HIDE DEF stmt
    <3>1. Openings(stmt) \in [1..Len(stmt) -> Posted] /\ Len(stmt) \in Nat
      BY <2>1, OpeningsAre
    <3>2. QED  BY <3>1, LenProperties
  <2>3. there # {} /\ OpeningBalance(stmt) = Openings(stmt)[p]
    BY <1>7 DEF Derived, OpeningBalance, FirstOf
  <2>4. there \in SUBSET Nat
    OBVIOUS
  <2>5. p \in there
    <3> HIDE DEF there
    <3>1. QED  BY <2>3, <2>4, MinOfNaturals
  <2>6. p \in LedgerPages(c) /\ OpeningBalance(stmt) # None
    BY <2>1, <2>2, <2>3, <2>5
  <2> HIDE DEF there, p
  <2>7. OpeningBalance(stmt) = After(c.moves, OldestOn(c, p) - 1)
    BY <2>3, <2>6, LedgerOpenings
  <2>8. OldestOn(c, p) \in 1..n
    BY <2>6, OldestRow
  <2>9. OldestOn(c, p) - 1 \in 0..n
    BY <1>1, <2>8
  <2>10. OpeningBalance(stmt) = After(c.moves, OldestOn(c, p) - 1) + 0
    BY <1>3, <2>7, <2>9
  <2>11. QED  BY <1>5, <1>6, <2>9, <2>10
<1>8. CASE Derived(stmt)
  <2>1. SUFFICES ASSUME OpeningBalance(stmt) # None PROVE OpeningBalance(stmt) \in Starts0(c)
    BY <1>5
  <2>2. rows[1].balance # None /\ OpeningBalance(stmt) = rows[1].balance - OrZero(Net(rows[1]))
    BY <1>8, <2>1 DEF OpeningBalance
  <2>3. 1 \in 1..n
    BY <1>1
  <2>4. PICK q \in 1..n :
          /\ Net(rows[1]) = (IF q \in c.unsided THEN None ELSE c.moves[q])
          /\ rows[1].balance = IF q = c.unprinted THEN None
                               ELSE After(c.moves, q) + (IF q = c.misprint THEN 1 ELSE 0)
    BY <2>3, ReadRowTypes
  <2> DEFINE d == IF q = c.misprint THEN 1 ELSE 0
  <2>5. d \in {0, 1} /\ rows[1].balance = After(c.moves, q) + d
    BY <2>2, <2>4
  <2>6. q \in 0..n /\ q - 1 \in 0..n
    BY <1>1
  <2>7. /\ After(c.moves, q) \in Int /\ After(c.moves, q - 1) \in Int /\ c.moves[q] \in Int
        /\ After(c.moves, q) = After(c.moves, q - 1) + c.moves[q]
    BY <1>1, <1>3, <2>6, TrueBalances
  <2> HIDE DEF rows, stmt, n, d
  <2>8. CASE q \in c.unsided
    <3>1. OrZero(Net(rows[1])) = 0
      BY <2>4, <2>8 DEF OrZero
    <3>2. OpeningBalance(stmt) = After(c.moves, q) + d
      BY <2>2, <2>5, <2>7, <3>1
    <3>3. QED  BY <1>6, <2>5, <2>6, <3>2
  <2>9. CASE q \notin c.unsided
    <3>1. OrZero(Net(rows[1])) = c.moves[q]
      BY <2>4, <2>7, <2>9 DEF OrZero
    <3>2. OpeningBalance(stmt) = After(c.moves, q - 1) + d
      BY <2>2, <2>5, <2>7, <3>1
    <3>3. QED  BY <1>6, <2>5, <2>6, <3>2
  <2>10. QED  BY <2>8, <2>9
<1>9. QED  BY <1>7, <1>8

(* A ledger whose opening balance is known can be checked.                 *)
LEMMA PrintedIsLedger ==
  ASSUME None \notin Int, NEW c, IsPrinted(c), OpeningBalance(LedgerFile(c)) # None
  PROVE  /\ IsLedger(LedgerFile(c)) /\ NoPageOpens(LedgerFile(c))
         /\ FileIsJudged(LedgerFile(c), Starts0(c))
<1> DEFINE stmt == LedgerFile(c)
           n == Len(c.moves)
<1>1. stmt \in Seq(StatementPage)
  BY LedgerFileType
<1>2. Reading(stmt) # <<>> /\ Len(Reading(stmt)) = n /\ \A k \in 1..n : Moving(Reading(stmt)[k])
  BY ReadRows, ReadRowTypes
<1>3. Starts0(c) \in SUBSET Int /\ OpeningBalance(stmt) \in Starts0(c)
  BY LedgerStarts
<1> HIDE DEF stmt, n
<1>4. FileIsJudged(stmt, Starts0(c))
  BY <1>1, <1>2, <1>3, FilesAreJudged
<1>5. IsStatement(stmt) /\ NoPageOpens(stmt)
  BY <1>1, FilesAreStatements
<1>6. IsLedger(stmt)
  BY <1>2, <1>3, <1>5 DEF IsLedger
<1>7. QED  BY <1>4, <1>5, <1>6 DEF stmt


(* What a row of a ledger prints, where truth is the balance before it, m  *)
(* its move, and off what its balance is misprinted by.                    *)
Prints(row, truth, m, off) ==
  /\ \/ Net(row) = m /\ row.amount = None
     \/ Net(row) = None /\ row.amount = Abs(m) /\ row.balance # None
  /\ row.balance \in {None, truth + m + off}

(* The balance is known where a page begins.                               *)
Opens(stmt, s, row, truth) ==
  s.page # None /\ row.page # s.page => PageOpening(stmt, row.page) \in {None, truth}

(* What its check makes of it, where the balance before it is off by d.    *)
Leaves(stmt, s, t, row, truth, m, off, d) ==
  /\ IF row.balance # None THEN t.running = truth + m + off ELSE t.running \in {truth + m, truth + m + d}
  /\ t.bad \in {s.bad, s.bad \cup {s.n + 1}}
  /\ t.bad # s.bad => (off = 1 \/ d = 1) /\ ~(s.n = 0 /\ Derived(stmt) /\ Net(row) # None)

(* A row is marked only if it or what came before is off, and leaves off   *)
(* what it prints or what was off.                                         *)
LEMMA LedgerRowChecked ==
  ASSUME None \notin Int, NEW stmt, NEW s \in LedgerState, NEW row \in StatedRow,
         NEW truth \in Int, NEW m \in Int, m # 0, NEW off \in {0, 1}, NEW d \in {0, 1},
         Prints(row, truth, m, off), s.running = truth + d,
         Opens(stmt, s, row, truth)
  PROVE  Leaves(stmt, s, CheckRow(stmt, s, row), row, truth, m, off, d)
<1> DEFINE starts   == s.page # None /\ row.page # s.page
           declared == PageOpening(stmt, row.page)
           jump     == starts /\ None \notin {declared, s.running} /\ declared # s.running
           running  == IF jump THEN declared ELSE s.running
           unsided  == /\ Net(row) = None
                       /\ None \notin {row.amount, running, row.balance}
           delta    == row.balance - running
           inferred == unsided /\ delta # 0 /\ delta \in {row.amount, -row.amount}
           net      == IF inferred THEN delta ELSE Net(row)
           expected == IF None \in {running, net} THEN None ELSE running + net
           excluded == \/ inferred \/ (s.n = 0 /\ Derived(stmt))
                       \/ None \in {expected, row.balance}
           checked  == (unsided /\ ~inferred) \/ ~excluded
           bad      == checked /\ expected # row.balance
           t        == CheckRow(stmt, s, row)
           sided    == Net(row) # None
           printed  == row.balance # None
<1>1. /\ t.running = (IF row.balance # None THEN row.balance ELSE expected)
      /\ t.bad = s.bad \cup (IF bad THEN {s.n + 1} ELSE {})
  BY DEF CheckRow
<1>2. /\ Net(row) = (IF sided THEN m ELSE None)
      /\ row.amount = (IF sided THEN None ELSE Abs(m))
      /\ row.balance = (IF printed THEN truth + m + off ELSE None)
      /\ sided \/ printed
  <2>1. m # None
    OBVIOUS
  <2>2. QED  BY <2>1 DEF Prints
<1> HIDE DEF sided, printed
<1> HIDE DEF t
<1>3. PICK e \in {0, 1} : running = truth + e /\ (e = 1 => d = 1)
  <2>1. CASE jump
    <3>1. declared = truth
      BY <2>1 DEF Opens
    <3>2. running = truth + 0
      BY <2>1, <3>1
    <3>3. QED  BY <3>2
  <2>2. CASE ~jump
    <3>1. running = truth + d
      BY <2>2
    <3>2. QED  BY <3>1
  <2>3. QED  BY <2>1, <2>2
<1> HIDE DEF jump, running
<1>4. running \in Int /\ running # None
  BY <1>3
<1>5. ASSUME off = e PROVE ~bad
  <2>1. CASE sided
    <3>1. ~unsided /\ net = m /\ expected = running + m
      <4>1. m # None
        OBVIOUS
      <4>2. ~unsided
        BY <1>2, <2>1, <4>1
      <4>3. net = m
        BY <1>2, <2>1, <4>2
      <4> HIDE DEF net
      <4>4. expected = running + m
        BY <1>4, <4>1, <4>3
      <4>5. QED  BY <4>2, <4>3, <4>4
    <3>2. CASE printed
      <4>1. row.balance = truth + m + off
        BY <1>2, <3>2
      <4>2. expected = row.balance
        BY <1>3, <1>5, <3>1, <4>1
      <4>3. QED  BY <4>2
    <3>3. CASE ~printed
      <4>1. row.balance = None
        BY <1>2, <3>3
      <4>2. excluded
        BY <4>1
      <4>3. QED  BY <3>1, <4>2
    <3>4. QED  BY <3>2, <3>3
  <2>2. CASE ~sided
    <3>1. row.balance = truth + m + off /\ row.amount = Abs(m) /\ Net(row) = None
      BY <1>2, <2>2
    <3>2. delta = m
      BY <1>3, <1>5, <3>1
    <3>3. row.amount \in Int /\ row.balance \in Int /\ m \in {row.amount, -row.amount}
      BY <3>1 DEF Abs
    <3>4. unsided
      BY <1>4, <3>1, <3>3
    <3>5. inferred
      BY <3>2, <3>3, <3>4
    <3>6. ~checked
      <4>1. excluded
        BY <3>5
      <4>2. QED  BY <3>5, <4>1
    <3>7. QED  BY <3>6
  <2>3. QED  BY <2>1, <2>2
<1>6. ASSUME s.n = 0, Derived(stmt), sided PROVE ~bad
  <2>1. Net(row) # None
    BY <1>2, <1>6
  <2>2. ~unsided /\ excluded
    BY <1>6, <2>1
  <2>3. QED  BY <2>2
<1>7. ASSUME ~printed PROVE t.running = truth + m + e
  <2>1. sided /\ row.balance = None /\ Net(row) = m /\ m # None
    BY <1>2, <1>7
  <2>2. ~unsided
    BY <2>1
  <2>3. net = m
    BY <2>1, <2>2
  <2>4. expected = running + m
    <3> HIDE DEF net
    <3>1. QED  BY <1>4, <2>1, <2>3
  <2> HIDE DEF expected
  <2>5. t.running = running + m
    BY <1>1, <2>1, <2>4
  <2>6. QED  BY <1>3, <2>5
<1>8. ASSUME printed PROVE t.running = truth + m + off
  <2>1. row.balance = truth + m + off /\ truth + m + off # None
    <3>1. truth + m + off \in Int
      OBVIOUS
    <3>2. QED  BY <1>2, <1>8, <3>1
  <2> HIDE DEF expected
  <2>2. QED  BY <1>1, <2>1
<1> HIDE DEF bad
<1>9. t.bad \in {s.bad, s.bad \cup {s.n + 1}}
  BY <1>1
<1>10. ASSUME t.bad # s.bad PROVE (off = 1 \/ d = 1) /\ ~(s.n = 0 /\ Derived(stmt) /\ sided)
  <2>1. bad
    BY <1>1, <1>10
  <2>2. off # e
    BY <1>5, <2>1
  <2>3. off = 1 \/ d = 1
    BY <1>3, <2>2
  <2>4. QED  BY <1>6, <2>1, <2>3
<1>11. printed \/ t.running \in {truth + m, truth + m + d}
  <2>1. e \in {0, d}
    BY <1>3
  <2>2. truth + m + 0 = truth + m
    OBVIOUS
  <2>3. QED  BY <1>7, <2>1, <2>2
<1>12. QED  BY <1>8, <1>9, <1>10, <1>11 DEF t, sided, printed, Leaves

(* The balance a row is read against is off by d: only a misprint that no  *)
(* balance printed since has made good, or that the first row began with.  *)
Since(c, k) == c.misprint \in 1..k /\ (c.misprint + 1)..k \subseteq {c.unprinted}

IsOff(c, k, s, d) ==
  /\ s.running = After(c.moves, k) + d
  /\ d = 1 => Since(c, k) \/ (k = 0 /\ Derived(LedgerFile(c)) /\ c.misprint = 1)

MarksMisprint(c, i) == c.misprint \in 1..i /\ (c.misprint + 1)..(i - 1) \subseteq {c.unprinted}

(* A page that begins with row k prints, if it does, the balance before it. *)
LEMMA PageBegins ==
  ASSUME None \notin Int, NEW c, IsPrinted(c), NEW k \in 1..Len(c.moves),
         k = 1 \/ PageAt(c, RowAt(c, k)) # PageAt(c, RowAt(c, k - 1))
  PROVE  PageOpening(LedgerFile(c), PageAt(c, RowAt(c, k))) \in {None, After(c.moves, k - 1)}
<1> DEFINE n == Len(c.moves)
           p == PageAt(c, RowAt(c, k))
<1>1. n \in Nat \ {0} /\ c.cut \in 1..n
  BY LedgerLength
<1>2. \A j \in 1..n : RowAt(c, j) = (IF c.newest THEN n + 1 - j ELSE j) /\ RowAt(c, j) \in 1..n
  BY PositionsInTime DEF RowAt
<1>3. \A q : PageAt(c, q) = IF q <= c.cut THEN 1 ELSE 2
  BY DEF PageAt
<1>4. p \in LedgerPages(c)
  <2>1. RowAt(c, k) \in 1..n
    BY <1>2
  <2>2. p \in {1, 2} /\ (c.cut = n => p = 1)
    BY <1>1, <1>3, <2>1
  <2>3. QED  BY <2>2 DEF LedgerPages
<1>5. OldestOn(c, p) \in 1..n /\ PageAt(c, RowAt(c, OldestOn(c, p))) = p /\ OldestOn(c, p) <= k
  BY <1>4, OldestRow
<1> DEFINE oldest == OldestOn(c, p)
<1>6. oldest = k
  <2>1. SUFFICES ASSUME oldest < k PROVE FALSE
    BY <1>1, <1>5
  <2>2. k # 1 /\ k \in 1..n /\ k - 1 \in 1..n /\ oldest <= k - 1
    BY <1>1, <1>5, <2>1
  <2>3. PageAt(c, RowAt(c, k)) # PageAt(c, RowAt(c, k - 1))
    BY <2>2
  <2> HIDE DEF oldest, n
  <2>4. CASE c.newest
    <3>1. RowAt(c, k) = n + 1 - k /\ RowAt(c, k - 1) = n + 1 - (k - 1) /\ RowAt(c, oldest) = n + 1 - oldest
      BY <1>2, <1>5, <2>2, <2>4 DEF oldest
    <3>2. (n + 1 - k <= c.cut) # (n + 1 - (k - 1) <= c.cut)
      BY <1>3, <2>3, <3>1
    <3>3. n + 1 - k <= c.cut /\ ~(n + 1 - (k - 1) <= c.cut) /\ ~(n + 1 - oldest <= c.cut)
      BY <1>1, <1>5, <2>2, <3>2 DEF oldest
    <3>4. PageAt(c, RowAt(c, k)) = 1 /\ PageAt(c, RowAt(c, oldest)) = 2
      BY <1>3, <3>1, <3>3
    <3>5. QED  BY <1>5, <3>4 DEF oldest
  <2>5. CASE ~c.newest
    <3>1. RowAt(c, k) = k /\ RowAt(c, k - 1) = k - 1 /\ RowAt(c, oldest) = oldest
      BY <1>2, <1>5, <2>2, <2>5 DEF oldest
    <3>2. (k <= c.cut) # (k - 1 <= c.cut)
      BY <1>3, <2>3, <3>1
    <3>3. ~(k <= c.cut) /\ k - 1 <= c.cut /\ oldest <= c.cut
      BY <1>1, <1>5, <2>2, <3>2 DEF oldest
    <3>4. PageAt(c, RowAt(c, k)) = 2 /\ PageAt(c, RowAt(c, oldest)) = 1
      BY <1>3, <3>1, <3>3
    <3>5. QED  BY <1>5, <3>4 DEF oldest
  <2>6. QED  BY <2>4, <2>5
<1>7. PageOpening(LedgerFile(c), p) \in {None, After(c.moves, oldest - 1)}
  BY <1>4, LedgerOpenings
<1>8. QED  BY <1>6, <1>7


(* What has been checked up to row k.                                      *)
LedgerInv(c, st, k) ==
  /\ \E d \in {0, 1} : IsOff(c, k, st[k], d)
  /\ \A i \in st[k].bad : i \in 1..k /\ MarksMisprint(c, i)

LEMMA LedgerInvInit ==
  ASSUME None \notin Int, NEW c, IsPrinted(c), OpeningBalance(LedgerFile(c)) # None,
         HasBasis(LedgerFile(c)), InTime(c), NEW st, IsChecking(st, LedgerFile(c))
  PROVE  LedgerInv(c, st, 0)
<1> DEFINE stmt == LedgerFile(c)
           n == Len(c.moves)
           first == Reading(stmt)[1]
           true == After(c.moves, 0)
<1>1. 1 \in 1..n /\ 0 \in 0..n /\ 1 - 1 = 0 /\ c.moves[1] \in Int
  BY LedgerLength
<1>2. first = LedgerRow(c, RowAt(c, 1)) /\ RowAt(c, RowAt(c, 1)) = 1
  BY <1>1, ReadRows, PositionsInTime
<1>3. st[0].running = OpeningBalance(stmt) /\ st[0].bad = {}
  BY DEF IsChecking, Unchecked
<1>4. true \in Int /\ After(c.moves, 1) = true + c.moves[1]
  BY <1>1, TrueBalances
<1>5. /\ first.page = PageAt(c, RowAt(c, 1))
      /\ Net(first) = (IF 1 \in c.unsided THEN None ELSE c.moves[1])
      /\ first.balance = IF 1 = c.unprinted THEN None
                         ELSE After(c.moves, 1) + (IF 1 = c.misprint THEN 1 ELSE 0)
  BY <1>1, <1>2, PrintedRow
<1>6. CASE ~Derived(stmt)
  <2>1. OpeningBalance(stmt) = PageOpening(stmt, first.page)
    BY <1>6 DEF HasBasis
  <2>2. PageOpening(stmt, first.page) \in {None, After(c.moves, 1 - 1)}
    BY <1>1, <1>5, PageBegins
  <2>3. st[0].running = true
    BY <1>1, <1>3, <2>1, <2>2
  <2>4. IsOff(c, 0, st[0], 0)
    BY <1>4, <2>3 DEF IsOff
  <2>5. QED  BY <1>3, <2>4 DEF LedgerInv
<1>7. CASE Derived(stmt)
  <2>1. Net(first) \in Int /\ first.balance \in Int /\ first.balance = OpeningBalance(stmt) + Net(first)
    BY <1>7, PrintedIsLedger, FirstRow
  <2> DEFINE d == IF 1 = c.misprint THEN 1 ELSE 0
  <2>2. Net(first) = c.moves[1] /\ first.balance = true + c.moves[1] + d /\ d \in {0, 1}
    BY <1>4, <1>5, <2>1
  <2>3. OpeningBalance(stmt) = true + d
    <3>1. OpeningBalance(stmt) \in Int
      BY PrintedIsLedger DEF IsLedger
    <3> HIDE DEF d, true, stmt, first
    <3>2. QED  BY <1>1, <1>4, <2>1, <2>2, <3>1
  <2>4. d = 1 => c.misprint = 1
    OBVIOUS
  <2> HIDE DEF d
  <2>5. IsOff(c, 0, st[0], d)
    BY <1>3, <1>7, <2>3, <2>4 DEF IsOff
  <2>6. QED  BY <1>3, <2>2, <2>5 DEF LedgerInv
<1>8. QED  BY <1>6, <1>7

LEMMA LedgerInvStep ==
  ASSUME None \notin Int, NEW c, IsPrinted(c), OpeningBalance(LedgerFile(c)) # None,
         HasBasis(LedgerFile(c)), InTime(c), NEW st, IsChecking(st, LedgerFile(c)),
         NEW k \in 1..Len(c.moves), LedgerInv(c, st, k - 1)
  PROVE  LedgerInv(c, st, k)
<1> DEFINE stmt == LedgerFile(c)
           n == Len(c.moves)
           j == k - 1
           s == st[j]
           row == Reading(stmt)[k]
           m == c.moves[k]
           truth == After(c.moves, j)
           off == IF k = c.misprint THEN 1 ELSE 0
           sided == k \notin c.unsided
           printed == k # c.unprinted
           mark == c.misprint
           gap == c.unprinted
<1>1. n \in Nat /\ k \in 1..n /\ j \in 0..n /\ k \in 0..n /\ mark \in Nat /\ gap \in Nat
  BY LedgerLength DEF IsPrinted
<1>2. Len(Reading(stmt)) = n /\ row = LedgerRow(c, RowAt(c, k)) /\ RowAt(c, RowAt(c, k)) = k
      /\ IsLedger(stmt)
  BY ReadRows, PositionsInTime, PrintedIsLedger
<1>3. s \in LedgerState /\ st[k] = CheckRow(stmt, s, row)
  BY <1>1, <1>2 DEF IsChecking
<1>4. s.n = j /\ s.page = IF j = 0 THEN None ELSE Reading(stmt)[j].page
  BY <1>1, <1>2, PlaceInReading
<1>5. /\ row.page = PageAt(c, RowAt(c, k)) /\ row \in StatedRow
      /\ Net(row) = (IF sided THEN m ELSE None) /\ row.amount = (IF sided THEN None ELSE Abs(m))
      /\ row.balance = (IF k = c.unprinted THEN None ELSE After(c.moves, k) + off)
  BY <1>2, PrintedRow
<1>6. truth \in Int /\ m \in Int /\ m # 0 /\ After(c.moves, k) = truth + m
  BY <1>1, TrueBalances, LedgerLength
<1>7. (sided \/ printed) /\ (mark # gap \/ mark = 0)
  BY DEF IsPrinted, PlausibleLedger
<1>8. Prints(row, truth, m, off)
  BY <1>5, <1>6, <1>7 DEF Prints
<1>9. PICK d \in {0, 1} : IsOff(c, j, s, d)
  BY DEF LedgerInv
<1>10. s.page # None /\ row.page # s.page => PageOpening(stmt, row.page) \in {None, truth}
  <2>1. SUFFICES ASSUME s.page # None, row.page # s.page
                 PROVE  PageOpening(stmt, row.page) \in {None, truth}
    OBVIOUS
  <2>2. j # 0 /\ j \in 1..n
    BY <1>1, <1>4, <2>1
  <2>3. Reading(stmt)[j] = LedgerRow(c, RowAt(c, j)) /\ RowAt(c, RowAt(c, j)) = j
    BY <2>2, ReadRows, PositionsInTime
  <2>4. s.page = PageAt(c, RowAt(c, j))
    BY <1>4, <2>2, <2>3, PrintedRow
  <2>5. PageAt(c, RowAt(c, k)) # PageAt(c, RowAt(c, k - 1))
    BY <1>5, <2>1, <2>4
  <2>6. QED  BY <1>5, <2>5, PageBegins
<1>11. off \in {0, 1} /\ (off = 1 <=> k = mark)
  OBVIOUS
<1>12. s.running = truth + d
  BY <1>9 DEF IsOff
<1>13. d = 1 => Since(c, j) \/ (j = 0 /\ Derived(stmt) /\ mark = 1)
  BY <1>9 DEF IsOff
<1>a. j = 0 /\ Derived(stmt) => sided
  <2>1. SUFFICES ASSUME j = 0, Derived(stmt) PROVE sided
    OBVIOUS
  <2>2. k = 1
    BY <1>1, <2>1
  <2>3. Net(row) # None
    BY <2>1, <2>2 DEF HasBasis
  <2>4. QED  BY <1>5, <2>3
<1>d. (printed <=> row.balance # None) /\ (sided <=> Net(row) # None)
  <2>1. After(c.moves, k) + off # None /\ m # None
    BY <1>6, <1>11
  <2>2. QED  BY <1>5, <2>1
<1>b. j = k - 1 /\ k \in Nat /\ k # 0
  BY <1>1
<1> HIDE DEF stmt, s, row, m, truth, off, sided, printed, mark, gap, n, j
<1>14. Leaves(stmt, s, CheckRow(stmt, s, row), row, truth, m, off, d)
  <2>1. Opens(stmt, s, row, truth)
    BY <1>10 DEF Opens
  <2>2. s \in LedgerState /\ row \in StatedRow
    BY <1>3, <1>5
  <2>3. d \in {0, 1}
    BY <1>9
  <2>4. QED  BY <2>3, <1>6, <1>8, <1>11, <1>12, <2>1, <2>2, LedgerRowChecked
<1>15. /\ IF printed THEN st[k].running = truth + m + off ELSE st[k].running \in {truth + m, truth + m + d}
       /\ st[k].bad \in {s.bad, s.bad \cup {k}}
       /\ st[k].bad # s.bad => (off = 1 \/ d = 1) /\ ~(j = 0 /\ Derived(stmt))
  <2>1. s.n + 1 = k
    BY <1>4, <1>b
  <2>2. (printed <=> row.balance # None) /\ (sided <=> Net(row) # None)
    BY <1>d
  <2>3. QED  BY <1>3, <1>4, <1>14, <1>a, <2>1, <2>2 DEF Leaves
<1>16. off = 1 => Since(c, k) /\ MarksMisprint(c, k)
  <2>1. SUFFICES ASSUME k = mark PROVE Since(c, k) /\ MarksMisprint(c, k)
    BY <1>11
  <2>2. mark \in 1..k /\ (mark + 1)..k = {} /\ (mark + 1)..(k - 1) = {}
    BY <1>b, <2>1
  <2>3. QED  BY <2>2 DEF Since, MarksMisprint, mark
<1>17. Since(c, j) => MarksMisprint(c, k) /\ (~printed => Since(c, k))
  <2>1. SUFFICES ASSUME Since(c, j) PROVE MarksMisprint(c, k) /\ (~printed => Since(c, k))
    OBVIOUS
  <2>2. mark \in 1..(k - 1) /\ (mark + 1)..(k - 1) \subseteq {gap}
    BY <1>b, <2>1 DEF Since, mark, gap
  <2>3. mark \in 1..k
    BY <1>b, <2>2
  <2>4. ASSUME ~printed PROVE (mark + 1)..k \subseteq {gap}
    <3>1. k = gap
      BY <2>4 DEF printed, gap
    <3>2. SUFFICES ASSUME NEW i \in (mark + 1)..k PROVE i = gap
      OBVIOUS
    <3>3. i = k \/ i \in (mark + 1)..(k - 1)
      BY <1>b, <2>2, <3>2
    <3>4. QED  BY <2>2, <3>1, <3>3
  <2>5. QED  BY <2>2, <2>3, <2>4 DEF Since, MarksMisprint, mark, gap
<1>18. \E e \in {0, 1} : IsOff(c, k, st[k], e)
  <2>1. CASE printed
    <3>1. st[k].running = After(c.moves, k) + off
      BY <1>6, <1>15, <2>1
    <3>2. IsOff(c, k, st[k], off)
      BY <1>16, <3>1 DEF IsOff
    <3>3. QED  BY <1>11, <3>2
  <2>2. CASE ~printed /\ st[k].running = truth + m
    <3>1. st[k].running = After(c.moves, k) + 0
      BY <1>6, <2>2
    <3>2. IsOff(c, k, st[k], 0)
      BY <3>1 DEF IsOff
    <3>3. QED  BY <3>2
  <2>3. CASE ~printed /\ st[k].running = truth + m + d
    <3>1. st[k].running = After(c.moves, k) + d
      BY <1>6, <2>3
    <3>2. d = 1 => Since(c, k)
      <4>1. SUFFICES ASSUME d = 1 PROVE Since(c, j)
        BY <1>17, <2>3
      <4>2. ~(j = 0 /\ mark = 1)
        <5>1. SUFFICES ASSUME j = 0, mark = 1 PROVE FALSE
          OBVIOUS
        <5>2. k = 1 /\ gap = k
          BY <1>b, <2>3, <5>1 DEF printed, gap
        <5>3. QED  BY <1>7, <5>1, <5>2
      <4>3. QED  BY <1>13, <4>1, <4>2
    <3>3. IsOff(c, k, st[k], d)
      BY <3>1, <3>2 DEF IsOff
    <3>4. QED  BY <3>3
  <2>4. QED  BY <1>15, <2>1, <2>2, <2>3
<1>19. ASSUME NEW i \in st[k].bad PROVE i \in 1..k /\ MarksMisprint(c, i)
  <2>1. CASE i \in s.bad
    <3>1. i \in 1..j /\ MarksMisprint(c, i)
      BY <2>1 DEF LedgerInv, s, j
    <3>2. QED  BY <1>b, <3>1
  <2>2. CASE i \notin s.bad
    <3>1. i = k /\ (off = 1 \/ d = 1) /\ ~(j = 0 /\ Derived(stmt))
      BY <1>15, <1>19, <2>2
    <3>2. MarksMisprint(c, k)
      BY <1>13, <1>16, <1>17, <3>1
    <3>3. QED  BY <1>b, <3>1, <3>2
  <2>3. QED  BY <2>1, <2>2
<1>20. QED  BY <1>18, <1>19 DEF LedgerInv

(* check_file marks a misprint and the next balance, no other row.         *)
LEMMA MisprintIsMarked ==
  ASSUME None \notin Int, NEW c, IsPrinted(c), OpeningBalance(LedgerFile(c)) # None,
         HasBasis(LedgerFile(c)), InTime(c)
  PROVE  \A k \in CheckFile(LedgerFile(c)).rows.bad : MarksMisprint(c, k)
<1> DEFINE stmt == LedgerFile(c)
           n == Len(c.moves)
<1>1. n \in Nat /\ Len(Reading(stmt)) = n /\ IsStatement(stmt)
  BY LedgerLength, ReadRows, PrintedIsLedger DEF IsLedger
<1>2. PICK st : IsChecking(st, stmt) /\ Checked(stmt) = st[n]
  BY <1>1, CheckedByRows
<1>3. CheckFile(stmt).rows = st[n]
  BY <1>2 DEF CheckFile, Judged
<1> DEFINE N == {k \in Nat : k <= n => LedgerInv(c, st, k)}
<1>4. 0 \in N
  BY <1>2, LedgerInvInit
<1>5. ASSUME NEW k \in N PROVE k + 1 \in N
  <2>1. SUFFICES ASSUME k + 1 <= n PROVE LedgerInv(c, st, k + 1)
    OBVIOUS
  <2>2. k + 1 \in 1..n /\ (k + 1) - 1 = k /\ LedgerInv(c, st, k)
    BY <1>1, <2>1
  <2>3. LedgerInv(c, st, (k + 1) - 1)
    BY <2>2
  <2>4. QED  BY <1>2, <2>2, <2>3, LedgerInvStep
<1>6. N = Nat
  <2> HIDE DEF N
  <2>1. N \in SUBSET Nat
    BY DEF N
  <2>2. QED  BY <1>4, <1>5, <2>1, NatInduct
<1>7. LedgerInv(c, st, n)
  BY <1>1, <1>6
<1>8. QED  BY <1>3, <1>7 DEF LedgerInv

(* check_file: a true ledger of any length, with any of its amounts        *)
(* printed without a side and at most one balance misprinted and one left  *)
(* out, reconciles exactly when an account explains what is printed; dates *)
(* or fitting balances show the order of its rows; a misprint marks its    *)
(* own row and the next that prints a balance, no other.                   *)
THEOREM PrintedLedgersAreJudged ==
  ASSUME None \notin Int, case.kind = "ledger", IsPrinted(case),
         OpeningBalance(LedgerFile(case)) # None
  PROVE  LedgerIsJudged
<1>1. FileIsJudged(LedgerFile(case), Starts0(case))
  BY PrintedIsLedger
<1>2. OrderShows(case) => InTime(case)
  BY OrderIsFound
<1>3. HasBasis(LedgerFile(case)) /\ InTime(case) =>
        \A k \in CheckFile(LedgerFile(case)).rows.bad : MarksMisprint(case, k)
  BY MisprintIsMarked
<1>4. QED  BY <1>1, <1>2, <1>3 DEF LedgerIsJudged, InTime, MarksMisprint

=============================================================================
