------------------------------ MODULE Dispatch ------------------------------
(***************************************************************************)
(* From predictions to tables: the scores of a page                        *)
(* (ocr_bench/metrics/dispatch.py, kie_f1.py), and the averages of a run   *)
(* (metrics/aggregate.py).                                                 *)
(*                                                                         *)
(* A manifest row is [id, task, tob, manual, gt]: tob is None or the kind  *)
(* of official score of its subtask, manual its label (None or a ground    *)
(* truth of kind "statement").  A ground truth is [kind, fields, rows,     *)
(* header], a prediction [error, output, likeness, question, fields,       *)
(* reread, rows]: how like the truth its text is, in percent, stands for   *)
(* what cer, wer, bmfl, ted, anls and the official scorer make of it;      *)
(* reread are the fields a second parse of the reply finds.  Fields map    *)
(* keys to values, statement rows are those of StatementPages, and a value *)
(* of a metric is a pair <<part, whole>>, or None.                         *)
(***************************************************************************)
EXTENDS StatementScores

NoGT == [kind |-> "none", fields |-> <<>>, rows |-> <<>>, header |-> FALSE]

(* load_gt: a label stands before the prepared ground truth. *)
LoadGt(row) == IF row.manual # None THEN row.manual ELSE row.gt

-----------------------------------------------------------------------------
(* is_full_miss: a page in parts, some of which failed, is scored as far   *)
(* as it goes.                                                             *)
IsPartial(pred) == pred.error = "partial"

(* Mutant of IsFullMiss: a page none of whose parts was read is scored. *)
MissUnlessPartial(pred) == pred = None \/ (pred # None /\ pred.error = "failed")

IsFullMiss(pred) ==
  pred = None \/ (pred # None /\ pred.error # "none" /\ ~(IsPartial(pred) /\ pred.output))

(* The official scorer gets the reply itself, or the page's text. *)
AnswerLikeness(pred) == IF pred.output THEN pred.likeness ELSE 0

(* A reply to a question that had no fields is parsed once more. *)
PredFields(pred) ==
  IF pred.fields = <<>> /\ pred.question /\ pred.output THEN pred.reread ELSE pred.fields

-----------------------------------------------------------------------------
(* score_fields: a row for each key of the truth and for each further key. *)
(* Two values are near if one is the other but for a slip or a label.      *)
Near(a, b) == a = b \/ {a, b} = {1, 2}

FieldAt(fields, key) == IF key \in DOMAIN fields THEN fields[key] ELSE None

ScoreFields(pred, gt) ==
  [key \in DOMAIN pred \cup DOMAIN gt |->
    LET p == FieldAt(pred, key)  g == FieldAt(gt, key)
        some == p # None /\ g # None
        none == p = None /\ g = None
    IN [pred |-> p, gt |-> g, in_gt |-> key \in DOMAIN gt,
        field_exact |-> none \/ (some /\ p = g), field_fuzzy |-> none \/ (some /\ Near(p, g)),
        false_accept |-> g = None /\ p # None, false_reject |-> g # None /\ p = None]]

(* worst_case_fields: no credit, not even where there is nothing to read. *)
WorstCaseFields(gt) ==
  [key \in DOMAIN gt |->
    [pred |-> None, gt |-> gt[key], in_gt |-> TRUE, field_exact |-> FALSE, field_fuzzy |-> FALSE,
     false_accept |-> FALSE, false_reject |-> gt[key] # None]]

MicroPrf(scored) ==
  LET Of(Test(_)) == Cardinality({k \in DOMAIN scored : Test(scored[k])})
  IN Prf(Of(LAMBDA r : r.field_exact /\ r.pred # None /\ r.in_gt),
         Of(LAMBDA r : r.pred # None), Of(LAMBDA r : r.gt # None /\ r.in_gt))

-----------------------------------------------------------------------------
(* What is measured on a page, by the task and the ground truth there is.  *)
Measure(row, gt) ==
  CASE gt.kind = "none" -> "no_gt"
    [] row.task = "text" /\ gt.kind = "text" -> "text"
    [] row.task = "table" /\ gt.kind = "html" -> "markup"
    [] row.task = "docparse" /\ gt.kind = "text" -> "markup"
    [] row.task = "kie" /\ gt.kind = "json" -> "kie"
    [] row.task = "classify" /\ gt.kind = "json" -> "classify"
    [] row.task = "statement" /\ gt.kind \in {"statement", "text_layer"} -> "statement"
    [] OTHER -> "not_applicable"

Scaled(likeness) == <<likeness, 100>>
Missed(likeness) == <<100 - likeness, 100>>

(* score_statement: rows are not measured where the truth has no header. *)
RowMetrics(pred, gt, has_header) ==
  LET r == RowPrf(pred, gt)
      none == [row_precision |-> None, row_recall |-> None, row_f1 |-> None]
  IN IF ~has_header THEN none
     ELSE [row_precision |-> r.precision, row_recall |-> r.recall, row_f1 |-> r.f1]

(* values.update: the metrics of two dictionaries. *)
With(f, g) == [m \in DOMAIN f \cup DOMAIN g |-> IF m \in DOMAIN f THEN f[m] ELSE g[m]]

(* _metric_values. *)
MetricValues(row, gt, pred) ==
  LET like == pred.likeness
      k    == MicroPrf(ScoreFields(PredFields(pred), gt.fields))
      what == Measure(row, gt)
      tob  == IF row.tob = None THEN <<>> ELSE [tob_score |-> Scaled(AnswerLikeness(pred))]
  IN CASE what = "text" -> With(tob, [cer |-> Missed(like), wer |-> Missed(like),
                                      bmfl |-> Scaled(AnswerLikeness(pred))])
       [] what = "markup" -> With(tob, [ted |-> Scaled(like), cer |-> Missed(like)])
       [] what = "kie" -> With(tob, [kie_precision |-> k.precision, kie_recall |-> k.recall,
                                     kie_f1 |-> k.f1])
       [] what = "classify" -> With(tob, [anls |-> Scaled(like)])
       [] what = "statement" -> With(tob, With(RowMetrics(pred.rows, gt.rows, gt.header),
                                               IF gt.kind = "text_layer" THEN [cer |-> Missed(like)] ELSE <<>>))
       [] OTHER -> [m \in {what} |-> None]

MetricFields(row, gt, pred) ==
  IF Measure(row, gt) \in {"kie", "statement"} THEN ScoreFields(PredFields(pred), gt.fields) ELSE <<>>

(* _worst_values: the names by themselves, and the worst of each. *)
Worst(metric) == IF metric \in {"cer", "wer"} THEN <<1, 1>> ELSE <<0, 1>>

WorstValues(row, gt) ==
  LET what  == Measure(row, gt)
      tob   == IF row.tob # None /\ what \notin {"statement"} THEN {"tob_score"} ELSE {}
      names == CASE what = "text" -> {"cer", "wer", "bmfl"} \cup tob
                 [] what = "markup" -> {"ted", "cer"} \cup tob
                 [] what = "kie" -> {"kie_precision", "kie_recall", "kie_f1"} \cup tob
                 [] what = "classify" -> {"anls"} \cup tob
                 [] what = "statement" -> {"row_precision", "row_recall", "row_f1"}
                                          \cup (IF gt.kind = "text_layer" THEN {"cer"} ELSE {})
                 [] OTHER -> {what}
      none  == IF what \in {"no_gt", "not_applicable"} THEN {what}
               ELSE IF what = "statement" /\ ~gt.header THEN {"row_precision", "row_recall", "row_f1"}
               ELSE {}
  IN [m \in names |-> IF m \in none THEN None ELSE Worst(m)]

(* Mutant of WorstFields: what there is nothing to read of is read right. *)
NothingReadFields(row, gt) ==
  IF Measure(row, gt) \in {"kie", "statement"} THEN ScoreFields(<<>>, gt.fields) ELSE <<>>

WorstFields(row, gt) ==
  IF Measure(row, gt) \in {"kie", "statement"} THEN WorstCaseFields(gt.fields) ELSE <<>>

(* score_sample. *)
ScoreSample(row, pred) ==
  LET gt == LoadGt(row)
  IN IF IsFullMiss(pred)
       THEN [values |-> WorstValues(row, gt), fields |-> WorstFields(row, gt)]
       ELSE [values |-> MetricValues(row, gt, pred), fields |-> MetricFields(row, gt, pred)]

-----------------------------------------------------------------------------
(* score_run: every row for every model, whether it has a prediction or    *)
(* not; latest maps [row, model] to the prediction there is.               *)
Models(latest) == {d.model : d \in DOMAIN latest}

LatestOf(latest, i, model) ==
  LET d == [row |-> i, model |-> model] IN IF d \in DOMAIN latest THEN latest[d] ELSE None

(* Mutant of Scored: what was not predicted is left out. *)
ScoredIfThere(manifest, latest) == DOMAIN latest

Scored(manifest, latest) == [row : 1..Len(manifest), model : Models(latest)]

ScoreRun(manifest, latest) ==
  [d \in Scored(manifest, latest) |-> ScoreSample(manifest[d.row], LatestOf(latest, d.row, d.model))]

(* aggregate: the cell of a table is the mean of the values there are of   *)
(* a metric, <<sum, n>>, in the rows the table is about.                   *)
TotalOf(values) ==
  FoldLeft(LAMBDA sum, v : <<sum[1] * v[2] + v[1] * sum[2], sum[2] * v[2]>>, <<0, 1>>, values)

Cell(scores, model, metric, about) ==
  LET of == {d \in DOMAIN scores : d.model = model /\ d.row \in about
                                   /\ metric \in DOMAIN scores[d].values
                                   /\ scores[d].values[metric] # None}
      rows == SetToSeq(of)
  IN [n |-> Cardinality(of), sum |-> TotalOf([i \in 1..Len(rows) |-> scores[rows[i]].values[metric]])]

(* _field_table: what share of the fields with a value was not answered,   *)
(* and of those without was.                                               *)
FieldsOf(scores, model) ==
  UNION {{[scored |-> d, key |-> k] : k \in DOMAIN scores[d].fields} :
           d \in {d \in DOMAIN scores : d.model = model}}

FieldAs(scores, f) == scores[f.scored].fields[f.key]

FrRate(scores, model) ==
  LET among == {f \in FieldsOf(scores, model) : FieldAs(scores, f).gt # None}
  IN <<Cardinality({f \in among : FieldAs(scores, f).false_reject}), Cardinality(among)>>

FaRate(scores, model) ==
  LET among == {f \in FieldsOf(scores, model) : FieldAs(scores, f).gt = None}
  IN <<Cardinality({f \in among : FieldAs(scores, f).false_accept}), Cardinality(among)>>

=============================================================================
