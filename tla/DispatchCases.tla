--------------------------- MODULE DispatchCases ----------------------------
(***************************************************************************)
(* Pages of every task, answered by one model, and by another that fails   *)
(* on some of them.                                                        *)
(***************************************************************************)
EXTENDS Dispatch

(* Statement rows of which only the key is of interest here. *)
KeyRow(n) == [page |-> 1, date |-> n, debit |-> 1, credit |-> None, amount |-> None, balance |-> None]
Known(n) == [i \in 1..n |-> KeyRow(i)]

GtFields == [{"name", "total"} -> {None, 1}]
Gt(kind, fields, n, header) == [kind |-> kind, fields |-> fields, rows |-> Known(n), header |-> header]

GroundTruths ==
  {NoGT, Gt("text", <<>>, 0, FALSE), Gt("html", <<>>, 0, FALSE)}
  \cup {Gt("json", f, 0, FALSE) : f \in GtFields}
  \cup {Gt("text_layer", [name |-> 1, total |-> None], n, TRUE) : n \in {0, 2}}
  \cup {Gt("text_layer", [name |-> None, total |-> None], 0, FALSE)}

Label == Gt("statement", [f \in {"name", "total"} |-> 1], 1, TRUE)

ManifestRows ==
  {r \in [task : {"text", "table", "docparse", "kie", "classify", "statement"}, tob : {None, "bmfl", "other"},
          manual : {None, Label}, gt : GroundTruths] :
     /\ r.task = "statement" => r.tob = None
     /\ r.task # "statement" => r.manual = None /\ r.gt.kind # "text_layer"
     /\ r.tob = "bmfl" => r.task = "text"}

(* What a model answers.  The keys of a kie answer are the model's own, the *)
(* fields of a statement page are given.                                    *)
AnswerFields(row) ==
  IF row.task = "kie"
    THEN UNION {[d -> {None, 1, 2}] : d \in {{}, {"name", "total"}, {"name", "total", "extra"}}}
  ELSE IF row.task = "statement" THEN GtFields ELSE {<<>>}

AnswerRows(row) == IF row.task = "statement" THEN {<<>>, Known(1), Known(3)} ELSE {<<>>}

Likenesses(row) == IF row.task = "kie" THEN {100} ELSE {0, 60, 100}

NoOutput(error) ==
  [error |-> error, output |-> FALSE, likeness |-> 0, question |-> FALSE, fields |-> <<>>,
   reread |-> <<>>, rows |-> <<>>]

Answers(row) ==
  {NoOutput("none")} \cup
  {p \in [error : {"none", "partial"}, output : {TRUE}, likeness : Likenesses(row), question : BOOLEAN,
          fields : AnswerFields(row), reread : {<<>>, [k \in {"name"} |-> 1]}, rows : AnswerRows(row)] :
     /\ p.error = "partial" => row.task # "kie"
     /\ p.question => row.task = "kie"
     /\ p.reread # <<>> => p.question /\ p.fields = <<>>}

(* How a request for it fails. *)
Failures == {"missing", "failed", "empty"}

Failed(failure) ==
  IF failure = "missing" THEN None ELSE NoOutput(IF failure = "empty" THEN "partial" ELSE "failed")

(* Row is scored for an answer and for a failure; beside it the run has    *)
(* the same row once more, which both models answer alike.                 *)
SampleCases ==
  UNION {[kind : {"sample"}, row : {r}, answer : Answers(r), failure : Failures] : r \in ManifestRows}

AtMost(a, b) == a[1] * b[2] <= b[1] * a[2]

NoBetter(metric, a, b) ==
  IF a = None \/ b = None THEN a = b
  ELSE IF metric \in {"cer", "wer"} THEN AtMost(b, a) ELSE AtMost(a, b)

(* score_sample: a page a model failed on has the metrics and the fields   *)
(* of one that it answered, no credit in any, and in none is it better.    *)
FailureNeverOutscores ==
  Is("sample") =>
    LET answered == ScoreSample(case.row, case.answer)
        failed   == ScoreSample(case.row, Failed(case.failure))
        asked    == {k \in DOMAIN answered.fields : answered.fields[k].in_gt}
    IN /\ DOMAIN failed.values = DOMAIN answered.values
       /\ \A m \in DOMAIN failed.values : NoBetter(m, failed.values[m], answered.values[m])
       /\ DOMAIN failed.fields = asked
       /\ \A k \in asked :
            /\ ~failed.fields[k].field_exact /\ ~failed.fields[k].field_fuzzy
            /\ answered.fields[k].false_reject => failed.fields[k].false_reject

(* score_run, aggregate: every model's averages are over the same pages    *)
(* and fields, a model is not better for a page it failed on, and such a   *)
(* page is no false accept.                                                *)
AveragesAreOfTheSamePages ==
  Is("sample") =>
    LET manifest == <<case.row, case.row>>
        asks(i, m) == IF i = 1 /\ m = "b" THEN Failed(case.failure) ELSE case.answer
        there  == {d \in [row : 1..2, model : {"a", "b"}] : asks(d.row, d.model) # None}
        scores == ScoreRun(manifest, [d \in there |-> asks(d.row, d.model)])
        Mean(m, metric) == Cell(scores, m, metric, 1..2)
        metrics == DOMAIN ScoreSample(case.row, case.answer).values
    IN /\ \A metric \in metrics :
            /\ Mean("a", metric).n = Mean("b", metric).n
            /\ NoBetter(metric, Mean("b", metric).sum, Mean("a", metric).sum)
       /\ FrRate(scores, "a")[2] = FrRate(scores, "b")[2]
       /\ FrRate(scores, "a")[1] <= FrRate(scores, "b")[1]
       /\ FaRate(scores, "b")[1] <= FaRate(scores, "a")[1]

=============================================================================
