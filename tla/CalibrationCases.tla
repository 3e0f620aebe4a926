-------------------------- MODULE CalibrationCases --------------------------
(***************************************************************************)
(* Labelled fields to calibrate on, and completions to find values in.     *)
(***************************************************************************)
EXTENDS Calibration

CONSTANTS Confidences,   \* percentages
          Targets,       \* target accuracies, in percent
          MaxFields,     \* records of a case
          MaxTokens      \* tokens of a completion

Record(label, conf) == [label |-> label, conf |-> conf]

SeqsUpTo(set, n) == UNION {[1..k -> set] : k \in 1..n}

(* Fields to find thresholds for. *)
ThresholdCases ==
  [kind : {"threshold"}, fields : SeqsUpTo([label : 0..1, conf : Confidences], MaxFields),
   target : Targets]

Fields(c) == [j \in 1..Len(c.fields) |-> Record(c.fields[j].label, c.fields[j].conf)]

(* search_threshold, band_rows and compute_ece: a field of more confidence *)
(* is never in a worse bucket, no bucket is empty that need not be, each   *)
(* keeps its promise, and a higher target accepts no more; every field is  *)
(* in the one band and the one bin whose range it is in.                   *)
ThresholdsKeepPromise ==
  Is("threshold") =>
    LET r == Fields(case)
        t == SearchThreshold(r, case.target)
        In(j, buckets) == \E b \in buckets : j \in t[b]
        Right(idx) == Accuracy(r, idx)[1]
    IN /\ \A i, j \in 1..Len(r) : r[i].conf <= r[j].conf =>
            /\ In(i, {"accept"}) => In(j, {"accept"})
            /\ In(j, {"reject"}) => In(i, {"reject"})
       /\ t.accept \cap t.reject = {}
       /\ t.accept # {} => 100 * Right(t.accept) >= case.target * Cardinality(t.accept)
       /\ t.reject # {} => 2 * Right(t.reject) <= Cardinality(t.reject)
       /\ \A target \in Targets : target > case.target =>
            SearchThreshold(r, target).accept \subseteq t.accept
       /\ MapThenSumSet(LAMBDA band : BandRows(r)[band].n, 1..5) = Len(r)
       /\ MapThenSumSet(LAMBDA i : ReliabilityBins(r)[i].n, 0..(Bins - 1)) = Len(r)
       /\ \A j \in 1..Len(r) : BandRanges[BandFor(r[j].conf)][1] <= r[j].conf
                               /\ r[j].conf <= BandRanges[BandFor(r[j].conf)][2]
       /\ (\A j \in 1..Len(r) : r[j].conf = 100 * r[j].label) => ComputeEce(r) = 0

-----------------------------------------------------------------------------
(* A completion, and the value of a field to be found in it.               *)
Tokens == {<<>>, <<"1">>, <<"2">>, <<",">>, <<"a", "1">>, <<"1", "2">>, <<"1", "2", "1">>}
Values == {<<"1">>, <<"1", "2">>, <<"1", ",", "2">>, <<"a", "2">>}

SpanCases == [kind : {"span"}, tokens : SeqsUpTo(Tokens, MaxTokens), value : Values]

TimesSaid(said, text) ==
  Cardinality({k \in 1..(Len(said) - Len(text) + 1) : SubSeq(said, k, k + Len(text) - 1) = text})

(* How often tokens a to b say the value; its digits, if the completion    *)
(* never says it as it stands.                                             *)
Sayings(t, value, a, b) ==
  LET Said(i, j) == FlattenSeq(SubSeq(t, i, j))
      digits(s) == SelectSeq(s, LAMBDA ch : ch \in Digits)
  IN IF TimesSaid(Said(1, Len(t)), value) > 0 THEN TimesSaid(Said(a, b), value)
     ELSE TimesSaid(digits(Said(a, b)), digits(value))

(* Tokens a to b say the value for the last time, and none of them can be  *)
(* left out.                                                               *)
SaysLast(t, value, a, b) ==
  LET Times(i, j) == Sayings(t, value, i, j)
  IN /\ Times(a, b) > 0 /\ Times(a + 1, Len(t)) = 0
     /\ Times(1, b) = Times(1, Len(t)) /\ Times(1, b - 1) < Times(1, Len(t))

(* locate_span: a value that is said is found, in the tokens that say it   *)
(* for the last time and in no more of them than it takes; one that is     *)
(* said otherwise is found by its digits, and one that is not said at all, *)
(* not.                                                                    *)
SpanIsLastSaid ==
  Is("span") =>
    LET span == LocateSpan(case.tokens, case.value)
    IN IF Sayings(case.tokens, case.value, 1, Len(case.tokens)) = 0 THEN span = None
       ELSE SaysLast(case.tokens, case.value, span[1], span[2])

-----------------------------------------------------------------------------
(* A completion with its log probabilities, and a value that is or is not  *)
(* in it.                                                                  *)
FeatureCases ==
  UNION {[kind : {"feature"}, tokens : [1..n -> Tokens], logprobs : [1..n -> {-1, -2}],
          value : Values \cup {None}] : n \in 1..(MaxTokens - 1)}

(* field_features: the log probabilities that a field's features depend on *)
(* are those of the tokens that say its value for the last time, each of   *)
(* them and no other; of every token, and not as a found span, when none   *)
(* says it.  A token counts if the features change with its probability.   *)
LogprobsAreOfTheValue ==
  Is("feature") =>
    LET t == case.tokens
        features(lp) == FieldFeatures(t, lp, case.value)
        counts == {k \in 1..Len(t) :
                     features([case.logprobs EXCEPT ![k] = -5]) # features(case.logprobs)}
        said == case.value # None /\ Sayings(t, case.value, 1, Len(t)) > 0
    IN /\ features(case.logprobs).span_found <=> said
       /\ counts = Min(counts)..Max(counts)
       /\ IF said THEN SaysLast(t, case.value, Min(counts), Max(counts)) ELSE counts = 1..Len(t)
       /\ features(case.logprobs).of = Cardinality(counts)

-----------------------------------------------------------------------------
(* A number of some models' reading: with or without a zero before it and  *)
(* dashes in it, or not read at all.                                       *)
ModelOrder == <<"dots.ocr", "paddleocr-vl", "teleocr">>

Readings == [zeros : 0..1, number : 1..2, dashed : BOOLEAN] \cup {None}

AgreeCases ==
  UNION {[kind : {"agree"}, key : {"account", "other"}, read : [models -> Readings]] :
         models \in SUBSET ToSet(ModelOrder)}

(* _agree: of the primary pair, a third model changes nothing, unknown is  *)
(* that the twin read nothing, and models that agree read one number.  If  *)
(* normalising again changes neither value, they agree exactly when they   *)
(* read the same, and each of the other if the other of it.                *)
AgreementIsOfThePair ==
  Is("agree") =>
    LET models == DOMAIN case.read
        Value(m) == NormalizeNumber(case.key, case.read[m])
        Stable(m) == NormalizeNumber(case.key, Value(m)) = Value(m)
        Seen(m, among) ==
          Indicators(Agree(case.key, m, case.read[m], [o \in among \ {m} |-> Value(o)], ModelOrder))
        agreed(m) == Seen(m, models)[1] = 1
    IN \A m, twin \in ToSet(PrimaryPair) \cap models : m # twin =>
         /\ Seen(m, models) = Seen(m, {m, twin})
         /\ Seen(m, models)[2] = 1 <=> case.read[twin] = None
         /\ agreed(m) => /\ case.read[m] # None /\ case.read[twin] # None
                         /\ case.read[m].number = case.read[twin].number
         /\ Stable(m) /\ Stable(twin) =>
              /\ agreed(m) <=> Value(m) = Value(twin) /\ Value(m) # None
              /\ agreed(m) <=> agreed(twin)

=============================================================================
