---------------------------- MODULE Calibration ----------------------------
(***************************************************************************)
(* What the confidence of a field is fitted on (confidence/proxy.py), and  *)
(* what is made of it (confidence/calibrate.py): the bands, the            *)
(* calibration error and the thresholds of a target accuracy.              *)
(*                                                                         *)
(* A record is [label, conf]; label is 1 if the field is right.            *)
(* Confidences and accuracies are percentages, an accuracy a pair          *)
(* <<right, of>>.  A completion is a sequence of tokens, a token a         *)
(* sequence of characters.                                                 *)
(***************************************************************************)
EXTENDS Absent

-----------------------------------------------------------------------------
(* locate_span: the tokens [first, last] in which value stands, at its last *)
(* occurrence; failing that, where its digits do.                           *)
Digits == {"1", "2"}

(* Mutant of LastPlace: the first occurrence. *)
FirstPlace(said, text) ==
  LET places == {k \in 1..(Len(said) - Len(text) + 1) : SubSeq(said, k, k + Len(text) - 1) = text}
  IN IF places = {} THEN None ELSE Min(places)

(* The last place where text is said; None if it is not said. *)
LastPlace(said, text) ==
  LET places == {k \in 1..(Len(said) - Len(text) + 1) : SubSeq(said, k, k + Len(text) - 1) = text}
  IN IF places = {} THEN None ELSE Max(places)

(* Token that holds a character: the last one that starts no later. *)
TokenOf(tokens, char) ==
  LET StartOf(t) == Len(FlattenSeq(SubSeq(tokens, 1, t - 1))) + 1
  IN Max({t \in 1..Len(tokens) : StartOf(t) <= char})

LocateSpan(tokens, value) ==
  LET said   == FlattenSeq(tokens)
      at     == LastPlace(said, value)
      digits == SelectSeq(value, LAMBDA ch : ch \in Digits)
      where  == SelectSeq([k \in 1..Len(said) |-> k], LAMBDA k : said[k] \in Digits)
      here   == LastPlace([k \in 1..Len(where) |-> said[where[k]]], digits)
      Span(first, last) == <<TokenOf(tokens, first), TokenOf(tokens, last)>>
  IN IF tokens = <<>> \/ value = <<>> THEN None
     ELSE IF at # None THEN Span(at, at + Len(value) - 1)
     ELSE IF digits = <<>> \/ here = None THEN None
     ELSE Span(where[here], where[here + Len(digits) - 1])

(* normalize_field of a number of ten digits or more: an account number    *)
(* keeps its zeros; under a key that tells no type it is one if it has     *)
(* dashes, and an amount that loses its first zeros if not.                *)
NormalizeNumber(key, v) ==
  IF v = None THEN None
  ELSE IF key = "account" \/ v.dashed THEN [v EXCEPT !.dashed = FALSE]
  ELSE [v EXCEPT !.zeros = 0]

(* _agree: the model a value is compared with is the other of the primary  *)
(* pair, or the first in order.  others gives the values of the other      *)
(* models, normalised already; they are normalised once more.              *)
PrimaryPair == <<"dots.ocr", "teleocr">>

Partner(model, others, order) ==
  LET twin == IF model = PrimaryPair[1] THEN PrimaryPair[2] ELSE PrimaryPair[1]
      there == SelectSeq(order, LAMBDA m : m \in DOMAIN others)
  IN IF model \in ToSet(PrimaryPair) /\ twin \in DOMAIN others THEN twin ELSE Head(there)

Agree(key, model, value, others, order) ==
  IF DOMAIN others = {} \/ others[Partner(model, others, order)] = None THEN None
  ELSE IF NormalizeNumber(key, value) = NormalizeNumber(key, others[Partner(model, others, order)])
    THEN 1 ELSE 0

(* Mutant of LogprobsOf: the end of the span is taken for its last token.  *)
LogprobsShort(logprobs, span) ==
  IF span = None THEN <<>> ELSE SubSeq(logprobs, span[1], Min({span[2] - 1, Len(logprobs)}))

(* The log probabilities of a span. *)
LogprobsOf(logprobs, span) ==
  IF span = None THEN <<>> ELSE SubSeq(logprobs, span[1], Min({span[2], Len(logprobs)}))

(* field_features: the log probabilities of the span, or of the completion *)
(* if there is no span, or its tokens have none.                           *)
FieldFeatures(tokens, logprobs, value) ==
  LET span == IF value = None THEN None ELSE LocateSpan(tokens, value)
      part == LogprobsOf(logprobs, span)
      of   == IF part = <<>> THEN logprobs ELSE part
  IN IF logprobs = <<>> THEN [sum |-> 0, of |-> 0, min |-> 0, span_found |-> span # None, missing |-> TRUE]
     ELSE [sum |-> FoldLeft(LAMBDA x, y : x + y, 0, of), of |-> Len(of), min |-> Min(ToSet(of)),
           span_found |-> part # <<>>, missing |-> FALSE]

(* FieldFeatures.vector: what is unknown is a feature of its own. *)
Indicators(flag) == <<IF flag = 1 THEN 1 ELSE 0, IF flag = None THEN 1 ELSE 0>>

-----------------------------------------------------------------------------
(* The bands of a confidence, and the bins of the calibration error.       *)
BandRanges == <<<<0, 50>>, <<50, 75>>, <<75, 90>>, <<90, 98>>, <<98, 100>>>>

BandFor(conf) ==
  IF conf >= 98 THEN 5 ELSE IF conf >= 90 THEN 4 ELSE IF conf >= 75 THEN 3
  ELSE IF conf >= 50 THEN 2 ELSE 1

Accuracy(records, idx) ==
  IF idx = {} THEN None ELSE <<MapThenSumSet(LAMBDA j : records[j].label, idx), Cardinality(idx)>>

BandRows(records) ==
  [band \in 1..5 |->
    LET idx == {j \in 1..Len(records) : BandFor(records[j].conf) = band}
    IN [lo |-> BandRanges[band][1], hi |-> BandRanges[band][2], n |-> Cardinality(idx),
        accuracy |-> Accuracy(records, idx)]]

Bins == 10

(* Mutant of InBin: a confidence of one is in no bin. *)
InOpenBin(conf, i) == conf >= 10 * i /\ conf < 10 * (i + 1)

InBin(conf, i) == conf >= 10 * i /\ (conf < 10 * (i + 1) \/ i = Bins - 1)

ReliabilityBins(records) ==
  [i \in 0..(Bins - 1) |->
    LET idx == {j \in 1..Len(records) : InBin(records[j].conf, i)}
    IN [n |-> Cardinality(idx), acc |-> Accuracy(records, idx),
        conf |-> MapThenSumSet(LAMBDA j : records[j].conf, idx)]]

(* compute_ece, as the sum over the bins of |right - expected|, in percent  *)
(* of a record.                                                             *)
ComputeEce(records) ==
  MapThenSumSet(LAMBDA i :
    LET b == ReliabilityBins(records)[i]
    IN IF b.n = 0 THEN 0 ELSE Abs(100 * b.acc[1] - b.conf), 0..(Bins - 1))

-----------------------------------------------------------------------------
(* search_threshold: accept from the least candidate that reaches the      *)
(* target on, reject below the greatest one, not above it, under which at  *)
(* most half is right.                                                     *)
Candidates(records) == {records[j].conf : j \in 1..Len(records)}
AtLeast(records, c) == {j \in 1..Len(records) : records[j].conf >= c}
Below(records, c)   == {j \in 1..Len(records) : records[j].conf < c}

Reaches(records, c, target) ==
  100 * Accuracy(records, AtLeast(records, c))[1] >= target * Accuracy(records, AtLeast(records, c))[2]

HalfWrong(records, c) ==
  /\ Below(records, c) # {}
  /\ 2 * Accuracy(records, Below(records, c))[1] <= Accuracy(records, Below(records, c))[2]

SearchThreshold(records, target) ==
  LET accepting == {c \in Candidates(records) : Reaches(records, c, target)}
      t_accept  == IF accepting = {} THEN None ELSE Min(accepting)
      upper     == IF t_accept = None THEN 100 ELSE t_accept
      rejecting == {c \in Candidates(records) : c <= upper /\ HalfWrong(records, c)}
      t_reject  == IF rejecting = {} THEN None ELSE Max(rejecting)
      accept    == IF t_accept = None THEN {} ELSE AtLeast(records, t_accept)
      reject    == IF t_reject = None THEN {} ELSE Below(records, t_reject)
  IN [t_accept |-> t_accept, t_reject |-> t_reject, accept |-> accept, reject |-> reject,
      review   |-> (1..Len(records)) \ (accept \cup reject)]

=============================================================================
