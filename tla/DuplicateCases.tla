--------------------------- MODULE DuplicateCases ---------------------------
(***************************************************************************)
(* Corpora to draw a duplicate set from, and answers to score it with.     *)
(***************************************************************************)
EXTENDS Duplicates

CONSTANTS MaxFiles,     \* files of a bank
          Keys,         \* row keys
          Thresholds    \* of the sweep, in percent

DupsetCases == [kind : {"dupset"}, files : [ToSet(Banks) -> 0..MaxFiles]]

Counted(seq, Test(_)) == Len(SelectSeq(seq, Test))

(* select_originals, build_dupset: the banks are drawn from as evenly as   *)
(* their files allow and no file twice; an original has a pair of each     *)
(* variant, and unless it is its bank's only one it is compared with one   *)
(* other file of its bank, and one with it.                                *)
DupsetIsBalanced ==
  Is("dupset") =>
    LET set == BuildDupset(case.files)
        drawn == ToSet(set.originals)
        Of(bank) == Cardinality({f \in drawn : f.bank = bank})
    IN /\ Cardinality(drawn) = Len(set.originals)
       /\ Len(set.originals) = Min({Target, MapThenSumSet(LAMBDA b : case.files[b], ToSet(Banks))})
       /\ \A a, b \in ToSet(Banks) : Of(a) < case.files[a] => Of(b) <= Of(a) + 1
       /\ \A f \in drawn : \A variant \in ToSet(Variants) :
            Counted(set.pairs, LAMBDA p : p.original = Original(f) /\ p.candidate = Sample(f, variant)) = 1
       /\ \A f \in drawn : LET n == IF f.bank \in set.lone THEN 0 ELSE 1 IN
            /\ Counted(set.pairs, LAMBDA p : p.kind = "negative" /\ p.original = Original(f)) = n
            /\ Counted(set.pairs, LAMBDA p : p.kind = "negative" /\ p.candidate = Original(f)) = n
       /\ \A p \in ToSet(set.pairs) :
            IF p.kind = "variant" THEN p.original.of = p.candidate.of
            ELSE p.original.of # p.candidate.of /\ p.original.of.bank = p.candidate.of.bank

-----------------------------------------------------------------------------
(* Two files of one bank: their rows, what the model reads on each of      *)
(* their pages (None if it has no prediction there), and whether a variant *)
(* has the bytes of its original.                                          *)
Pair == [b \in {Banks[1]} |-> 2] @@ [b \in ToSet(Banks) |-> 0]
PairSamples == {p.original : p \in ToSet(BuildDupset(Pair).pairs)}
               \cup {p.candidate : p \in ToSet(BuildDupset(Pair).pairs)}

AnswerCases ==
  [kind : {"answers"}, rows : [1..2 -> SUBSET Keys],
   original : [1..2 -> {"right", "empty", "lost"}], variant : [1..2 -> {"right", "empty", "lost"}],
   same : BOOLEAN]

Read(c, sample) == IF sample.variant = "none" THEN c.original[sample.of.nr] ELSE c.variant[sample.of.nr]

Pages(c) ==
  [s \in {s \in PairSamples : Read(c, s) # "lost"} |->
    IF Read(c, s) = "empty" THEN {} ELSE c.rows[s.of.nr]]

Sha256(c) == [s \in PairSamples |-> IF c.same THEN s.of ELSE s]

(* evaluate: a detector with the right rows finds every variant of a page  *)
(* with rows and no pair that shares none; a page that was not read is     *)
(* told by its bytes only; and a higher threshold finds no more.           *)
DuplicatesAreTold ==
  Is("answers") =>
    LET pairs == BuildDupset(Pair).pairs
        At(threshold) == Evaluate(Sha256(case), Pages(case), pairs, threshold)
        Found(p, threshold) == Detected(Sha256(case), Pages(case), p, threshold)
        Lost(s) == Read(case, s) # "right" \/ case.rows[s.of.nr] = {}
    IN \A threshold \in Thresholds :
         /\ \A p \in ToSet(pairs) :
              LET bytes == case.same /\ p.kind = "variant"
                  a == case.rows[p.original.of.nr]
                  b == case.rows[p.candidate.of.nr]
              IN /\ Lost(p.original) \/ Lost(p.candidate) => (Found(p, threshold) <=> bytes)
                 /\ ~Lost(p.original) /\ ~Lost(p.candidate) =>
                      /\ a = b => Found(p, threshold)
                      /\ a \cap b = {} => ~Found(p, threshold)
         /\ \A higher \in Thresholds : higher > threshold =>
              /\ At(higher).recall[1] <= At(threshold).recall[1]
              /\ At(higher).fpr[1] <= At(threshold).fpr[1]
         /\ At(threshold).recall[2] = 2 * Len(Variants) /\ At(threshold).fpr[2] = 2

=============================================================================
