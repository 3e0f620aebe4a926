----------------------------- MODULE Duplicates -----------------------------
(***************************************************************************)
(* The duplicate set (ocr_bench/metrics/duplicates.py): the originals that *)
(* are drawn, the pairs that are made of them, and the detector's score.   *)
(*                                                                         *)
(* A file is a record [bank, nr], nr its place in its bank's shuffle; only *)
(* the clean first page of a statement is a file here.  A sample is an     *)
(* original or one of its variants, [of : file, variant : "none" or one of *)
(* Variants].  A page is the set of its row keys, and a model's pages map  *)
(* the samples it has a prediction of.  Similarities are pairs             *)
(* <<shared, all>>, thresholds percentages.                                *)
(***************************************************************************)
EXTENDS Absent

CONSTANTS Banks,        \* in order
          Target        \* the number of originals asked for

Variants == <<"scan_low", "rot180_photo", "crop">>

-----------------------------------------------------------------------------
(* select_originals: the files of each turn, bank by bank, until there are *)
(* enough.  files gives the number of files of each bank.                  *)
Turn(files, nr) ==
  LET there == SelectSeq(Banks, LAMBDA bank : nr <= files[bank])
  IN [i \in 1..Len(there) |-> [bank |-> there[i], nr |-> nr]]

(* Mutant of SelectOriginals: one bank after the other. *)
BankByBank(files) ==
  LET of(bank) == [i \in 1..files[bank] |-> [bank |-> bank, nr |-> i]]
      all == FlattenSeq([b \in 1..Len(Banks) |-> of(Banks[b])])
  IN SubSeq(all, 1, Min({Target, Len(all)}))

SelectOriginals(files) ==
  LET turns == Max({files[bank] : bank \in ToSet(Banks)})
      all   == FlattenSeq([nr \in 1..turns |-> Turn(files, nr)])
  IN SubSeq(all, 1, Min({Target, Len(all)}))

(* build_dupset: each original with each of its variants, and with the     *)
(* next original of its bank, the first after the last.                    *)
Sample(file, variant) == [of |-> file, variant |-> variant]
Original(file) == Sample(file, "none")

(* Mutant of NextOf: the last one has no next but itself. *)
NextOrSelf(rows, i) == rows[Min({i + 1, Len(rows)})]

NextOf(rows, i) == rows[(i % Len(rows)) + 1]

OfBank(originals, bank) == SelectSeq(originals, LAMBDA file : file.bank = bank)

Negatives(originals) ==
  LET of(bank) ==
        LET rows == OfBank(originals, bank)
        IN IF Len(rows) < 2 THEN <<>>
           ELSE [i \in 1..Len(rows) |->
                  [original |-> Original(rows[i]), candidate |-> Original(NextOf(rows, i)),
                   kind |-> "negative"]]
  IN FlattenSeq([b \in 1..Len(Banks) |-> of(Banks[b])])

Positives(originals) ==
  FlattenSeq([i \in 1..Len(originals) |->
    [v \in 1..Len(Variants) |->
      [original |-> Original(originals[i]), candidate |-> Sample(originals[i], Variants[v]),
       kind |-> "variant"]]])

BuildDupset(files) ==
  LET originals == SelectOriginals(files)
  IN [originals |-> originals, pairs |-> Positives(originals) \o Negatives(originals),
      short |-> Len(originals) < Target \/ Len(Negatives(originals)) < Target,
      lone |-> {bank \in ToSet(Banks) : Len(OfBank(originals, bank)) = 1}]

-----------------------------------------------------------------------------
(* evaluate: a pair is a duplicate if its images have the same bytes or    *)
(* its row sets are alike enough; an empty page is like no other.          *)
RowSet(pages, sample) == IF sample \in DOMAIN pages THEN pages[sample] ELSE {}

(* Mutant of Jaccard: two empty pages are alike. *)
EmptyIsAlike(a, b) ==
  IF a \cup b = {} THEN <<1, 1>> ELSE <<Cardinality(a \cap b), Cardinality(a \cup b)>>

Jaccard(a, b) ==
  IF a = {} \/ b = {} THEN <<0, 1>> ELSE <<Cardinality(a \cap b), Cardinality(a \cup b)>>

Detected(sha256, pages, pair, threshold) ==
  LET like == Jaccard(RowSet(pages, pair.original), RowSet(pages, pair.candidate))
  IN \/ sha256[pair.original] = sha256[pair.candidate]
     \/ 100 * like[1] >= threshold * like[2]

(* A rate <<detected, of>>; None if there is nothing to rate. *)
RateOf(sha256, pages, pairs, threshold, kind) ==
  LET of == {i \in 1..Len(pairs) : pairs[i].kind = kind}
  IN IF of = {} THEN None
     ELSE <<Cardinality({i \in of : Detected(sha256, pages, pairs[i], threshold)}), Cardinality(of)>>

Evaluate(sha256, pages, pairs, threshold) ==
  [recall |-> RateOf(sha256, pages, pairs, threshold, "variant"),
   fpr    |-> RateOf(sha256, pages, pairs, threshold, "negative")]

=============================================================================
