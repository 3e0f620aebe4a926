-------------------------- MODULE StatementHeader ---------------------------
(***************************************************************************)
(* The header fields of a statement page: extract_header_fields reads them *)
(* from the lines above the table (ocr_bench/normalize/statement.py).      *)
(*                                                                         *)
(* A line is a sequence of words.  A word is a label, [label, size] with   *)
(* the field it names ("other" if it is of no scored field) and its number *)
(* of letters, or a value, [shape]: "account", "name", "period", "money",  *)
(* "count" ("510 items") or "text", whose further fields say what was      *)
(* printed.  Lines of separators only are left out.                        *)
(***************************************************************************)
EXTENDS Absent

LabelledFields == {"account_no", "account_name", "period", "opening_balance", "closing_balance",
                   "total_debit", "total_credit"}

IsLabel(word) == "label" \in DOMAIN word

(* _label_match: the places of the labels of scored fields in a line. *)
LabelPlaces(line) ==
  {k \in 1..Len(line) : IsLabel(line[k]) /\ line[k].label \in LabelledFields}

(* The longest label wins, of those the first; the value starts after the  *)
(* last label of its field.                                                *)
LabelMatch(line) ==
  LET places == LabelPlaces(line)
      best == CHOOSE k \in places :
                \A j \in places : line[j].size < line[k].size \/ (line[j].size = line[k].size /\ j >= k)
      field == line[best].label
      last  == Max({k \in places : line[k].label = field})
  IN IF places = {} THEN None ELSE [field |-> field, value |-> SubSeq(line, last + 1, Len(line))]

StartsWithLabel(line) == line # <<>> /\ IsLabel(line[1])
IsLabelOnly(line) == line # <<>> /\ \A k \in 1..Len(line) : IsLabel(line[k])

(* The digits and the letters of a value, in a typical print of its shape: *)
(* XXX-X-XX446-5, a name, 01/02/2024 - 29/02/2024, 418,694.01, 510 items.  *)
DigitsOf(word) ==
  CASE IsLabel(word) -> 0 [] word.shape = "account" -> 4 [] word.shape = "period" -> 16
    [] word.shape = "money" -> 8 [] word.shape = "count" -> 3 [] OTHER -> 0
SizeOf(word) ==
  CASE IsLabel(word) -> word.size [] word.shape = "account" -> 13 [] word.shape = "period" -> 23
    [] OTHER -> 10
Letters(word) == IsLabel(word) \/ word.shape \in {"account", "name", "count", "text"}
DigitsIn(value) == FoldSeq(LAMBDA word, sum : sum + DigitsOf(word), 0, value)
SizeIn(value)   == FoldSeq(LAMBDA word, sum : sum + SizeOf(word), 0, value)
HasShape(word, shape) == ~IsLabel(word) /\ word.shape = shape

(* _valid_value: no other label, and the shape of the field. *)
ValidValue(field, value) ==
  /\ value # <<>> /\ ~StartsWithLabel(value)
  /\ CASE field = "account_no" -> \A k \in 1..Len(value) : HasShape(value[k], "account")
       [] field = "account_name" ->
            /\ \E k \in 1..Len(value) : Letters(value[k])
            /\ 10 * DigitsIn(value) <= 3 * SizeIn(value)
       [] field = "period" -> DigitsIn(value) > 0
       [] OTHER -> \E k \in 1..Len(value) : HasShape(value[k], "money")

-----------------------------------------------------------------------------
(* _single_field: the field of a line of labels that names but one. *)
SingleField(line) ==
  LET fields == {line[k].label : k \in LabelPlaces(line)}
  IN IF Cardinality(fields) = 1 THEN CHOOSE f \in fields : TRUE ELSE None

(* _STRONG_FIELDS: a value of these can be told by its shape. *)
StrongFields == LabelledFields \ {"account_name"}

(* Each strong field, in turn, takes the first value that is left and fits *)
(* it: [k \in labels that took one |-> the value].                         *)
Taken(fields, values) ==
  LET Take(taken, k) ==
        LET fit == {v \in 1..Len(values) :
                      /\ \A j \in DOMAIN taken : taken[j] # v
                      /\ fields[k] \in StrongFields /\ ValidValue(fields[k], values[v])}
        IN IF fit = {} THEN taken ELSE (k :> Min(fit)) @@ taken
  IN FoldLeft(Take, <<>>, [k \in 1..Len(fields) |-> k])

(* Mutant of PairColumns: by position as far as the values go. *)
PairByPosition(fields, values) ==
  [k \in 1..Min({Len(fields), Len(values)}) |-> [field |-> fields[k], value |-> values[k]]]

(* _pair_columns: by position if there are as many values as labels. *)
OffersOf(fields, values, taken) ==
  LET order == SetToSortSeq(DOMAIN taken, <)
  IN [i \in 1..Len(order) |-> [field |-> fields[order[i]], value |-> values[taken[order[i]]]]]

PairColumns(fields, values) ==
  IF Len(fields) = Len(values)
    THEN [k \in 1..Len(fields) |-> [field |-> fields[k], value |-> values[k]]]
  ELSE OffersOf(fields, values, Taken(fields, values))

(* The run of lines of labels only from i on, and the values after it: no  *)
(* more than labels, and no line that has a label of its own.              *)
RunEnd(lines, i) == Min({j \in i..(Len(lines) + 1) : j > Len(lines) \/ ~IsLabelOnly(lines[j])})
ValuesEnd(lines, i) ==
  LET j == RunEnd(lines, i)
  IN Min({k \in j..(Len(lines) + 1) :
            \/ k > Len(lines) \/ k - j >= j - i
            \/ StartsWithLabel(lines[k]) \/ LabelMatch(lines[k]) # None})

(* A label and its value on one line; the value may go on on the next. *)
Whole(match, next) ==
  IF match = None THEN <<>>
  ELSE IF ValidValue(match.field, match.value) \/ next = <<>> \/ StartsWithLabel(next) THEN <<match>>
  ELSE <<[match EXCEPT !.value = @ \o next]>>

OneLine(lines, i) == Whole(LabelMatch(lines[i]), IF i < Len(lines) THEN lines[i + 1] ELSE <<>>)

Offered(lines, i) ==
  IF IsLabelOnly(lines[i])
    THEN LET fields == [k \in 1..(RunEnd(lines, i) - i) |-> SingleField(lines[i + k - 1])]
         IN PairColumns(fields, SubSeq(lines, RunEnd(lines, i), ValuesEnd(lines, i) - 1))
    ELSE OneLine(lines, i)

(* Where the loop goes on from line i, and all the lines it comes to. *)
NextLine(lines, i) == IF IsLabelOnly(lines[i]) THEN ValuesEnd(lines, i) ELSE i + 1

Visited(lines) ==
  FoldLeft(LAMBDA seen, i : IF i = Last(seen) THEN Append(seen, NextLine(lines, i)) ELSE seen,
           <<1>>, [i \in 1..Len(lines) |-> i])

(* extract_header_fields: of each field, the first value that is valid. *)
ValidOffers(lines, visited) ==
  SelectSeq(FlattenSeq([i \in 1..(Len(visited) - 1) |-> Offered(lines, visited[i])]),
            LAMBDA o : o.field # None /\ ValidValue(o.field, o.value))

FirstOffers(offers) ==
  LET First(f) == Min({k \in 1..Len(offers) : offers[k].field = f})
  IN [f \in {offers[k].field : k \in 1..Len(offers)} |-> offers[First(f)].value]

ExtractHeaderFields(lines) == FirstOffers(ValidOffers(lines, Visited(lines)))

-----------------------------------------------------------------------------
(* _last_amount: the last number among the words; a count has one too. *)
LastAmount(value) ==
  LET numbers == {k \in 1..Len(value) : HasShape(value[k], "money") \/ HasShape(value[k], "count")}
  IN IF numbers = {} THEN None ELSE value[Max(numbers)]

(* apply_header_fields: a period is what dates there are in its value, an  *)
(* amount the last number in it; a field that comes to nothing is not set. *)
ApplyHeaderFields(raw) ==
  LET Typed(f) ==
        IF f \in {"account_no", "account_name"} THEN raw[f]
        ELSE IF f = "period" THEN FirstOf(SelectSeq(raw[f], LAMBDA word : HasShape(word, "period")))
        ELSE LastAmount(raw[f])
  IN [f \in {f \in DOMAIN raw : Typed(f) # None} |-> Typed(f)]

=============================================================================
