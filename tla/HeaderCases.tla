---------------------------- MODULE HeaderCases -----------------------------
(***************************************************************************)
(* Header boxes of statements, as banks print them and models answer them. *)
(***************************************************************************)
EXTENDS StatementHeader

CONSTANT MaxLabels   \* labels of a header box

(* The fields that are printed: "other" stands for a currency, a page. *)
PrintedFields == {"account_no", "account_name", "period", "closing_balance", "total_debit", "other"}

LabelSize(field) ==
  CASE field = "account_name" -> 12 [] field = "account_no" -> 14 [] field = "period" -> 16
    [] field = "closing_balance" -> 14 [] field = "total_debit" -> 17 [] field = "other" -> 8

ValueWord(shape, field) == [shape |-> shape, of |-> field]
ValueOf(field) ==
  CASE field = "account_name" -> <<ValueWord("name", field)>>
    [] field = "account_no" -> <<ValueWord("account", field)>>
    [] field = "period" -> <<ValueWord("period", field)>>
    [] field = "closing_balance" -> <<ValueWord("money", field)>>
    [] field = "total_debit" -> <<ValueWord("count", field), ValueWord("money", field)>>
    [] field = "other" -> <<ValueWord("text", field)>>

(* Labels in their order, with the values that are not missing; a label    *)
(* may be printed in two languages, and a value go on on the next line.    *)
HeaderCases ==
  UNION {[kind : {"header"}, fields : {f \in [1..n -> PrintedFields] : IsInjective(f)}, there : SUBSET (1..n),
          layout : {"inline", "broken", "columns", "below", "one_line"}, twice : BOOLEAN]
           : n \in 1..MaxLabels}

LabelsAt(c, k) ==
  LET label == [label |-> c.fields[k], size |-> LabelSize(c.fields[k])]
  IN IF c.twice THEN <<label, [label EXCEPT !.size = 4]>> ELSE <<label>>

ValueAt(c, k) == IF k \in c.there THEN ValueOf(c.fields[k]) ELSE <<>>

(* The lines of field k, where each field has its own: label and value on  *)
(* one, the last word of the value on a line of its own, or the value.     *)
LinesAt(c, k) ==
  CASE c.layout = "inline" -> <<LabelsAt(c, k) \o ValueAt(c, k)>>
    [] c.layout = "broken" ->
         IF Len(ValueAt(c, k)) < 2 THEN <<LabelsAt(c, k) \o ValueAt(c, k)>>
         ELSE <<LabelsAt(c, k) \o Front(ValueAt(c, k)), <<Last(ValueAt(c, k))>>>>
    [] c.layout = "below" -> <<LabelsAt(c, k), ValueAt(c, k)>>

HeaderLines(c) ==
  LET all == [k \in 1..Len(c.fields) |-> k]
      printed ==
        CASE c.layout = "columns" ->
               [k \in 1..Len(all) |-> LabelsAt(c, k)] \o [k \in 1..Len(all) |-> ValueAt(c, k)]
          [] c.layout = "one_line" -> <<FlattenSeq([k \in 1..Len(all) |-> LabelsAt(c, k)])>>
                                      \o [k \in 1..Len(all) |-> ValueAt(c, k)]
          [] OTHER -> FlattenSeq([k \in 1..Len(all) |-> LinesAt(c, k)])
  IN SelectSeq(printed, LAMBDA line : line # <<>>)

AmountFields == {"closing_balance", "total_debit"}

(* What cannot be told apart: one of two amounts in a column with a value  *)
(* missing, and, on a line of labels of which one is of a scored field,    *)
(* whose the value below is.                                               *)
Ambiguous(c) ==
  LET fields == ToSet(c.fields)
  IN \/ /\ AmountFields \subseteq fields
        /\ c.layout \in {"columns", "below"} /\ c.there # 1..Len(c.fields)
     \/ c.layout = "one_line" /\ "other" \in fields

AreTheirs(read, fields) ==
  /\ DOMAIN read \subseteq fields
  /\ \A f \in DOMAIN read :
       read[f] = IF f \in AmountFields \cup {"period"} THEN Last(ValueOf(f)) ELSE ValueOf(f)
  /\ (case.there = 1..Len(case.fields) /\ case.layout # "one_line") =>
       DOMAIN read = fields \ {"other"}

(* extract_header_fields, apply_header_fields: whatever values are         *)
(* missing, no field is given a value that was printed for another one;    *)
(* and where each label has its value, in a line or in a column, each      *)
(* field is read.                                                          *)
HeaderFieldsAreTheirs ==
  Is("header") /\ ~Ambiguous(case) =>
    AreTheirs(ApplyHeaderFields(ExtractHeaderFields(HeaderLines(case))), ToSet(case.fields))

=============================================================================
