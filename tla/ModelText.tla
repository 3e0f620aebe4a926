----------------------------- MODULE ModelText ------------------------------
(***************************************************************************)
(* What is read out of a model's reply (ocr_bench/models/parsers.py, and   *)
(* load_layout and dots_markdown of the standalone client).  A reply is    *)
(* taken at the grain its parser tells apart: the cells of a table, the    *)
(* characters of a repeated tail, the tokens of a layout, the pairs of an  *)
(* answer.                                                                 *)
(***************************************************************************)
EXTENDS Absent

CONSTANTS MinTextLen,       \* a shorter text is not cleaned
          MaxPeriod,        \* the longest unit that is looked for
          MinRepeatChars,   \* a tail is cut if it is this long
          MinRepeatTimes    \* and repeats its unit this often

-----------------------------------------------------------------------------
(* otsl_to_html: the tag at a place of the grid; a cell spans to the right *)
(* over lcel and xcel, and down over ucel and xcel.                        *)
TagAt(grid, r, c) == IF r \in 1..Len(grid) /\ c \in 1..Len(grid[r]) THEN grid[r][c] ELSE None

(* Number of such tags from a place on, in one direction. *)
Run(grid, r, c, down, tags) ==
  LET at(k) == IF down THEN TagAt(grid, r + k, c) ELSE TagAt(grid, r, c + k)
  IN CHOOSE n \in 0..(Len(grid) + Len(grid[r])) :
       at(n) \notin tags /\ \A k \in 0..(n - 1) : at(k) \in tags

(* Mutant of RowSpan: it goes on over cells merged to the left. *)
RowSpanOverLeft(grid, r, c) ==
  1 + (IF r = Len(grid) THEN 0 ELSE Run(grid, r + 1, c, TRUE, {"ucel", "lcel"}))

ColSpan(grid, r, c) == 1 + Run(grid, r, c + 1, FALSE, {"lcel", "xcel"})
RowSpan(grid, r, c) ==
  1 + (IF r = Len(grid) THEN 0 ELSE Run(grid, r + 1, c, TRUE, {"ucel", "xcel"}))

OtslToHtml(grid) ==
  [r \in 1..Len(grid) |->
    LET opens == SelectSeq([c \in 1..Len(grid[r]) |-> c], LAMBDA c : grid[r][c] \in {"fcel", "ecel"})
    IN [k \in 1..Len(opens) |->
         [text |-> IF grid[r][opens[k]] = "fcel" THEN <<r, opens[k]>> ELSE None,
          colspan |-> ColSpan(grid, r, opens[k]), rowspan |-> RowSpan(grid, r, opens[k])]]]

-----------------------------------------------------------------------------
(* clean_truncated_repeats: how far a text repeats, at its end, what stands *)
(* unit characters before.                                                  *)
Matching(text, unit) ==
  LET n == Len(text)
      same == {m \in 1..(n - unit) : \A i \in 0..(m - 1) : text[n - i] = text[n - i - unit]}
  IN IF same = {} THEN 0 ELSE Max(same)

Degenerate(text, unit) ==
  LET total == Matching(text, unit) + unit
  IN Matching(text, unit) > 0 /\ total \div unit >= MinRepeatTimes /\ total >= MinRepeatChars

(* Mutant of Cut: nothing of the last, unfinished repetition is kept. *)
CutToUnit(text, unit) == SubSeq(text, 1, Len(text) - Matching(text, unit))

Cut(text, unit) ==
  LET total == Matching(text, unit) + unit
      n == Len(text)
  IN SubSeq(text, 1, n - total + unit) \o SubSeq(text, n - (total % unit) + 1, n)

CleanTruncatedRepeats(text) ==
  LET units == {unit \in 1..Min({MaxPeriod, Len(text) - 1}) : Degenerate(text, unit)}
  IN IF Len(text) < MinTextLen \/ units = {} THEN text ELSE Cut(text, Min(units))

-----------------------------------------------------------------------------
(* A layout reply as JSON tokens: brackets, numbers "n", keys "key" and    *)
(* the texts of blocks, whose numbers they are.                            *)
Depth(tokens, k) ==
  Cardinality({i \in 1..k : tokens[i] \in {"{", "["}}) - Cardinality({i \in 1..k : tokens[i] \in {"}", "]"}})

(* raw_decode: the last token of the value that begins at k, if it ends. *)
EndOf(tokens, k) ==
  LET ends == {e \in k..Len(tokens) : Depth(tokens, e) = Depth(tokens, k - 1)}
  IN IF ends = {} THEN None ELSE Min(ends)

(* The values of the list that opens at k: each where the one before ended. *)
ValuesOf(tokens, k) ==
  LET begins == {b \in (k + 1)..Len(tokens) :
                   /\ Depth(tokens, b - 1) = Depth(tokens, k) /\ tokens[b] \notin {",", "]"}
                   /\ \A i \in k..(b - 1) : Depth(tokens, i) >= Depth(tokens, k)
                   /\ EndOf(tokens, b) # None}
      order  == SetToSortSeq(begins, <)
  IN [i \in 1..Len(order) |-> SubSeq(tokens, order[i], EndOf(tokens, order[i]))]

FirstAt(tokens, token) ==
  LET at == {k \in 1..Len(tokens) : tokens[k] = token} IN IF at = {} THEN None ELSE Min(at)

(* Mutant of SalvageJsonList: one block too few. *)
SalvageAllButLast(tokens) ==
  IF FirstAt(tokens, "[") = None THEN <<>>
  ELSE LET all == ValuesOf(tokens, FirstAt(tokens, "[")) IN SubSeq(all, 1, Len(all) - 1)

SalvageJsonList(tokens) ==
  IF FirstAt(tokens, "[") = None THEN <<>> ELSE ValuesOf(tokens, FirstAt(tokens, "["))

(* _load_dots_items: a list, the first list of an object, or an object     *)
(* with a bbox by itself; of an invalid reply what can be salvaged.        *)
LoadDotsItems(tokens) ==
  LET whole == tokens # <<>> /\ EndOf(tokens, 1) = Len(tokens)
      lists == tokens[1] = "[" \/ tokens[2] = "key"
  IN IF whole THEN [items |-> IF lists THEN ValuesOf(tokens, FirstAt(tokens, "[")) ELSE <<tokens>>,
                    error |-> None]
     ELSE [items |-> SalvageJsonList(tokens),
           error |-> IF SalvageJsonList(tokens) # <<>> THEN "truncated" ELSE "invalid"]

BlockOf(item) == CHOOSE b \in ToSet(item) \ {"{", "}", "[", "]", "n", "key"} : TRUE
IsBlock(item) == Len(item) > 1

BlockType(category) ==
  CASE category = "Picture" -> "figure" [] category = "Table" -> "table"
    [] category = "Page-header" -> "header" [] category = "Page-footer" -> "footer"
    [] OTHER -> "text"

(* A page of blocks: the texts of all that are no figures, in their order. *)
Assemble(blocks, type) ==
  [blocks |-> blocks, texts |-> SelectSeq(blocks, LAMBDA b : type[b] # "figure"),
   tables |-> SelectSeq(blocks, LAMBDA b : type[b] = "table")]

(* _dots_layout_json: category gives the category of a block. *)
DotsLayout(tokens, category) ==
  LET r == LoadDotsItems(tokens)
      dicts == SelectSeq(r.items, IsBlock)
      page  == Assemble([i \in 1..Len(dicts) |-> BlockOf(dicts[i])],
                        [b \in DOMAIN category |-> BlockType(category[b])])
  IN [page |-> page, whole_text |-> r.items = <<>>,
      error |-> IF r.items = <<>> /\ r.error = None THEN "no layout blocks" ELSE r.error]

(* dots_markdown: of the same blocks, a picture is a placeholder and page  *)
(* furniture is left out on demand.                                        *)
Picture == "picture"

DotsMarkdown(tokens, category, keep_furniture) ==
  LET blocks == DotsLayout(tokens, category).page.blocks
      kept   == SelectSeq(blocks, LAMBDA b : keep_furniture \/ category[b] # "Page-header")
  IN [i \in 1..Len(kept) |-> IF category[kept[i]] = "Picture" THEN Picture ELSE kept[i]]

-----------------------------------------------------------------------------
(* parse_teleocr_layout: the lines of a layout that are blocks, numbered   *)
(* among themselves; a line is [valid, label].                             *)
LayoutItems(lines) ==
  LET valid == SelectSeq([k \in 1..Len(lines) |-> k], LAMBDA k : lines[k].valid)
  IN [i \in 1..Len(valid) |-> [index |-> i, line |-> valid[i], label |-> lines[valid[i]].label]]

SkipTypes == {"list", "equation_block"}
Wanted(items) == SelectSeq(items, LAMBDA item : item.label \notin SkipTypes)

(* Mutant of TextAt: texts are numbered as they were asked for. *)
TextByTarget(items, failed) ==
  [k \in {k \in 1..Len(Wanted(items)) : Wanted(items)[k].line \notin failed} |-> Wanted(items)[k].line]

(* _two_stage: the text of each block whose request did not fail, at the   *)
(* block's index; the text says which line's block it was asked for.       *)
TextAt(items, failed) ==
  LET asked == {t \in ToSet(Wanted(items)) : t.line \notin failed}
  IN [i \in {t.index : t \in asked} |-> (CHOOSE t \in asked : t.index = i).line]

(* teleocr_page: one block for each item that is no container. *)
TeleocrPage(items, texts) ==
  LET shown == Wanted(items)
  IN [k \in 1..Len(shown) |->
       [line |-> shown[k].line,
        text |-> IF shown[k].index \in DOMAIN texts THEN texts[shown[k].index] ELSE None]]

-----------------------------------------------------------------------------
(* _json_fields: a reply is its pairs [key, form, value] and how it ends;  *)
(* "in pair" it ends in the value of the last one.  A bare number is one   *)
(* with separators, and what there is of a cut number is a number.         *)
IsValid(reply, forms) ==
  reply.ends = "whole" /\ \A k \in 1..Len(reply.pairs) : reply.pairs[k].form \in forms

KeysOf(pairs) == {pairs[k].key : k \in 1..Len(pairs)}

(* A value of a key that has several: the last in JSON, the first salvaged. *)
LastOf(pairs, key)  == pairs[Max({k \in 1..Len(pairs) : pairs[k].key = key})].value
FirstFor(pairs, key) == pairs[Min({k \in 1..Len(pairs) : pairs[k].key = key})].value

(* Mutant of SalvageJsonPairs: the value a reply ends in is taken too. *)
SalvageCutPairs(reply) == reply.pairs

SalvageJsonPairs(reply) ==
  LET cut(k) == k = Len(reply.pairs) /\ reply.ends = "in pair"
      there  == SelectSeq([k \in 1..Len(reply.pairs) |-> k],
                          LAMBDA k : ~cut(k) \/ reply.pairs[k].form \in {"number", "bare"})
  IN [i \in 1..Len(there) |->
       [reply.pairs[there[i]] EXCEPT !.value = IF cut(there[i]) THEN "part" ELSE @]]

JsonFields(reply) ==
  LET plain == {"string", "number"}
      salvaged == SalvageJsonPairs(reply)
  IN IF IsValid(reply, plain)
       THEN [fields |-> [key \in KeysOf(reply.pairs) |-> LastOf(reply.pairs, key)], error |-> None]
     ELSE IF IsValid(reply, plain \cup {"bare"})
       THEN [fields |-> [key \in KeysOf(reply.pairs) |-> LastOf(reply.pairs, key)], error |-> "quoted"]
     ELSE [fields |-> [key \in KeysOf(salvaged) |-> FirstFor(salvaged, key)],
           error |-> IF salvaged # <<>> THEN "salvaged" ELSE "invalid"]

=============================================================================
