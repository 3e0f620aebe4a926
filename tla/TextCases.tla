----------------------------- MODULE TextCases ------------------------------
(***************************************************************************)
(* Replies of models, cut off or not.                                      *)
(***************************************************************************)
EXTENDS ModelBlocks

CONSTANTS TableRows, TableColumns,   \* of a table
          MaxText,                   \* characters of a text
          MaxBlocks                  \* blocks of a layout, pairs of an answer

(* A table: the cells that are joined with the one to the left, and the    *)
(* one above; a merged cell is a rectangle.                                *)
Places2D == (1..TableRows) \X (1..TableColumns)
IsTiling(c) ==
  \A p \in Places2D :
    /\ p \in c.left => (p \in c.up <=> <<p[1], p[2] - 1>> \in c.up)
    /\ p \in c.up => (p \in c.left <=> <<p[1] - 1, p[2]>> \in c.left)
    /\ p \in c.left => (<<p[1] + 1, p[2]>> \in c.up <=> <<p[1] + 1, p[2] - 1>> \in c.up)
    /\ p \in c.up => (<<p[1], p[2] + 1>> \in c.left <=> <<p[1] - 1, p[2] + 1>> \in c.left)

TableCases ==
  [kind : {"table"}, left : SUBSET {p \in Places2D : p[2] > 1}, up : SUBSET {p \in Places2D : p[1] > 1}]

Tag(c, p) ==
  IF p \in c.left THEN (IF p \in c.up THEN "xcel" ELSE "lcel")
  ELSE IF p \in c.up THEN "ucel" ELSE IF p[1] = p[2] THEN "ecel" ELSE "fcel"

Grid(c) == [r \in 1..TableRows |-> [k \in 1..TableColumns |-> Tag(c, <<r, k>>)]]

(* Where a reader of the HTML puts its cells: each in the first place of   *)
(* its row that no cell before it covers.                                  *)
Layout(html) ==
  LET Put(r, covered, cell) ==
        LET c == Min({c \in 1..(TableColumns + 1) : <<r, c>> \notin DOMAIN covered})
            area == (r..(r + cell.rowspan - 1)) \X (c..(c + cell.colspan - 1))
        IN [p \in area |-> <<r, c>>] @@ covered
      RowOf(covered, r) == FoldLeft(LAMBDA cov, cell : Put(r, cov, cell), covered, html[r])
  IN FoldLeft(RowOf, <<>>, [r \in 1..Len(html) |-> r])

(* otsl_to_html: the HTML lays the merged cells out as the OTSL has them,  *)
(* each place covered, and by the cell it is merged into.                  *)
TableKeepsItsShape ==
  Is("table") =>
    LET covered == Layout(OtslToHtml(Grid(case)))
    IN /\ DOMAIN covered = Places2D
       /\ \A p \in Places2D :
            /\ p \in case.left => covered[p] = covered[<<p[1], p[2] - 1>>]
            /\ p \in case.up => covered[p] = covered[<<p[1] - 1, p[2]>>]
            /\ (p \notin case.left /\ p \notin case.up) => covered[p] = p

-----------------------------------------------------------------------------
TextsOfLength(n) == [1..n -> {"a", "b"}]
RepeatCases == [kind : {"repeat"}, text : UNION {TextsOfLength(n) : n \in 1..MaxText}]

(* clean_truncated_repeats: what is left is the beginning of the text, and *)
(* what is gone are whole repetitions of what is left at its end; it is    *)
(* cut if it ends in enough of them, and then so that two are not left.    *)
OnlyRepeatsAreCut ==
  Is("repeat") =>
    LET t == case.text
        r == CleanTruncatedRepeats(t)
        gone == Len(t) - Len(r)
        Repeated(unit, n) == n > unit /\ \A i \in 0..(n - unit - 1) : t[Len(t) - i] = t[Len(t) - i - unit]
        units == {u \in 1..MaxPeriod :
                    \E n \in 1..Len(t) : Repeated(u, n) /\ n >= MinRepeatChars /\ n \div u >= MinRepeatTimes}
    IN /\ r = SubSeq(t, 1, Len(r))
       /\ gone # 0 <=> (units # {} /\ Len(t) >= MinTextLen)
       /\ gone # 0 => \E u \in units :
            /\ gone % u = 0 /\ Repeated(u, gone + u)
            /\ ~(Len(r) >= 2 * u /\ SubSeq(r, Len(r) - u + 1, Len(r)) = SubSeq(r, Len(r) - 2 * u + 1, Len(r) - u))

-----------------------------------------------------------------------------
(* A layout of n blocks: a list, a list in an object, or one object; cut   *)
(* after its first tokens.                                                 *)
Categories == {"Text", "Table", "Picture", "Page-header"}
Names == <<"b1", "b2", "b3">>
BlockTokens(b) == <<"{", "[", "n", "n", "]", b, "}">>
ListTokens(n) ==
  <<"[">> \o FlattenSeq([b \in 1..n |-> (IF b = 1 THEN <<>> ELSE <<",">>) \o BlockTokens(Names[b])]) \o <<"]">>

Reply(c) ==
  CASE c.shape = "list" -> ListTokens(c.blocks)
    [] c.shape = "object" -> <<"{", "key">> \o ListTokens(c.blocks) \o <<"}">>
    [] c.shape = "single" -> BlockTokens(Names[1])

LayoutCases ==
  [kind : {"layout"}, shape : {"list", "object", "single"}, blocks : 0..MaxBlocks,
   category : [{Names[b] : b \in 1..MaxBlocks} -> Categories], kept : 0..(8 * MaxBlocks + 5)]

PlausibleLayout(c) == c.kept <= Len(Reply(c)) /\ (c.shape = "single" => c.blocks = 1)

(* _load_dots_items, _dots_layout_json, load_layout: a reply that was cut  *)
(* off gives the blocks that are whole in it, in order, and says so; and   *)
(* the harness and the client read the same text.                          *)
WholeBlocksAreKept ==
  Is("layout") =>
    LET tokens == SubSeq(Reply(case), 1, case.kept)
        r == DotsLayout(tokens, case.category)
        Complete(b) == \E k \in 1..(Len(tokens) - 6) : SubSeq(tokens, k, k + 6) = BlockTokens(b)
        texts == SelectSeq(DotsMarkdown(tokens, case.category, TRUE), LAMBDA part : part # Picture)
    IN /\ r.page.blocks = SelectSeq(SubSeq(Names, 1, case.blocks), Complete)
       /\ r.error = None <=> (tokens = Reply(case) /\ case.blocks > 0)
       /\ r.page.texts = texts

-----------------------------------------------------------------------------
LineCases ==
  UNION {[kind : {"lines"}, lines : [1..n -> [valid : BOOLEAN, label : {"text", "image", "list"}]],
          failed : SUBSET (1..n)] : n \in 1..3}

(* parse_teleocr_layout, _two_stage, teleocr_page: each block has the text *)
(* of its own request or none, whatever lines are unreadable, containers,  *)
(* or failed.                                                              *)
BlocksKeepTheirText ==
  Is("lines") =>
    LET items == LayoutItems(case.lines)
        page  == TeleocrPage(items, TextAt(items, case.failed))
    IN /\ {page[k].line : k \in 1..Len(page)}
            = {k \in 1..Len(case.lines) : case.lines[k].valid /\ case.lines[k].label # "list"}
       /\ \A k \in 1..Len(page) :
            page[k].text = IF page[k].line \in case.failed THEN None ELSE page[k].line

-----------------------------------------------------------------------------
(* Labels of each model: all of a table of either reader, and others. *)
LabelsOf(model) ==
  CASE model = "dotsocr" ->
         {"Text", "Title", "Formula", "Footnote", "Table", "Picture", "Page-header", "Page-footer"}
    [] model = "teleocr" ->
         {"text", "title", "equation", "equation_block", "list", "table", "image", "char", "seal",
          "header", "footer", "page_number", "page_footnote", "table_footnote"}
    [] model = "paddleocr_vl" ->
         {"text", "doc_title", "display_formula", "table", "image", "chart", "seal", "header_image",
          "footer_image", "header", "footer", "footnote", "number", "vision_footnote"}

BlockCases ==
  UNION {[kind : {"blocks"}, model : {model},
          blocks : UNION {[1..n -> [label : LabelsOf(model), text : {"", " ", "some"}]] : n \in 1..2}]
           : model \in BlockModels}

(* The harness scores what the client delivers: with the furniture kept,   *)
(* the client's Markdown is the harness's page text, block by block, with  *)
(* a placeholder where the harness has a figure and a table where it has a *)
(* table; without, exactly the headers and footers are missing.  A block   *)
(* of white space, or an equation answered by nothing, is text to the      *)
(* harness alone.                                                          *)
ClientReadsAsHarness ==
  Is("blocks") =>
    LET page == HarnessPage(case.model, case.blocks)
        said == SelectSeq(page.blocks, LAMBDA b :
                  \/ b.as = "figure"
                  \/ b.block \in ToSet(page.text) /\ Stripped(case.blocks[b.block].text) # "")
        As(b) == IF b.as = "figure" THEN Picture ELSE IF b.as = "table" THEN "table" ELSE "text"
        Markdown(shown) == [i \in 1..Len(shown) |-> [block |-> shown[i].block, as |-> As(shown[i])]]
    IN /\ ClientPage(case.model, case.blocks, TRUE) = Markdown(said)
       /\ ClientPage(case.model, case.blocks, FALSE)
            = Markdown(SelectSeq(said, LAMBDA b : b.as \notin {"header", "footer"}))

-----------------------------------------------------------------------------
PairsOf(n) == [1..n -> [key : {"a", "b"}, form : {"string", "number", "bare"}, value : {"x", "y"}]]
FieldCases ==
  [kind : {"fields"}, pairs : UNION {PairsOf(n) : n \in 0..MaxBlocks}, ends : {"whole", "open", "in pair"}]

(* _json_fields: each field has a value the reply gave for its key, or the *)
(* part of the number the reply ends in; no key with a whole value is      *)
(* lost; and a reply that had to be repaired says so.                      *)
FieldsAreSaid ==
  Is("fields") =>
    LET r == JsonFields(case)
        whole == {k \in 1..Len(case.pairs) : case.ends # "in pair" \/ k # Len(case.pairs)}
        Said(key) == {case.pairs[k].value : k \in {k \in whole : case.pairs[k].key = key}}
        last == case.pairs[Len(case.pairs)]
    IN /\ \A key \in DOMAIN r.fields :
            \/ r.fields[key] \in Said(key)
            \/ /\ case.ends = "in pair" /\ last.key = key /\ last.form # "string"
               /\ r.fields[key] = "part" /\ Said(key) = {}
       /\ \A k \in whole : case.pairs[k].key \in DOMAIN r.fields
       /\ r.error = None <=> (case.ends = "whole" /\ \A k \in whole : case.pairs[k].form # "bare")

=============================================================================
