--------------------------- MODULE StatementPages ---------------------------
(***************************************************************************)
(* The two readers of a statement page: map_statement_page reads the       *)
(* tables of a model's answer (ocr_bench/normalize/statement.py), and      *)
(* parse_text_layer the positioned words of the PDF, which is the ground   *)
(* truth (ocr_bench/metrics/statement_gt.py).  Both find the header of the *)
(* transactions by its keywords and share build_row.                       *)
(*                                                                         *)
(* A text is reduced to what the readers tell apart: "blank"; "head", with *)
(* the roles it names; "date" and "num", with their value, a number with   *)
(* the side its sign gives; "opening", a label such as B/F; "slash";       *)
(* "text".  Lines come grouped, from top to bottom and evenly spaced, with *)
(* their words from left to right; no text has a date and a time.          *)
(***************************************************************************)
EXTENDS StatementLedger

CONSTANT LineHeight   \* height of a line of the text layer

Blank == [is |-> "blank"]
Word  == [is |-> "text"]

(* Texts side by side in one cell. *)
Join(texts) ==
  LET said == SelectSeq(texts, LAMBDA t : t.is # "blank")
      Has(kind) == \E k \in 1..Len(said) : said[k].is = kind
  IN IF said = <<>> THEN Blank
     ELSE IF Len(said) = 1 THEN said[1]
     ELSE IF Has("head")
       THEN [is |-> "head",
             roles |-> FlattenSeq([k \in 1..Len(said) |->
                          IF said[k].is = "head" THEN said[k].roles ELSE <<>>])]
     ELSE IF Has("opening") THEN [is |-> "opening"] ELSE Word

(* role_for: withdrawal and deposit in one cell are a role of their own. *)
Combined == "withdrawal_deposit"

RoleFor(text) ==
  IF text.is # "head" THEN None
  ELSE IF {"withdrawal", "deposit"} \subseteq ToSet(text.roles) THEN Combined
  ELSE Head(text.roles)

HeaderScore(roles) ==
  Cardinality({g \in {{"date"}, {"withdrawal", "deposit", "amount", Combined}, {"balance"}} :
                 g \cap ToSet(roles) # {}})

ParseDate(text) == IF text.is = "date" THEN text.value ELSE None

ParseDecimal(text) ==
  IF text.is # "num" THEN None ELSE IF text.side = "debit" THEN -text.value ELSE text.value

(* parse_money: the amount, and the side if the cell's own sign gives one. *)
Amount(text) == IF text.is = "num" THEN text.value ELSE None
Side(text)   == IF text.is = "num" THEN text.side ELSE None

IsData(text) == ParseDate(text) # None \/ ParseDecimal(text) # None

-----------------------------------------------------------------------------
(* build_row: v gives the text of each role the line has, hint the side    *)
(* that the position of an amount says, previous the date of the row above *)
Get(v, role) == IF role \in DOMAIN v THEN v[role] ELSE Blank

(* Mutant of DateOf: a row without a date is a continuation line. *)
DateOfRow(v, previous) == ParseDate(Get(v, "date"))

(* The date of a day is printed once; a figure and a balance carry it on. *)
DateOf(v, previous) ==
  LET figures == {"withdrawal", "deposit", "amount", Combined}
      money   == \E role \in figures : Amount(Get(v, role)) # None
      own     == ParseDate(Get(v, "date"))
  IN IF own = None /\ money /\ ParseDecimal(Get(v, "balance")) # None THEN previous ELSE own

BuildRow(v, hint, previous, page_no, split) ==
  LET text   == IF Get(v, Combined) # Blank THEN Get(v, Combined) ELSE Get(v, "amount")
      amount == Amount(text)
      side   == IF Side(text) = None /\ split THEN hint ELSE Side(text)
      debit  == IF amount # None /\ side = "debit" THEN amount ELSE Amount(Get(v, "withdrawal"))
      credit == IF amount # None /\ side = "credit" THEN amount ELSE Amount(Get(v, "deposit"))
      single == IF side = None THEN amount ELSE None
      balance == ParseDecimal(Get(v, "balance"))
      date   == DateOf(v, previous)
      opening == /\ Get(v, "description").is = "opening"
                 /\ amount = None /\ debit = None /\ credit = None
  IN IF opening THEN [row |-> None, opening |-> balance]
     ELSE IF date = None \/ {debit, credit, single, balance} = {None}
       THEN [row |-> None, opening |-> None]
     ELSE [row |-> [page |-> page_no, date |-> date, debit |-> debit, credit |-> credit,
                    amount |-> single, balance |-> balance],
           opening |-> None]

(* The rows of a page, line by line; the first opening balance counts. *)
Rows(lines, page_no, split) ==
  FoldLeft(LAMBDA s, line :
             LET b == BuildRow(line.v, line.hint, s.previous, page_no, split) IN
             [rows     |-> IF b.row = None THEN s.rows ELSE Append(s.rows, b.row),
              opening  |-> IF s.opening = None THEN b.opening ELSE s.opening,
              previous |-> IF b.row = None THEN s.previous ELSE b.row.date],
           [rows |-> <<>>, opening |-> None, previous |-> None], lines)

BuildPage(page_no, r) ==
  [page_no |-> page_no, opening |-> r.opening, closing |-> None, debit |-> None,
   credit |-> None, rows |-> r.rows]

EmptyPage(page_no) == BuildPage(page_no, [rows |-> <<>>, opening |-> None])

-----------------------------------------------------------------------------
(* map_statement_page: a table is a sequence of rows of cells.             *)
MaxHeaderRows == 3

(* _header_band: the header from start on ends before the first data row. *)
BandEnd(table, start) ==
  CHOOSE e \in start..Len(table) :
    /\ \A k \in (start + 1)..e : \A c \in 1..Len(table[k]) : ~IsData(table[k][c])
    /\ e - start < MaxHeaderRows
    /\ \/ e = Len(table) \/ e - start = MaxHeaderRows - 1
       \/ \E c \in 1..Len(table[e + 1]) : IsData(table[e + 1][c])

(* _merge_cells: the rows of the band, column by column. *)
BandRoles(table, start) ==
  LET band == SubSeq(table, start, BandEnd(table, start))
      Column(c) == Join([k \in 1..Len(band) |-> IF c <= Len(band[k]) THEN band[k][c] ELSE Blank])
  IN [c \in 1..Max({Len(band[k]) : k \in 1..Len(band)}) |-> RoleFor(Column(c))]

(* Mutant of Starts: only the first row of a table. *)
FirstStart(table) == 1..Min({1, Len(table)})

Starts(table) == 1..Min({MaxHeaderRows + 1, Len(table)})

(* find_header: the table and the row where the best header starts, the    *)
(* first of equals.                                                        *)
FindHeader(tables) ==
  LET Score(b) == HeaderScore(BandRoles(tables[b[1]], b[2]))
      bands == {b \in UNION {{t} \X Starts(tables[t]) : t \in 1..Len(tables)} : Score(b) >= 2}
      best  == {b \in bands : \A c \in bands : Score(c) <= Score(b)}
  IN IF bands = {} THEN None
     ELSE CHOOSE b \in best : \A c \in best : b[1] < c[1] \/ (b[1] = c[1] /\ b[2] <= c[2])

(* _row_values: the cells of each role. *)
CellValues(cells, roles) ==
  LET Of(role) == Join([c \in 1..Len(cells) |->
                    IF c <= Len(roles) /\ roles[c] = role THEN cells[c] ELSE Blank])
  IN [role \in ToSet(roles) \ {None} |-> Of(role)]

MapTable(table, start, page_no, split) ==
  LET roles == BandRoles(table, start)
      data  == SubSeq(table, BandEnd(table, start) + 1, Len(table))
  IN BuildPage(page_no, Rows([k \in 1..Len(data) |-> [v |-> CellValues(data[k], roles), hint |-> None]],
                        page_no, split))

MapStatementPage(tables, page_no, split) ==
  LET found == FindHeader(tables)
  IN IF found = None THEN EmptyPage(page_no)
     ELSE MapTable(tables[found[1]], found[2], page_no, split)

-----------------------------------------------------------------------------
(* parse_text_layer: a line is a sequence of words [x0, x1, text].         *)
LineRoles(line) == [k \in 1..Len(line) |-> RoleFor(line[k].text)]

Named(line) == ToSet(LineRoles(line)) \ {None}

(* _find_seed: most groups, then most roles, then topmost. *)
FindSeed(lines) ==
  LET Rank(k) == 100 * HeaderScore(LineRoles(lines[k])) + Cardinality(Named(lines[k]))
      seeds   == {k \in 1..Len(lines) : HeaderScore(LineRoles(lines[k])) >= 2}
  IN IF seeds = {} THEN None
     ELSE Min({k \in seeds : \A l \in seeds : Rank(l) <= Rank(k)})

Continues(line) == Named(line) # {} /\ \A k \in 1..Len(line) : ~IsData(line[k].text)

(* header_band: up to two more lines of header on either side. *)
HeaderBand(lines) ==
  LET seed == FindSeed(lines)
      All(a, b) == \A k \in a..b : Continues(lines[k])
  IN IF seed = None THEN None
     ELSE <<Min({a \in Max({1, seed - 2})..seed : All(a, seed - 1)}),
            Max({b \in seed..Min({Len(lines), seed + 2}) : All(seed + 1, b)})>>

(* build_columns: the words of the band that overlap, or nearly, are one   *)
(* header; its column reaches half way to the next.                        *)
Clusters(lines, band) ==
  LET words == FlattenSeq([k \in 1..(band[2] - band[1] + 1) |-> lines[band[1] + k - 1]])
      Across == SortSeq(words, LAMBDA v, w : v.x0 < w.x0)
      groups == FoldLeft(LAMBDA cs, w :
        IF cs # <<>> /\ w.x0 <= Max({v.x1 : v \in Last(cs)}) + LineHeight
          THEN Append(Front(cs), Last(cs) \cup {w}) ELSE Append(cs, {w}), <<>>, Across)
  IN [c \in 1..Len(groups) |->
       [x0 |-> Min({w.x0 : w \in groups[c]}), x1 |-> Max({w.x1 : w \in groups[c]}),
        words |-> SelectSeq(words, LAMBDA w : w \in groups[c])]]    \* line by line

Leftmost == -1000
Rightmost == 1000

Columns(lines, band) ==
  LET cs == Clusters(lines, band)
      slash(c) == SelectSeq(cs[c].words, LAMBDA w : w.text.is = "slash")
      Texts(c) == [k \in 1..Len(cs[c].words) |-> cs[c].words[k].text]
  IN [c \in 1..Len(cs) |->
       [role  |-> RoleFor(Join(Texts(c))),
        left  |-> IF c = 1 THEN Leftmost ELSE (cs[c - 1].x1 + cs[c].x0) \div 2,
        right |-> IF c = Len(cs) THEN Rightmost ELSE (cs[c].x1 + cs[c + 1].x0) \div 2,
        split |-> IF slash(c) = <<>> THEN (cs[c].x0 + cs[c].x1) \div 2
                  ELSE (slash(c)[1].x0 + slash(c)[1].x1) \div 2]]

(* _assign: the column a word overlaps most. *)
Assign(word, columns) ==
  LET Overlap(c) == Min({word.x1, columns[c].right}) - Max({word.x0, columns[c].left})
      best == {c \in 1..Len(columns) :
                 Overlap(c) > 0 /\ \A d \in 1..Len(columns) : Overlap(d) <= Overlap(c)}
  IN IF best = {} THEN None ELSE Min(best)

(* resolve_amount_split: withdrawals and deposits end at two positions; if *)
(* the figures show both, the widest gap between their ends parts them.    *)
Ends(data, columns) ==
  UNION {{data[k][i].x1 : i \in {i \in 1..Len(data[k]) :
            /\ ParseDecimal(data[k][i].text) # None
            /\ LET c == Assign(data[k][i], columns) IN c # None /\ columns[c].role = Combined}} :
         k \in 1..Len(data)}

(* Mutant of SplitAt: the header's separator always decides. *)
SplitAtSeparator(data, columns) == None

WidestGap(ends) ==
  LET gaps == {g \in ends \X ends : g[1] < g[2] /\ \A e \in ends : e <= g[1] \/ g[2] <= e}
      widest == {g \in gaps : \A h \in gaps : h[2] - h[1] <= g[2] - g[1]}
      g == CHOOSE x \in widest : \A y \in widest : y[1] <= x[1]
  IN IF gaps = {} \/ g[2] - g[1] < LineHeight THEN None ELSE (g[1] + g[2]) \div 2

SplitAt(data, columns) == WidestGap(Ends(data, columns))

(* _cell_money: the cell as one number, or its last number. *)
CellMoney(texts) ==
  LET nums == SelectSeq(texts, LAMBDA t : ParseDecimal(t) # None)
  IN IF nums # <<>> THEN Last(nums) ELSE Join(texts)

(* _row_values: a label that overhangs the date belongs to the description. *)
LineValues(line, columns, at) ==
  LET In(c)    == SelectSeq(line, LAMBDA w : Assign(w, columns) = c)
      Texts(c) == [k \in 1..Len(In(c)) |-> In(c)[k].text]
      money    == {"withdrawal", "deposit", "amount", "balance", Combined}
      Dated(c) == IF In(c) # <<>> /\ ParseDate(Texts(c)[1]) # None THEN <<Texts(c)[1]>> ELSE <<>>
      Over     == FlattenSeq([c \in 1..Len(columns) |->
                    IF columns[c].role # "date" THEN <<>>
                    ELSE SubSeq(Texts(c), Len(Dated(c)) + 1, Len(In(c)))])
      Of(c)    == IF columns[c].role = "date" THEN Join(Dated(c))
                  ELSE IF columns[c].role \in money THEN CellMoney(Texts(c)) ELSE Join(Texts(c))
      Cell(role) ==
        Join((IF role = "description" THEN Over ELSE <<>>)
             \o [c \in 1..Len(columns) |-> IF columns[c].role = role THEN Of(c) ELSE Blank])
      combined == {c \in 1..Len(columns) : columns[c].role = Combined /\ In(c) # <<>>}
      Nums(c)  == SelectSeq(In(c), LAMBDA w : ParseDecimal(w.text) # None)
      Seen(c)  == ToSet(IF Nums(c) = <<>> THEN In(c) ELSE Nums(c))
      Left(c)  == IF at # None THEN Max({w.x1 : w \in Seen(c)}) < at
                  ELSE Min({w.x0 : w \in Seen(c)}) < columns[c].split
  IN [v    |-> [role \in ({columns[c].role : c \in 1..Len(columns)} \ {None}) \cup {"description"}
                  |-> Cell(role)],
      hint |-> IF combined = {} THEN None
               ELSE IF Left(Min(combined)) THEN "debit" ELSE "credit"]

ParseLines(data, columns, page_no, split) ==
  LET at == SplitAt(data, columns)
  IN BuildPage(page_no, Rows([k \in 1..Len(data) |-> LineValues(data[k], columns, at)], page_no, split))

ParseTextLayer(lines, page_no, split) ==
  LET band == HeaderBand(lines)
  IN IF band = None THEN EmptyPage(page_no)
     ELSE ParseLines(SubSeq(lines, band[2] + 1, Len(lines)), Columns(lines, band), page_no, split)

-----------------------------------------------------------------------------
(* map_pages: a page without an answer, or with one that failed, is empty, *)
(* so that a file never loses a page.                                      *)
MapPage(answer, page_no, split) ==
  IF answer = None THEN EmptyPage(page_no) ELSE MapStatementPage(answer, page_no, split)

(* merge_file. *)
MergeFile(pages) ==
  LET tagged(p) == [p EXCEPT !.rows = [k \in 1..Len(@) |-> [@[k] EXCEPT !.page = p.page_no]]]
  IN OrderedPages([k \in 1..Len(pages) |-> tagged(pages[k])])

=============================================================================
