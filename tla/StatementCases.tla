--------------------------- MODULE StatementCases ---------------------------
(***************************************************************************)
(* Statement pages to read and reviews to judge, of a true ledger that is  *)
(* printed the ways banks print it.                                        *)
(***************************************************************************)
EXTENDS StatementScores, PrintedLedgers

CONSTANT PageRows  \* rows of a ledger that is printed cell by cell

-----------------------------------------------------------------------------
(* A page case: the ledger is printed under a header of one line or of     *)
(* two, below a title with the day of issue or not, its date in each row   *)
(* or once a page, with lines of nothing but description, with a B/F line, *)
(* with or without a date, or none.  layout names the columns of figures;  *)
(* inside: the separator of a combined column stands above the withdrawals. *)
Layouts == {"columns", "combined", "inside", "signed", "unsigned"}

PageCases ==
  UNION {[kind : {"page"}, moves : {m}, layout : Layouts, stacked : BOOLEAN, title : BOOLEAN,
          daily : BOOLEAN, wrapped : BOOLEAN, bf : {"none", "plain", "dated"}] :
         m \in {h \in Histories : Len(h) <= PageRows}}

(* With one kind of figures a page cannot tell that its separator misleads. *)
PlausiblePage(c) ==
  /\ c.layout = "inside" => \E i, j \in DOMAIN c.moves : c.moves[i] < 0 /\ c.moves[j] > 0
  /\ c.layout = "unsigned" => c.bf # "none"

(* What is printed: the rows with their sides. *)
TrueRows(c) ==
  [k \in 1..Len(c.moves) |->
    [page |-> 1, date |-> IF c.daily THEN k ELSE 1, debit |-> IF c.moves[k] < 0 THEN -c.moves[k] ELSE None,
     credit |-> IF c.moves[k] > 0 THEN c.moves[k] ELSE None, amount |-> None,
     balance |-> After(c.moves, k)]]

HeadOf(roles) == [is |-> "head", roles |-> roles]
DateOn(day)   == [is |-> "date", value |-> day]
Number(x)     == [is |-> "num", value |-> x, side |-> None]
Opening       == [is |-> "opening"]

(* The figure of a row, with its side where the layout prints a sign. *)
Figure(c, k) ==
  LET move == c.moves[k]
  IN [is |-> "num", value |-> Abs(move),
      side |-> IF c.layout # "signed" THEN None ELSE IF move < 0 THEN "debit" ELSE "credit"]

DateCell(c, k) == IF c.daily THEN DateOn(k) ELSE IF k = 1 THEN DateOn(1) ELSE Blank

Money(c) == IF c.layout \in {"combined", "inside"} THEN {"combined"}
            ELSE IF c.layout = "columns" THEN {"columns"} ELSE {"amount"}

(* As a model answers: tables of cells. *)
HeadCells(c, line) ==
  <<HeadOf(<<"date">>), HeadOf(<<"description">>)>>
  \o (CASE Money(c) = {"columns"}  -> <<HeadOf(<<"withdrawal">>), HeadOf(<<"deposit">>)>>
        [] Money(c) = {"amount"}   -> <<HeadOf(<<"amount">>)>>
        [] Money(c) = {"combined"} ->
             <<HeadOf(IF ~c.stacked THEN <<"withdrawal", "deposit">>
                      ELSE IF line = 1 THEN <<"withdrawal">> ELSE <<"deposit">>)>>)
  \o <<HeadOf(<<"balance">>)>>

RowCellsOf(c, date, label, k) ==
  LET figure == IF k = 0 THEN Blank ELSE Figure(c, k)
      figures == IF Money(c) # {"columns"} THEN <<figure>>
                 ELSE IF k # 0 /\ c.moves[k] > 0 THEN <<Blank, figure>> ELSE <<figure, Blank>>
  IN <<date, label>> \o figures \o <<Number(After(c.moves, k))>>

Lines(c, HeadLine(_), BroughtForward(_), Wrap, Row(_)) ==
  (IF c.stacked THEN <<HeadLine(1), HeadLine(2)>> ELSE <<HeadLine(1)>>)
  \o (IF c.bf = "none" THEN <<>> ELSE <<BroughtForward(c.bf = "dated")>>)
  \o FlattenSeq([k \in 1..Len(c.moves) |-> IF c.wrapped THEN <<Row(k), Wrap>> ELSE <<Row(k)>>])

TablesOf(c) ==
  LET table == Lines(c, LAMBDA line : HeadCells(c, line),
                     LAMBDA dated : RowCellsOf(c, IF dated THEN DateOn(1) ELSE Blank, Opening, 0),
                     <<Blank, Word>>, LAMBDA k : RowCellsOf(c, DateCell(c, k), Word, k))
  IN IF c.title THEN << <<<<Word, Word>>>>, <<<<Word>>, <<Word, DateOn(9)>>>> \o table >> ELSE <<table>>

(* As the text layer has it: words between two positions. *)
At(x0, x1, text) == [x0 |-> x0, x1 |-> x1, text |-> text]

HeadWords(c, line) ==
  <<At(0, 20, HeadOf(<<"date">>)), At(30, 50, HeadOf(<<"description">>))>>
  \o (CASE c.layout = "columns"  -> <<At(62, 80, HeadOf(<<"withdrawal">>)), At(92, 110, HeadOf(<<"deposit">>))>>
        [] c.layout = "combined" ->
             <<At(62, 78, HeadOf(<<"withdrawal">>)), At(80, 82, [is |-> "slash"]), At(84, 110, HeadOf(<<"deposit">>))>>
        [] c.layout = "inside"   ->
             <<At(60, 72, HeadOf(<<"withdrawal">>)), At(74, 76, [is |-> "slash"]), At(78, 110, HeadOf(<<"deposit">>))>>
        [] OTHER -> <<At(62, 110, HeadOf(<<"amount">>))>>)
  \o <<At(124, 140, HeadOf(<<"balance">>))>>

(* Figures end where those of their kind end; a B/F label overhangs the date *)
RowWords(c, k) ==
  (IF DateCell(c, k) = Blank THEN <<>> ELSE <<At(0, 16, DateCell(c, k))>>)
  \o <<At(30, 46, Word),
       IF c.moves[k] < 0 THEN At(76, 80, Figure(c, k)) ELSE At(102, 110, Figure(c, k)),
       At(132, 140, Number(After(c.moves, k)))>>

BroughtForwardWords(dated) ==
  (IF dated THEN <<At(0, 16, DateOn(1))>> ELSE <<>>)
  \o <<At(18, 28, Opening), At(132, 140, Number(Start))>>

WordsOf(c) ==
  (IF c.title THEN << <<At(40, 56, Word), At(58, 70, DateOn(9))>> >> ELSE <<>>)
  \o Lines(c, LAMBDA line : HeadWords(c, line), BroughtForwardWords, <<At(30, 46, Word)>>,
           LAMBDA k : RowWords(c, k))

ReadsAlike(answer, truth, said) ==
  LET file == MergeFile(<<answer>>)
      Plain(row) == [row EXCEPT !.debit = None, !.credit = None, !.amount = None]
  IN /\ Len(answer.rows) = Len(said) /\ Len(truth.rows) = Len(said)
     /\ \A k \in 1..Len(said) :
          /\ \A rows \in {answer.rows, truth.rows} :
               RowKey(rows[k]) = RowKey(said[k]) /\ Plain(rows[k]) = Plain(said[k])
          /\ case.layout # "unsigned" => truth.rows[k] = said[k]
     /\ \A page \in {answer, truth} : page.opening = IF case.bf = "none" THEN None ELSE Start
     /\ LET f1 == RowPrf(answer.rows, truth.rows).f1 IN f1[1] = f1[2]
     /\ HasBasis(file) =>
          CheckFile(file).file_reconciles /\ Checked(file).debit = Checked(MergeFile(<<truth>>)).debit

(* map_statement_page and parse_text_layer: an answer that repeats the page *)
(* faultlessly is read as the ground truth is, and both as what the page    *)
(* says; it scores perfectly, and its file reconciles.                      *)
PerfectAnswerIsPerfect ==
  Is("page") => ReadsAlike(MapPage(TablesOf(case), 1, TRUE), ParseTextLayer(WordsOf(case), 1, TRUE),
                           TrueRows(case))

-----------------------------------------------------------------------------
(* A review case: two models read the pages of a ledger, each with the     *)
(* cells of wrong off by one; a person gives the true value of each cell   *)
(* the queue asks about, all of them or only those the models differ in.   *)
ReviewCases ==
  UNION {[kind : {"review"}, moves : {m}, newest : BOOLEAN, cut : 1..2,
          wrong : [a : SUBSET ({"date", "balance"} \X (1..2)), b : SUBSET ({"balance"} \X (1..2))],
          sampled : {"all", "none"}] :
         m \in [1..2 -> Moves]}

TrueFile(c) ==
  LedgerFile([moves |-> c.moves, unsided |-> {}, daily |-> FALSE, newest |-> c.newest, cut |-> c.cut,
              opening |-> "first", totals |-> FALSE, misprint |-> 0, unprinted |-> 0])

(* Place of a row on its page, for the k-th row in time. *)
PlaceAt(c, k) ==
  LET position == RowAt(c, k)
  IN <<PageAt(c, position), IF position <= c.cut THEN position ELSE position - c.cut>>

ReadFile(c, model) ==
  LET Wrong(cell, p, i) == \E k \in 1..2 : <<cell, k>> \in c.wrong[model] /\ PlaceAt(c, k) = <<p, i>>
      Misread(row, p, i) ==
        [row EXCEPT !.date = IF Wrong("date", p, i) THEN @ + 5 ELSE @,
                    !.balance = IF Wrong("balance", p, i) THEN @ + 1 ELSE @]
  IN [p \in DOMAIN TrueFile(c) |->
       [TrueFile(c)[p] EXCEPT !.rows = [i \in DOMAIN @ |-> Misread(@[i], p, i)]]]

(* The queue of a page, and the page that its labels give. *)
Asked(c, p) ==
  LET cells == [m \in {"a", "b"} |-> CellMap(ReadFile(c, m)[p])]
  IN QueueRows(cells, IF c.sampled = "all" THEN DOMAIN cells["a"] ELSE {})

LabelledPage(c, p) ==
  LET true == CellMap(TrueFile(c)[p])
  IN LoadLabels([cell \in {x \in Asked(c, p) : CellAt(true, x) # None} |-> true[cell]], p)

Verdicts(c, m, p) == ArithVerdicts(ReadFile(c, m), ReadFile(c, m)[p], LabelledPage(c, p))

RowDiffers(c, m, p, i, page) ==
  \E cell \in RowCells : ReadFile(c, m)[p].rows[i][cell] # page.rows[i][cell]

(* true is the page as it is, of which m read p. *)
JudgedByTruth(verdicts, m, p, true) ==
  /\ case.sampled = "all" => \A i \in DOMAIN verdicts :
        verdicts[i] <=> RowDiffers(case, m, p, i, true)
  /\ NewestFirst(Printed(ReadFile(case, m))) = case.newest =>
        \A i \in DOMAIN verdicts : \E k \in 1..2 :
          /\ PlaceAt(case, k) = <<p, i>>
          /\ \E j \in {k - 1, k} : <<"balance", j>> \in case.wrong[m]

(* queue_rows, load_labels and run_statement_checks: a label comes back at *)
(* the cell it was asked for, however few were; when all were asked for, a *)
(* flag counts as a true error exactly when its row is misread, and only a *)
(* row whose balance, or the one before it in time, is misread is flagged  *)
(* (the order of the rows being found).                                    *)
ReviewJudgesByTruth ==
  Is("review") =>
    \A p \in DOMAIN TrueFile(case) :
      LET true == TrueFile(case)[p]
      IN /\ \A c \in Asked(case, p) :
              CellAt(CellMap(LabelledPage(case, p)), c) = CellAt(CellMap(true), c)
         /\ \A m \in {"a", "b"} : JudgedByTruth(Verdicts(case, m, p), m, p, true)

(* run_statement_checks: "a flagged row whose labelled cells differ was a  *)
(* true error".                                                            *)
FlagIsErrorWhereLabelsDiffer ==
  Is("review") =>
    \A p \in DOMAIN TrueFile(case) : \A m \in {"a", "b"} : \A i \in DOMAIN Verdicts(case, m, p) :
      (Verdicts(case, m, p)[i] /\ Asked(case, p) # {}) =>
        \E cell \in RowCells :
          /\ <<cell, i>> \in Asked(case, p)
          /\ CellAt(CellMap(ReadFile(case, m)[p]), <<cell, i>>) # CellAt(CellMap(LabelledPage(case, p)), <<cell, i>>)

=============================================================================
