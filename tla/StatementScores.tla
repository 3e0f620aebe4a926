-------------------------- MODULE StatementScores --------------------------
(***************************************************************************)
(* What is made of statement pages: the scores against a ground truth      *)
(* (metrics/statement_gt.py), the agreement of two models                  *)
(* (metrics/agreement.py), the review queue and its labels                 *)
(* (statement_review.py), and how the labels judge the flags               *)
(* (metrics/statement_run.py).  A rate is a pair <<part, whole>>.          *)
(***************************************************************************)
EXTENDS StatementPages

(* The key rows are matched by: the date and the amount, on either side. *)
RowKey(row) ==
  LET amount == FirstOf(<<row.debit, row.credit, row.amount>>)
  IN <<row.date, IF amount = None THEN None ELSE Abs(amount)>>

Keyed(rows, key) == SelectSeq(rows, LAMBDA r : RowKey(r) = key)

RowKeys(rows) == {RowKey(rows[k]) : k \in 1..Len(rows)}

(* A side without rows has rate 1 if the other has none either. *)
Rate(part, whole, other) ==
  IF whole # 0 THEN <<part, whole>> ELSE IF other = 0 THEN <<1, 1>> ELSE <<0, 1>>

F1(p, r) ==
  LET sum == p[1] * r[2] + r[1] * p[2]
  IN IF sum = 0 THEN <<0, 1>> ELSE <<2 * p[1] * r[1], sum>>

(* Precision, recall and F1 of tp matches. *)
Prf(tp, pred, gt) ==
  LET p == Rate(tp, pred, gt)
      r == Rate(tp, gt, pred)
  IN [precision |-> p, recall |-> r, f1 |-> F1(p, r)]

(* How many rows have this key. *)
Copies(rows, key) == Cardinality({k \in 1..Len(rows) : RowKey(rows[k]) = key})

RowPrf(pred, gt) ==
  Prf(MapThenSumSet(LAMBDA key : Min({Copies(pred, key), Copies(gt, key)}), RowKeys(gt)),
      Len(pred), Len(gt))

-----------------------------------------------------------------------------
(* A page as cells: a header field is at row 0, row[i].cell at row i.      *)
HeaderFields == {"opening", "closing"}
RowCells     == {"date", "debit", "credit", "amount", "balance"}

(* cell_map: an amount is a cell only where the side is not known. *)
CellMap(page) ==
  LET all  == (HeaderFields \X {0}) \cup (RowCells \X (1..Len(page.rows)))
      v(c) == IF c[2] = 0 THEN page[c[1]] ELSE page.rows[c[2]][c[1]]
  IN [c \in {c \in all : c[1] # "amount" \/ v(c) # None} |-> v(c)]

CellAt(cells, c) == IF c \in DOMAIN cells THEN cells[c] ELSE None

Disagreements(a, b) == {c \in DOMAIN a \cup DOMAIN b : CellAt(a, c) # CellAt(b, c)}

(* field_agreement: header fields and rows, the rows paired by key in their *)
(* order; what one side has not is no agreement and, a row apart, no        *)
(* disagreement.                                                            *)
FieldAgreement(a, b) ==
  LET same(x, y) == IF x = None \/ y = None THEN None ELSE x = y
      pairs == {p \in (RowKeys(a.rows) \cup RowKeys(b.rows)) \X (1..Max({Len(a.rows), Len(b.rows), 1})) :
                  p[2] <= Max({Len(Keyed(a.rows, p[1])), Len(Keyed(b.rows, p[1]))})}
      row(key, i) ==
        IF i <= Len(Keyed(a.rows, key)) /\ i <= Len(Keyed(b.rows, key))
          THEN same(Keyed(a.rows, key)[i].balance, Keyed(b.rows, key)[i].balance) ELSE FALSE
  IN [header |-> [f \in HeaderFields |-> same(a[f], b[f])],
      rows   |-> [p \in pairs |-> row(p[1], p[2])]]

AgreementRate(agreement) ==
  LET h == agreement.header  r == agreement.rows
      Number(verdicts) == Cardinality({f \in DOMAIN h : h[f] \in verdicts})
                          + Cardinality({p \in DOMAIN r : r[p] \in verdicts})
  IN IF Number(BOOLEAN) = 0 THEN None ELSE <<Number({TRUE}), Number(BOOLEAN)>>

-----------------------------------------------------------------------------
(* queue_rows: what the models disagree about, and the sampled agreements; *)
(* cells is the cell map of each model.                                    *)
QueueRows(cells, sampled) ==
  LET values(c) == {CellAt(cells[m], c) : m \in DOMAIN cells}
  IN {c \in UNION {DOMAIN cells[m] : m \in DOMAIN cells} :
        values(c) # {None} /\ (Cardinality(values(c)) > 1 \/ c \in sampled)}

EmptyRow(page_no) ==
  [page |-> page_no, date |-> None, debit |-> None, credit |-> None, amount |-> None,
   balance |-> None]

(* Mutant of LoadLabels: only labelled rows are made. *)
LoadLabelledRows(labels, page_no) ==
  LET rows == {c[2] : c \in DOMAIN labels} \ {0}
      nth(k) == CHOOSE r \in rows : Cardinality({s \in rows : s <= r}) = k
      at(cell, k) == CellAt(labels, <<cell, k>>)
  IN [EmptyPage(page_no) EXCEPT
        !.opening = at("opening", 0), !.closing = at("closing", 0),
        !.rows = [k \in 1..Cardinality(rows) |->
                    [c \in DOMAIN EmptyRow(page_no) |-> IF c = "page" THEN page_no ELSE at(c, nth(k))]]]

(* load_labels: labels gives a value to the labelled cells of a page; a row *)
(* none of whose cells is labelled is there, and empty.                     *)
LoadLabels(labels, page_no) ==
  LET at(cell, k) == CellAt(labels, <<cell, k>>)
  IN [EmptyPage(page_no) EXCEPT
        !.opening = at("opening", 0), !.closing = at("closing", 0),
        !.rows = [k \in 1..Max({c[2] : c \in DOMAIN labels} \cup {0}) |->
                    [c \in DOMAIN EmptyRow(page_no) |-> IF c = "page" THEN page_no ELSE at(c, k)]]]

(* A flagged row of a page is a true error if a cell of it differs from the *)
(* label: for each row of the page that Check B flags, the verdict.         *)
ArithVerdicts(file, page, label) ==
  LET check   == CheckFile(file)
      flagged == {Places(file)[k][2] : k \in {k \in check.rows.bad : Places(file)[k][1] = page.page_no}}
  IN [i \in flagged |->
       \E cell \in RowCells : CellAt(CellMap(page), <<cell, i>>) # CellAt(CellMap(label), <<cell, i>>)]

(* The cells two models disagree about, each a true error of either. *)
AgreementVerdicts(a, b, label) ==
  LET at(page, c) == CellAt(CellMap(page), c)
  IN [c \in Disagreements(CellMap(a), CellMap(b)) |->
       at(a, c) # at(label, c) \/ at(b, c) # at(label, c)]

FlagPrecision(verdicts) ==
  IF DOMAIN verdicts = {} THEN None
  ELSE <<Cardinality({f \in DOMAIN verdicts : verdicts[f]}), Cardinality(DOMAIN verdicts)>>

=============================================================================
