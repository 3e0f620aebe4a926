-------------------------- MODULE StatementLedger --------------------------
(***************************************************************************)
(* Check B (ocr_bench/metrics/arithmetic.py): whether the figures of an    *)
(* extracted statement file fit together.  The rows are read oldest first, *)
(* each balance against the balance printed before it; an amount without a *)
(* side gets one from the change of the balance.                           *)
(*                                                                         *)
(* A row is [page, date, debit, credit, amount, balance], a page           *)
(* [page_no, opening, closing, debit, credit, rows] and a file a sequence  *)
(* of pages; figures are integers, None where nothing is printed.          *)
(***************************************************************************)
EXTENDS Absent

OrZero(x) == IF x = None THEN 0 ELSE x

(* _net: what a row adds to the balance, None if it names no side. *)
Net(row) ==
  IF row.debit = None /\ row.credit = None THEN None
  ELSE OrZero(row.credit) - OrZero(row.debit)

(* The rows whose balance continues the one printed before it. *)
ChainScore(rows) ==
  Cardinality({k \in 2..Len(rows) :
     /\ None \notin {rows[k - 1].balance, rows[k].balance, Net(rows[k])}
     /\ rows[k].balance = rows[k - 1].balance + Net(rows[k])})

(* Mutant of NewestFirst: the dates are not looked at. *)
NewestFirstByChain(rows) == ChainScore(Reverse(rows)) > ChainScore(rows)

(* Dates decide, then the balances; a tie keeps the printed order. *)
NewestFirst(rows) ==
  LET dated == {k \in 1..Len(rows) : rows[k].date # None}
      first == rows[Min(dated)].date
      last  == rows[Max(dated)].date
  IN IF Cardinality(dated) >= 2 /\ first # last THEN last < first
     ELSE ChainScore(Reverse(rows)) > ChainScore(rows)

(* sorted: by number, pages of one number in the order they came. *)
PlaceOf(file, k) ==
  Cardinality({j \in 1..Len(file) : \/ file[j].page_no < file[k].page_no
                                    \/ file[j].page_no = file[k].page_no /\ j <= k})

OrderedPages(file) == [i \in 1..Len(file) |-> file[CHOOSE k \in 1..Len(file) : PlaceOf(file, k) = i]]

Printed(file) == FlattenSeq([k \in 1..Len(file) |-> OrderedPages(file)[k].rows])

Reading(file) ==
  IF NewestFirst(Printed(file)) THEN Reverse(Printed(file)) ELSE Printed(file)

(* Mutant of Places: the places are not turned with the rows. *)
PlacesAsPrinted(file) ==
  FlattenSeq([p \in 1..Len(file) |->
    [k \in 1..Len(OrderedPages(file)[p].rows) |-> <<OrderedPages(file)[p].page_no, k>>]])

(* Where each row that is read stands: its page, and its row there. *)
Places(file) ==
  LET printed == FlattenSeq([p \in 1..Len(file) |->
        [k \in 1..Len(OrderedPages(file)[p].rows) |-> <<OrderedPages(file)[p].page_no, k>>]])
  IN IF NewestFirst(Printed(file)) THEN Reverse(printed) ELSE printed

Openings(file) == [k \in 1..Len(file) |-> OrderedPages(file)[k].opening]

(* No page prints an opening balance: the first row has to give it. *)
Derived(file) == FirstOf(Openings(file)) = None

OpeningBalance(file) ==
  LET rows == Reading(file) IN
  IF ~Derived(file) THEN FirstOf(Openings(file))
  ELSE IF rows = <<>> \/ rows[1].balance = None THEN None
  ELSE rows[1].balance - OrZero(Net(rows[1]))

(* page_opening: of pages of one number the last. *)
PageOpening(file, page_no) ==
  LET there == {k \in 1..Len(file) : file[k].page_no = page_no}
  IN IF there = {} THEN None ELSE file[Max(there)].opening

-----------------------------------------------------------------------------
(* One row: s is what the rows before it have left.                        *)
CheckRow(file, s, row) ==
  LET starts   == s.page # None /\ row.page # s.page
      declared == PageOpening(file, row.page)
      jump     == starts /\ None \notin {declared, s.running} /\ declared # s.running
      running  == IF jump THEN declared ELSE s.running
      unsided  == /\ Net(row) = None
                  /\ None \notin {row.amount, running, row.balance}
      delta    == row.balance - running
      inferred == unsided /\ delta # 0 /\ delta \in {row.amount, -row.amount}
      net      == IF inferred THEN delta ELSE Net(row)
      expected == IF None \in {running, net} THEN None ELSE running + net
      excluded == \/ inferred \/ (s.n = 0 /\ Derived(file))
                  \/ None \in {expected, row.balance}
      checked  == (unsided /\ ~inferred) \/ ~excluded
      bad      == checked /\ expected # row.balance
  IN [n        |-> s.n + 1,
      running  |-> IF row.balance # None THEN row.balance ELSE expected,
      page     |-> row.page,
      checked  |-> s.checked + (IF checked THEN 1 ELSE 0),
      bad      |-> s.bad \cup (IF bad THEN {s.n + 1} ELSE {}),
      gaps     |-> s.gaps \cup (IF jump \/ (bad /\ starts) THEN {row.page} ELSE {}),
      inferred |-> s.inferred \cup (IF inferred THEN {s.n + 1} ELSE {}),
      debit    |-> s.debit + (IF net # None /\ net < 0 THEN -net ELSE 0),
      credit   |-> s.credit + (IF net # None /\ net > 0 THEN net ELSE 0)]

Checked(file) ==
  FoldLeft(LAMBDA s, row : CheckRow(file, s, row),
           [n |-> 0, running |-> OpeningBalance(file), page |-> None, checked |-> 0,
            bad |-> {}, gaps |-> {}, inferred |-> {}, debit |-> 0, credit |-> 0],
           Reading(file))

(* _summary_totals: the first total of either kind, the last closing balance. *)
SummaryTotals(file) ==
  LET pages == OrderedPages(file)
      Of(F(_)) == [k \in 1..Len(pages) |-> F(pages[k])]
  IN [debit   |-> FirstOf(Of(LAMBDA p : p.debit)),
      credit  |-> FirstOf(Of(LAMBDA p : p.credit)),
      closing |-> FirstOf(Reverse(Of(LAMBDA p : p.closing)))]

(* check_file. *)
Judged(s, t) ==
  LET total   == t.debit \notin {None, s.debit} \/ t.credit \notin {None, s.credit}
      closing == None \notin {t.closing, s.running} /\ t.closing # s.running
  IN [rows |-> s, total_mismatch |-> total, closing_mismatch |-> closing,
      file_reconciles |-> s.bad = {} /\ s.gaps = {} /\ ~total /\ ~closing]

CheckFile(file) == Judged(Checked(file), SummaryTotals(file))

-----------------------------------------------------------------------------
(* What a file that reconciles should be: there are sides for the amounts  *)
(* that have none, and a balance to begin with, under which everything     *)
(* that it prints is true.                                                 *)
Sided(row) ==
  IF Net(row) # None THEN {Net(row)} ELSE {row.amount, -row.amount} \ {0}

(* The balance after each of the first n rows. *)
AfterEach(start, net, n) ==
  LET after[k \in 0..n] == IF k = 0 THEN start ELSE after[k - 1] + net[k]
  IN after

(* What the rows of one side move, added up. *)
Moved(net, n, sign) == MapThenSumSet(LAMBDA k : IF sign * net[k] > 0 THEN sign * net[k] ELSE 0, 1..n)

Explains(file, start, net) ==
  LET rows == Reading(file)
      n    == Len(rows)
      after == AfterEach(start, net, n)
      t    == SummaryTotals(file)
  IN /\ \A k \in 1..n :
          /\ rows[k].balance \in {None, after[k]}
          /\ k = 1 \/ rows[k].page # rows[k - 1].page =>
               PageOpening(file, rows[k].page) \in {None, after[k - 1]}
     /\ t.debit \in {None, Moved(net, n, -1)} /\ t.credit \in {None, Moved(net, n, 1)}
     /\ t.closing \in {None, after[n]}

Explicable(file, starts) ==
  LET rows == Reading(file)
      moves == UNION {Sided(rows[k]) : k \in 1..Len(rows)}
  IN \E net \in [1..Len(rows) -> moves] :
       /\ \A k \in 1..Len(rows) : net[k] \in Sided(rows[k])
       /\ \E start \in starts : Explains(file, start, net)

(* The opening balance is the one of the page that is read first, or a     *)
(* first row with a side gives it.                                         *)
HasBasis(file) ==
  LET first == Reading(file)[1] IN
  IF Derived(file) THEN Net(first) # None ELSE PageOpening(file, first.page) = OpeningBalance(file)

FileIsJudged(file, starts) ==
  HasBasis(file) => (CheckFile(file).file_reconciles <=> Explicable(file, starts))

=============================================================================
