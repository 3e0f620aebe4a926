--------------------------- MODULE PrintedLedgers ---------------------------
(***************************************************************************)
(* Statement files to judge: a true ledger, printed the ways banks print   *)
(* it, and possibly misprinted or misread.                                 *)
(***************************************************************************)
EXTENDS StatementLedger

CONSTANTS Moves,    \* what one transaction may add to the balance
          MaxRows,  \* rows of a ledger
          Start     \* its balance before the first of them

(* No move undoes another: read backwards, no balance of a ledger          *)
(* continues the one before it.                                            *)
ASSUME MovesAssumption == Start \in Int /\ Moves \subseteq Int /\ \A a, b \in Moves : a + b # 0

Histories == UNION {[1..n -> Moves] : n \in 1..MaxRows}

After(moves, k) == AfterEach(Start, moves, Len(moves))[k]

(* A ledger case: unsided rows print an amount without a side, a day is   *)
(* the date of each row, cut the last row of the first page, openings the *)
(* pages that print theirs, misprint the row whose balance is off by one  *)
(* (0: none; the total of credits, beyond the last) and unprinted the row *)
(* without a balance (0: none).                                           *)
LedgerCases ==
  UNION {[kind : {"ledger"}, moves : {m}, unsided : {{}, {1}, 1..Len(m)}, daily : BOOLEAN,
          newest : BOOLEAN, cut : 1..Len(m), opening : {"none", "first", "every"},
          totals : BOOLEAN, misprint : 0..(Len(m) + 1), unprinted : 0..Len(m)] : m \in Histories}

PlausibleLedger(c) == c.unprinted \notin c.unsided /\ (c.misprint # c.unprinted \/ c.misprint = 0)

(* Rows and pages in the order they are printed; row k is the k-th in time. *)
RowAt(c, position) == IF c.newest THEN Len(c.moves) + 1 - position ELSE position

PageAt(c, position) == IF position <= c.cut THEN 1 ELSE 2

LedgerRow(c, position) ==
  LET k == RowAt(c, position)
      move == c.moves[k]
      sided == k \notin c.unsided
  IN [page    |-> PageAt(c, position), date |-> IF c.daily THEN k ELSE 1,
      debit   |-> IF sided /\ move < 0 THEN -move ELSE None,
      credit  |-> IF sided /\ move > 0 THEN move ELSE None,
      amount  |-> IF sided THEN None ELSE Abs(move),
      balance |-> IF k = c.unprinted THEN None
                  ELSE After(c.moves, k) + (IF k = c.misprint THEN 1 ELSE 0)]

LedgerPages(c) == 1..(IF c.cut = Len(c.moves) THEN 1 ELSE 2)

PositionsOn(c, p) == {q \in 1..Len(c.moves) : PageAt(c, q) = p}

OldestOn(c, p) == Min({RowAt(c, q) : q \in PositionsOn(c, p)})

LedgerFile(c) ==
  LET n == Len(c.moves)
      Opens(p) == c.opening = "every" \/ (c.opening = "first" /\ OldestOn(c, p) = 1)
      Totals(p) == c.totals /\ p = Max(LedgerPages(c))
  IN [p \in LedgerPages(c) |->
       [page_no |-> p,
        opening |-> IF Opens(p) THEN After(c.moves, OldestOn(c, p) - 1) ELSE None,
        closing |-> IF Totals(p) THEN After(c.moves, n) ELSE None,
        debit   |-> IF Totals(p) THEN Moved(c.moves, n, -1) ELSE None,
        credit  |-> IF Totals(p) THEN Moved(c.moves, n, 1) + (IF c.misprint > n THEN 1 ELSE 0) ELSE None,
        rows    |-> [i \in 1..Cardinality(PositionsOn(c, p)) |-> LedgerRow(c, Min(PositionsOn(c, p)) + i - 1)]]]

(* Dates tell the order, or balances that all fit. *)
OrderShows(c) == c.daily \/ (c.unsided = {} /\ c.misprint = 0 /\ c.unprinted = 0)

(* Where an account may begin: no further from a balance than all moves    *)
(* and a misprint take it.                                                 *)
Starts0(c) ==
  LET n == Len(c.moves)
      far == Moved(c.moves, n, 1) + Moved(c.moves, n, -1) + 1
  IN {After(c.moves, k) + d : k \in 0..n, d \in (-far)..far}

(* check_file: a file reconciles exactly when sides can be found for the   *)
(* amounts that have none, and a balance to begin with, under which every  *)
(* figure it prints is true.  The order of the rows is found if anything   *)
(* shows it, and a misprint breaks its own row and the next that prints a  *)
(* balance, no other.                                                      *)
LedgerIsJudged ==
  Is("ledger") =>
    LET f == LedgerFile(case)
        n == Len(case.moves)
        check == CheckFile(f)
        inTime == NewestFirst(Printed(f)) <=> (case.newest /\ n > 1)
    IN /\ FileIsJudged(f, Starts0(case))
       /\ OrderShows(case) => inTime
       /\ (HasBasis(f) /\ inTime) =>
            \A k \in check.rows.bad : case.misprint \in 1..k /\ (case.misprint + 1)..(k - 1) \subseteq {case.unprinted}

(* _opening_balance: "A derived basis makes the first row consistent by    *)
(* construction, so that row is then excluded".                            *)
DerivedFirstRowConsistent ==
  Is("ledger") =>
    LET f == LedgerFile(case) IN Derived(f) => 1 \notin CheckFile(f).rows.bad

=============================================================================
