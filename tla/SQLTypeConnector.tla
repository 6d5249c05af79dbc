-------------------------- MODULE SQLTypeConnector --------------------------
(***************************************************************************)
(* The column/row cursor of connector/SQLTypeConnector.h: a row-major      *)
(* position in a result set of rows rows and cols columns, with the flag   *)
(* notEnd (_not_end).  An operator returns the new cursor; those whose C++ *)
(* method also returns a count return a record [cur, ret].  CursorWalk     *)
(* checks them on their own, ODBCConnector and the response builders use   *)
(* them for every cursor move.                                             *)
(***************************************************************************)
EXTENDS Naturals

CONSTANT SizeMax        \* a size_t holds 0 .. SizeMax - 1

ASSUME SizeAssumption == SizeMax \in Nat \ {0}

Cursor == [col : Nat, row : Nat, cols : Nat, rows : Nat, notEnd : BOOLEAN]

\* The cursor of a connector just constructed.
NewCursor == [col |-> 0, row |-> 0, cols |-> 0, rows |-> 0, notEnd |-> TRUE]

\* Back to the first element; only a cursor that was never sized is at its end.
Reset(c) == [c EXCEPT !.row = 0, !.col = 0,
                      !.notEnd = ~(c.rows = 0 /\ c.cols = 0)]

\* Mutant of AtEnd: the end flag is not cleared.
AtEndNoFlag(c) == [c EXCEPT !.row = c.rows, !.col = c.cols]

\* One column and one row beyond the last element.
AtEnd(c) == [c EXCEPT !.row = c.rows, !.col = c.cols, !.notEnd = FALSE]

\* Mutant of SetRow: the limit is one row too far.
SetRowPastLast(c, increment) ==
  IF c.row + increment <= c.rows
    THEN [cur |-> [c EXCEPT !.row = @ + increment], ret |-> increment]
    ELSE [cur |-> AtEnd(c), ret |-> c.rows]

SetRow(c, increment) ==
  IF c.row + increment < c.rows
    THEN [cur |-> [c EXCEPT !.row = @ + increment], ret |-> increment]
    ELSE [cur |-> AtEnd(c), ret |-> c.rows]

\* Subtraction of unsigned words.
Minus(a, b) == (a + SizeMax - (b % SizeMax)) % SizeMax

\* Whole rows are skipped first, but only by an increment larger than a row.
SkipRows(c, increment) ==
  IF increment > c.cols THEN SetRow(c, increment \div c.cols)
                        ELSE [cur |-> c, ret |-> 0]

\* What is left of the increment once the whole rows are skipped.
LeftOver(c, increment) ==
  IF increment > c.cols
    THEN Minus(increment, c.cols * SkipRows(c, increment).ret)
    ELSE increment

\* The column after the increment, which may be past the end of the row.
NewColumn(c, increment) ==
  (SkipRows(c, increment).cur.col + LeftOver(c, increment)) % SizeMax

\* The cursor put on a column when skipped rows have been passed: past the
\* end of the row it is the next row's.
Settle(c, column, skipped) ==
  IF column < c.cols
    THEN [cur |-> [c EXCEPT !.col = column], ret |-> skipped]
    ELSE IF SetRow(c, 1).ret = c.rows
           THEN SetRow(c, 1)
           ELSE [cur |-> [SetRow(c, 1).cur EXCEPT !.col = column - c.cols],
                 ret |-> skipped + 1]

\* Mutant of SetNext: the skipped whole rows are missing from the count.
SetNextLastRowOnly(c, increment) ==
  Settle(SkipRows(c, increment).cur, NewColumn(c, increment), 0)

\* Mutant of SetNext: the last column is taken for the next row.
SetNextTooNarrow(c, increment) ==
  IF c.col + increment + 1 < c.cols
    THEN [cur |-> [c EXCEPT !.col = @ + increment], ret |-> 0]
    ELSE [cur |-> [SetRow(c, 1).cur EXCEPT !.col = 0], ret |-> 1]

SetNext(c, increment) ==
  Settle(SkipRows(c, increment).cur, NewColumn(c, increment),
         SkipRows(c, increment).ret)
=============================================================================
