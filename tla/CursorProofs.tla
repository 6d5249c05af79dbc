----------------------------- MODULE CursorProofs -----------------------------
(***************************************************************************)
(* The walk of a cursor, for result sets of any size and increments up to  *)
(* any bound: it is row by row, and setNext returns the rows it moved      *)
(* down.  setNext computes in unsigned words; NoWrap says how long a word  *)
(* has to be for the walk to be right as long as the cursor is not at its  *)
(* end.  At the end the subtraction wraps for words of any length, and     *)
(* what is shown is that it does not matter.                               *)
(***************************************************************************)
EXTENDS CursorWalk, Integers, TLAPS

\* A word counts the columns of two rows and holds the increments.
NoWrap == 2 * MaxCols < SizeMax /\ MaxIncrement < SizeMax

WalkType ==
  /\ cur \in Cursor /\ cur.cols \in 1..MaxCols
  /\ skipped \in Nat /\ walked \in Nat

\* RowMajor says nothing of the row: while the cursor is not at its end it is
\* one of the rows, or the first one of an empty result set.
InRows == cur.notEnd => cur.row < cur.rows \/ cur.row = 0

WalkInv == WalkType /\ InRows /\ RowMajor

-----------------------------------------------------------------------------
(* Arithmetic.                                                             *)

\* What is less than a word is not changed by it.
LEMMA Fits ==
  ASSUME NEW a \in Nat, NEW b \in Nat \ {0}, a < b
  PROVE  a % b = a
OBVIOUS

\* Subtraction of words is that of numbers when there is enough to take from.
LEMMA MinusExact ==
  ASSUME NEW a \in Nat, NEW b \in Nat, b <= a, a < SizeMax
  PROVE  Minus(a, b) = a - b
<1>1. SizeMax \in Nat \ {0} /\ b % SizeMax = b
  BY SizeAssumption, Fits
<1>2. a + SizeMax - b = 1 * SizeMax + (a - b) /\ a - b \in 0..SizeMax - 1
  BY <1>1
<1>3. (1 * SizeMax + (a - b)) % SizeMax = a - b
  BY <1>1, <1>2
<1> QED
  BY <1>1, <1>2, <1>3 DEF Minus

\* The whole rows of an increment larger than a row, and the rest.
LEMMA WholeRows ==
  ASSUME NEW i \in Nat, NEW n \in Nat \ {0}, i > n
  PROVE  /\ i \div n \in Nat \ {0} /\ i % n \in 0..n - 1
         /\ i = n * (i \div n) + (i % n)
<1> DEFINE q == i \div n
           rest == i % n
<1>1. q \in Int
  OBVIOUS
<1>2. rest \in 0..n - 1
  OBVIOUS
<1>3. i = n * q + rest
  BY Z3
<1>4. q > 0
  <2> HIDE DEF q, rest
  <2> QED
    BY <1>1, <1>2, <1>3
<1>5. q \in Nat \ {0}
  <2> HIDE DEF q
  <2> QED
    BY <1>1, <1>4
<1> QED
  BY <1>2, <1>3, <1>5

\* The number of an element further down is what its rows hold more.
LEMMA RowsDown ==
  ASSUME NEW r \in Nat, NEW k \in Nat, NEW n \in Nat
  PROVE  /\ (r + k) * n = r * n + n * k /\ r * n \in Nat /\ n * k \in Nat
         /\ (r + k) * n \in Nat
OBVIOUS

\* A row that is not above another begins no sooner.
LEMMA RowsMonotone ==
  ASSUME NEW r \in Nat, NEW s \in Nat, NEW n \in Nat, r <= s
  PROVE  r * n <= s * n /\ r * n \in Nat /\ s * n \in Nat
OBVIOUS

-----------------------------------------------------------------------------
(* The parts of a cursor.                                                  *)

PutOnRow(c, r) == [c EXCEPT !.row = r]
PutOnColumn(c, column) == [c EXCEPT !.col = column]

\* A cursor put on another row.
LEMMA OnRow ==
  ASSUME NEW c \in Cursor, NEW r \in Nat
  PROVE  /\ PutOnRow(c, r) \in Cursor
         /\ PutOnRow(c, r).row = r /\ PutOnRow(c, r).col = c.col
         /\ PutOnRow(c, r).cols = c.cols /\ PutOnRow(c, r).rows = c.rows
         /\ PutOnRow(c, r).notEnd <=> c.notEnd
BY DEF Cursor, PutOnRow

\* A cursor put on another column.
LEMMA OnColumn ==
  ASSUME NEW c \in Cursor, NEW column \in Nat
  PROVE  /\ PutOnColumn(c, column) \in Cursor
         /\ PutOnColumn(c, column).row = c.row
         /\ PutOnColumn(c, column).col = column
         /\ PutOnColumn(c, column).cols = c.cols
         /\ PutOnColumn(c, column).rows = c.rows
         /\ PutOnColumn(c, column).notEnd <=> c.notEnd
BY DEF Cursor, PutOnColumn

\* One column and one row beyond the last element.
LEMMA Beyond ==
  ASSUME NEW c \in Cursor
  PROVE  /\ AtEnd(c) \in Cursor /\ AtEnd(c).row = c.rows /\ AtEnd(c).col = c.cols
         /\ AtEnd(c).cols = c.cols /\ AtEnd(c).rows = c.rows
         /\ ~AtEnd(c).notEnd
BY DEF AtEnd, Cursor

\* setRow: so many rows down, or to the end.
LEMMA SetRowMoves ==
  ASSUME NEW c \in Cursor, NEW k \in Nat
  PROVE  /\ c.row \in Nat /\ c.rows \in Nat /\ c.row + k \in Nat
         /\ c.row + k < c.rows => /\ SetRow(c, k).ret = k
                                  /\ SetRow(c, k).cur = PutOnRow(c, c.row + k)
         /\ c.row + k >= c.rows => /\ SetRow(c, k).ret = c.rows
                                   /\ SetRow(c, k).cur = AtEnd(c)
<1>1. c.row \in Nat /\ c.rows \in Nat /\ c.row + k \in Nat
  BY DEF Cursor
<1>2. CASE c.row + k < c.rows
  <2>1. SetRow(c, k) = [cur |-> PutOnRow(c, c.row + k), ret |-> k]
    BY <1>2 DEF SetRow, PutOnRow
  <2> QED
    BY <1>1, <1>2, <2>1
<1>3. CASE c.row + k >= c.rows
  <2>1. SetRow(c, k) = [cur |-> AtEnd(c), ret |-> c.rows]
    BY <1>1, <1>3 DEF SetRow
  <2> QED
    BY <1>1, <1>3, <2>1
<1> QED
  BY <1>1, <1>2, <1>3

-----------------------------------------------------------------------------
(* setNext.                                                                *)

\* The end stays the end, whatever setNext computes there.
LEMMA StaysAtEnd ==
  ASSUME NEW c \in Cursor, c.cols > 0, NEW i \in Nat, ~c.notEnd
  PROVE  LET d == SetNext(c, i)
         IN  /\ d.cur \in Cursor /\ ~d.cur.notEnd /\ d.ret \in Nat
             /\ d.cur.cols = c.cols /\ d.cur.rows = c.rows
<1> DEFINE s == SkipRows(c, i)
           column == NewColumn(c, i)
<1>1. i > c.cols => i \div c.cols \in Nat
  BY DEF Cursor
<1>2. /\ s.cur \in Cursor /\ ~s.cur.notEnd /\ s.ret \in Nat
      /\ s.cur.cols = c.cols /\ s.cur.rows = c.rows
  <2>1. CASE i > c.cols
    <3> DEFINE k == i \div c.cols
    <3>1. s = SetRow(c, k) /\ k \in Nat
      BY <1>1, <2>1 DEF SkipRows
    <3> HIDE DEF k, s
    <3>2. /\ SetRow(c, k).ret \in {k, c.rows}
          /\ \/ SetRow(c, k).cur = PutOnRow(c, c.row + k)
             \/ SetRow(c, k).cur = AtEnd(c)
          /\ c.row + k \in Nat /\ c.rows \in Nat
      BY <3>1, SetRowMoves
    <3>3. /\ PutOnRow(c, c.row + k) \in Cursor /\ ~PutOnRow(c, c.row + k).notEnd
          /\ PutOnRow(c, c.row + k).cols = c.cols
          /\ PutOnRow(c, c.row + k).rows = c.rows
      BY <3>2, OnRow
    <3>4. /\ SetRow(c, k).cur \in Cursor /\ ~SetRow(c, k).cur.notEnd
          /\ SetRow(c, k).cur.cols = c.cols /\ SetRow(c, k).cur.rows = c.rows
      BY <3>2, <3>3, Beyond
    <3> QED
      BY <3>1, <3>2, <3>4
  <2>2. CASE ~(i > c.cols)
    BY <2>2 DEF SkipRows
  <2> QED
    BY <2>1, <2>2
<1>3. column \in Nat
  <2>1. SizeMax \in Nat \ {0}
    BY SizeAssumption
  <2>2. LeftOver(c, i) \in Nat
    <3>1. c.cols * s.ret \in Nat
      BY <1>2 DEF Cursor
    <3>2. (c.cols * s.ret) % SizeMax \in 0..SizeMax - 1
      BY <2>1, <3>1
    <3>3. i + SizeMax - ((c.cols * s.ret) % SizeMax) \in Nat
      BY <2>1, <3>2
    <3>4. Minus(i, c.cols * s.ret) \in Nat
      BY <2>1, <3>3 DEF Minus
    <3> QED
      BY <3>4 DEF LeftOver
  <2>3. s.cur.col \in Nat
    BY <1>2 DEF Cursor
  <2> QED
    BY <2>1, <2>2, <2>3 DEF NewColumn
<1> HIDE DEF s, column
<1>4. SetNext(c, i) = Settle(s.cur, column, s.ret)
  BY DEF SetNext, s, column
<1> DEFINE e == s.cur
           t == SetRow(e, 1)
<1> HIDE DEF e
<1>5. /\ t.cur \in Cursor /\ ~t.cur.notEnd /\ t.ret \in Nat
      /\ t.cur.cols = c.cols /\ t.cur.rows = c.rows
  <2>1. e \in Cursor /\ ~e.notEnd /\ e.cols = c.cols /\ e.rows = c.rows
    BY <1>2 DEF e
  <2>2. /\ t.ret \in {1, e.rows} /\ e.row + 1 \in Nat /\ e.rows \in Nat
        /\ t.cur = PutOnRow(e, e.row + 1) \/ t.cur = AtEnd(e)
    BY <2>1, SetRowMoves
  <2>3. /\ PutOnRow(e, e.row + 1) \in Cursor /\ ~PutOnRow(e, e.row + 1).notEnd
        /\ PutOnRow(e, e.row + 1).cols = c.cols
        /\ PutOnRow(e, e.row + 1).rows = c.rows
    BY <2>1, <2>2, OnRow
  <2> QED
    BY <2>1, <2>2, <2>3, Beyond
<1> HIDE DEF t
<1>6. CASE column < c.cols
  <2>1. SetNext(c, i) = [cur |-> PutOnColumn(e, column), ret |-> s.ret]
    BY <1>2, <1>4, <1>6 DEF Settle, e, PutOnColumn
  <2>2. e \in Cursor
    BY <1>2 DEF e
  <2> QED
    BY <1>2, <1>3, <2>1, <2>2, OnColumn DEF e
<1>7. CASE ~(column < c.cols)
  <2>1. \/ SetNext(c, i) = t
        \/ SetNext(c, i) = [cur |-> PutOnColumn(t.cur, column - c.cols),
                            ret |-> s.ret + 1]
    BY <1>2, <1>4, <1>7 DEF Settle, e, t, PutOnColumn
  <2>2. column - c.cols \in Nat /\ s.ret + 1 \in Nat
    BY <1>2, <1>3, <1>7 DEF Cursor
  <2>3. CASE SetNext(c, i) = t
    BY <1>5, <2>3
  <2>4. CASE SetNext(c, i) = [cur |-> PutOnColumn(t.cur, column - c.cols),
                              ret |-> s.ret + 1]
    <3> DEFINE f == PutOnColumn(t.cur, column - c.cols)
    <3>1. /\ f \in Cursor /\ ~f.notEnd /\ f.cols = c.cols /\ f.rows = c.rows
      BY <1>5, <2>2, OnColumn
    <3>2. SetNext(c, i).cur = f /\ SetNext(c, i).ret = s.ret + 1
      BY <2>4
    <3> QED
      BY <2>2, <3>1, <3>2
  <2> QED
    BY <2>1, <2>3, <2>4
<1> QED
  BY <1>6, <1>7

\* A step to a column of this row or of the next one, once the whole rows are
\* skipped.
LEMMA SettleMoves ==
  ASSUME NEW c \in Cursor, c.cols > 0, c.notEnd, c.row < c.rows \/ c.row = 0,
         NEW column \in Nat, column < 2 * c.cols, NEW k \in Nat
  PROVE  LET d == Settle(c, column, k)
         IN  /\ d.cur \in Cursor /\ d.ret \in Nat
             /\ d.cur.cols = c.cols /\ d.cur.rows = c.rows
             /\ column < c.cols =>
                  /\ d.cur.notEnd /\ d.ret = k
                  /\ d.cur.row = c.row /\ d.cur.col = column
             /\ column >= c.cols /\ c.row + 1 < c.rows =>
                  /\ d.cur.notEnd /\ d.ret = k + 1
                  /\ d.cur.row = c.row + 1 /\ d.cur.col = column - c.cols
             /\ column >= c.cols /\ c.row + 1 >= c.rows =>
                  ~d.cur.notEnd /\ d.ret = c.rows
<1>1. c.row + 1 \in Nat /\ c.rows \in Nat /\ c.cols \in Nat
  BY DEF Cursor
<1>2. CASE column < c.cols
  <2>1. Settle(c, column, k) = [cur |-> PutOnColumn(c, column), ret |-> k]
    BY <1>2 DEF Settle, PutOnColumn
  <2>2. /\ Settle(c, column, k).cur = PutOnColumn(c, column)
        /\ Settle(c, column, k).ret = k
    BY <2>1
  <2>3. /\ PutOnColumn(c, column) \in Cursor /\ PutOnColumn(c, column).notEnd
        /\ PutOnColumn(c, column).row = c.row
        /\ PutOnColumn(c, column).col = column
        /\ PutOnColumn(c, column).cols = c.cols
        /\ PutOnColumn(c, column).rows = c.rows
    BY OnColumn
  <2> QED
    BY <1>1, <1>2, <2>2, <2>3
<1>3. CASE column >= c.cols /\ c.row + 1 < c.rows
  <2> DEFINE below == PutOnRow(c, c.row + 1)
  <2>1. SetRow(c, 1).ret = 1 /\ SetRow(c, 1).cur = below /\ 1 # c.rows
    BY <1>1, <1>3, SetRowMoves DEF Cursor
  <2>2. /\ below \in Cursor /\ below.row = c.row + 1
        /\ below.cols = c.cols /\ below.rows = c.rows /\ below.notEnd
    BY <1>1, OnRow
  <2> HIDE DEF below
  <2>3. Settle(c, column, k)
          = [cur |-> PutOnColumn(below, column - c.cols), ret |-> k + 1]
    BY <1>1, <1>3, <2>1 DEF Settle, PutOnColumn
  <2>4. column - c.cols \in Nat
    BY <1>1, <1>3
  <2> DEFINE d == PutOnColumn(below, column - c.cols)
  <2>5. /\ d \in Cursor /\ d.notEnd /\ d.row = c.row + 1
        /\ d.col = column - c.cols /\ d.cols = c.cols /\ d.rows = c.rows
    BY <2>2, <2>4, OnColumn
  <2>6. Settle(c, column, k).cur = d /\ Settle(c, column, k).ret = k + 1
    BY <2>3
  <2> QED
    BY <1>1, <1>3, <2>5, <2>6
<1>4. CASE column >= c.cols /\ c.row + 1 >= c.rows
  <2>1. SetRow(c, 1).ret = c.rows /\ SetRow(c, 1).cur = AtEnd(c)
    BY <1>4, SetRowMoves
  <2>2. Settle(c, column, k) = SetRow(c, 1)
    BY <1>1, <1>4, <2>1 DEF Settle
  <2> QED
    BY <1>1, <1>4, <2>1, <2>2, Beyond
<1> QED
  BY <1>1, <1>2, <1>3, <1>4

\* setNext of a cursor on an element: to the element whose number is the
\* increment larger, and the rows in between are counted; to the end only if
\* there is no such element.
LEMMA SetNextWalks ==
  ASSUME NEW c \in Cursor, c.cols > 0, c.col < c.cols, c.notEnd,
         c.row < c.rows \/ c.row = 0, 2 * c.cols < SizeMax,
         NEW i \in Nat, i < SizeMax
  PROVE  LET d == SetNext(c, i)
         IN  /\ d.cur \in Cursor /\ d.ret \in Nat
             /\ d.cur.cols = c.cols /\ d.cur.rows = c.rows
             /\ d.cur.notEnd =>
                  /\ d.cur.row * c.cols + d.cur.col
                       = c.row * c.cols + c.col + i
                  /\ d.cur.col < c.cols
                  /\ d.cur.row < c.rows \/ d.cur.row = 0
                  /\ d.ret = d.cur.row - c.row
             /\ ~d.cur.notEnd =>
                  /\ c.row * c.cols + c.col + i >= c.rows * c.cols
                  /\ d.ret = c.rows
<1> DEFINE n == c.cols
           s == SkipRows(c, i)
           left == LeftOver(c, i)
           column == NewColumn(c, i)
           d == SetNext(c, i)
<1>1. /\ SizeMax \in Nat \ {0} /\ n \in Nat \ {0} /\ c.row \in Nat
      /\ c.rows \in Nat /\ c.col \in 0..n - 1
  BY SizeAssumption DEF Cursor
<1>2. d = Settle(s.cur, column, s.ret)
  BY DEF SetNext
<1>3. ASSUME NEW e \in Cursor, NEW k \in Nat, NEW rest \in Nat, s.cur = e, s.ret = k,
             e.notEnd, e.cols = n, e.rows = c.rows, e.col = c.col,
             e.row = c.row + k, e.row < e.rows \/ e.row = 0,
             i = n * k + rest, rest <= n, left = rest
      PROVE  /\ d.cur \in Cursor /\ d.ret \in Nat
             /\ d.cur.cols = n /\ d.cur.rows = c.rows
             /\ d.cur.notEnd =>
                  /\ d.cur.row * n + d.cur.col = c.row * n + c.col + i
                  /\ d.cur.col < n
                  /\ d.cur.row < c.rows \/ d.cur.row = 0
                  /\ d.ret = d.cur.row - c.row
             /\ ~d.cur.notEnd => /\ c.row * n + c.col + i >= c.rows * n
                                 /\ d.ret = c.rows
  <2>1. column = c.col + rest /\ column \in Nat /\ column < 2 * n
    <3>1. c.col + rest \in Nat /\ c.col + rest < 2 * n
      BY <1>1, <1>3
    <3>2. column = (c.col + rest) % SizeMax
      BY <1>3 DEF NewColumn
    <3> QED
      BY <1>1, <3>1, <3>2, Fits
  <2>2. d = Settle(e, column, k)
    BY <1>2, <1>3
  <2>3. (c.row + k) * n = c.row * n + n * k /\ c.row * n \in Nat /\ n * k \in Nat
    BY <1>1, <1>3, RowsDown
  <2> HIDE DEF d, column, n
  <2>4. CASE column < n
    <3>1. /\ d.cur \in Cursor /\ d.ret = k /\ d.cur.cols = n
          /\ d.cur.rows = c.rows /\ d.cur.notEnd
          /\ d.cur.row = c.row + k /\ d.cur.col = column
      BY <1>1, <1>3, <2>1, <2>2, <2>4, SettleMoves
    <3> QED
      BY <1>1, <1>3, <2>1, <2>3, <2>4, <3>1
  <2>5. CASE column >= n /\ e.row + 1 < e.rows
    <3>1. /\ d.cur \in Cursor /\ d.ret = k + 1 /\ d.cur.cols = n
          /\ d.cur.rows = c.rows /\ d.cur.notEnd
          /\ d.cur.row = c.row + k + 1 /\ d.cur.col = column - n
      <4>1. e.cols > 0 /\ column < 2 * e.cols /\ column >= e.cols
        BY <1>1, <1>3, <2>1, <2>5
      <4>2. /\ d.cur \in Cursor /\ d.ret = k + 1 /\ d.cur.cols = e.cols
            /\ d.cur.rows = e.rows /\ d.cur.notEnd
            /\ d.cur.row = e.row + 1 /\ d.cur.col = column - e.cols
        BY <1>3, <2>1, <2>2, <2>5, <4>1, SettleMoves
      <4> QED
        BY <1>3, <4>2
    <3>2. (c.row + k + 1) * n = (c.row + k) * n + n
      BY <1>1, <1>3
    <3> QED
      BY <1>1, <1>3, <2>1, <2>3, <2>5, <3>1, <3>2
  <2>6. CASE column >= n /\ e.row + 1 >= e.rows
    <3>1. /\ d.cur \in Cursor /\ d.ret = c.rows /\ d.cur.cols = n
          /\ d.cur.rows = c.rows /\ ~d.cur.notEnd
      <4>1. e.cols > 0 /\ column < 2 * e.cols /\ column >= e.cols
        BY <1>1, <1>3, <2>1, <2>6
      <4>2. /\ d.cur \in Cursor /\ d.ret = e.rows /\ d.cur.cols = e.cols
            /\ d.cur.rows = e.rows /\ ~d.cur.notEnd
        BY <1>3, <2>1, <2>2, <2>6, <4>1, SettleMoves
      <4> QED
        BY <1>3, <4>2
    <3>2. /\ c.rows * n <= (c.row + k + 1) * n
          /\ (c.row + k + 1) * n \in Nat /\ c.rows * n \in Nat
      BY <1>1, <1>3, <2>6, RowsMonotone
    <3>3. (c.row + k + 1) * n = (c.row + k) * n + n
      BY <1>1, <1>3
    <3> QED
      BY <1>1, <1>3, <2>1, <2>3, <2>6, <3>1, <3>2, <3>3
  <2> QED
    BY <1>1, <1>3, <2>1, <2>4, <2>5, <2>6
<1>4. CASE i <= n
  <2>1. s = [cur |-> c, ret |-> 0] /\ left = i
    BY <1>1, <1>4 DEF SkipRows, LeftOver
  <2> QED
    BY <1>1, <1>3, <1>4, <2>1
<1>5. CASE i > n
  <2> DEFINE k == i \div n
             rest == i % n
  <2>1. k \in Nat \ {0} /\ rest \in 0..n - 1 /\ i = n * k + rest
    BY <1>1, <1>5, WholeRows
  <2>2. s = SetRow(c, k) /\ left = Minus(i, n * s.ret)
    BY <1>5 DEF SkipRows, LeftOver
  <2> HIDE DEF k, rest, left, d, column, s, n
  <2>3. CASE c.row + k < c.rows
    <3>1. s.cur = PutOnRow(c, c.row + k) /\ s.ret = k
      BY <2>1, <2>2, <2>3, SetRowMoves
    <3>2. n * k \in Nat /\ n * k <= i
      BY <1>1, <2>1
    <3>3. left = rest
      BY <1>1, <2>1, <2>2, <3>1, <3>2, MinusExact
    <3>4. /\ s.cur \in Cursor /\ s.cur.notEnd /\ s.cur.cols = n
          /\ s.cur.rows = c.rows /\ s.cur.col = c.col
          /\ s.cur.row = c.row + k /\ s.cur.row < s.cur.rows /\ s.ret = k
      <4> DEFINE f == PutOnRow(c, c.row + k)
      <4>1. c.row + k \in Nat
        BY <1>1, <2>1
      <4>2. /\ f \in Cursor /\ f.notEnd /\ f.cols = n /\ f.rows = c.rows
            /\ f.col = c.col /\ f.row = c.row + k
        BY <4>1, OnRow DEF n
      <4> QED
        BY <2>3, <3>1, <4>2
    <3>5. k \in Nat /\ rest \in Nat /\ rest <= n
      BY <1>1, <2>1
    <3>6. /\ d.cur \in Cursor /\ d.ret \in Nat
          /\ d.cur.cols = n /\ d.cur.rows = c.rows
          /\ d.cur.notEnd =>
               /\ d.cur.row * n + d.cur.col = c.row * n + c.col + i
               /\ d.cur.col < n
               /\ d.cur.row < c.rows \/ d.cur.row = 0
               /\ d.ret = d.cur.row - c.row
          /\ ~d.cur.notEnd => /\ c.row * n + c.col + i >= c.rows * n
                              /\ d.ret = c.rows
      BY <1>3, <2>1, <3>3, <3>4, <3>5
    <3> QED
      BY <3>6 DEF n, d
  <2>4. CASE c.row + k >= c.rows
    <3>1. s.cur = AtEnd(c) /\ s.ret = c.rows
      BY <2>1, <2>2, <2>4, SetRowMoves
    <3>2. /\ s.cur \in Cursor /\ ~s.cur.notEnd /\ s.cur.row = c.rows
          /\ s.cur.cols = n /\ s.cur.rows = c.rows /\ s.ret = c.rows
      BY <1>1, <3>1, Beyond DEF n
    <3>3. /\ d.ret = c.rows /\ ~d.cur.notEnd /\ d.cur \in Cursor
          /\ d.cur.cols = c.cols /\ d.cur.rows = c.rows
      <4>1. /\ SetRow(s.cur, 1).cur = AtEnd(s.cur)
            /\ SetRow(s.cur, 1).ret = c.rows
        BY <1>1, <3>2, SetRowMoves
      <4>2. d = [cur |-> PutOnColumn(s.cur, column), ret |-> c.rows]
              \/ d = SetRow(s.cur, 1)
        BY <1>2, <3>2, <4>1 DEF Settle, PutOnColumn
      <4>3. column \in Nat
        <5>1. left \in Nat
          <6>1. n * s.ret \in Nat
            BY <1>1, <3>2
          <6>2. (n * s.ret) % SizeMax \in 0..SizeMax - 1
            BY <1>1, <6>1
          <6>3. i + SizeMax - ((n * s.ret) % SizeMax) \in Nat
            BY <1>1, <6>2
          <6> QED
            BY <1>1, <2>2, <6>3 DEF Minus
        <5>2. s.cur.col \in Nat /\ column = (s.cur.col + left) % SizeMax
          BY <3>2 DEF Cursor, column, s, left, NewColumn
        <5> QED
          BY <1>1, <5>1, <5>2
      <4>4. CASE d = SetRow(s.cur, 1)
        BY <3>2, <4>1, <4>4, Beyond DEF n
      <4>5. CASE d = [cur |-> PutOnColumn(s.cur, column), ret |-> c.rows]
        BY <3>2, <4>3, <4>5, OnColumn DEF n
      <4> QED
        BY <4>2, <4>4, <4>5
    <3>4. /\ c.rows * n <= (c.row + k) * n
          /\ (c.row + k) * n = c.row * n + n * k
          /\ c.row * n \in Nat /\ n * k \in Nat /\ c.rows * n \in Nat
      BY <1>1, <2>1, <2>4, RowsMonotone, RowsDown
    <3>5. c.row * n + c.col + i >= c.rows * n
      BY <1>1, <2>1, <3>4
    <3> QED
      BY <1>1, <3>3, <3>5 DEF n, d
  <2> QED
    BY <1>1, <2>1, <2>3, <2>4
<1> QED
  BY <1>1, <1>4, <1>5

-----------------------------------------------------------------------------
(* The walk.                                                               *)

\* reset() puts the cursor on the first element, or at its end.
LEMMA ResetStarts ==
  ASSUME NEW c \in Cursor, c.cols > 0
  PROVE  /\ Reset(c) \in Cursor /\ Reset(c).notEnd
         /\ Reset(c).row = 0 /\ Reset(c).col = 0
         /\ Reset(c).cols = c.cols /\ Reset(c).rows = c.rows
<1>1. Reset(c) = [c EXCEPT !.row = 0, !.col = 0, !.notEnd = TRUE]
  <2>1. ~(c.rows = 0 /\ c.cols = 0) = TRUE
    BY DEF Cursor
  <2> QED
    BY <2>1 DEF Reset
<1>2. c.cols \in Nat /\ c.rows \in Nat
  BY DEF Cursor
<1>3. Reset(c) = [col |-> 0, row |-> 0, cols |-> c.cols, rows |-> c.rows,
                  notEnd |-> TRUE]
  BY <1>1 DEF Cursor
<1> QED
  BY <1>2, <1>3 DEF Cursor

\* A cursor of any size at its first element.
LEMMA InitWalk == Init => WalkInv
<1> SUFFICES ASSUME Init PROVE WalkInv
  OBVIOUS
<1>1. PICK cols \in 1..MaxCols, rows \in MinRows..MaxRows :
        cur = Reset([NewCursor EXCEPT !.cols = cols, !.rows = rows])
  BY DEF Init
<1> DEFINE c == [NewCursor EXCEPT !.cols = cols, !.rows = rows]
<1>2. c \in Cursor /\ c.cols = cols /\ c.rows = rows /\ cols > 0
  <2>1. cols \in Nat \ {0} /\ rows \in Nat
    BY WalkAssumption
  <2>2. c \in Cursor
    BY <2>1 DEF NewCursor, Cursor
  <2>3. c.cols = cols
    BY DEF NewCursor
  <2>4. c.rows = rows
    BY DEF NewCursor
  <2> HIDE DEF c
  <2> QED
    BY <2>1, <2>2, <2>3, <2>4
<1> HIDE DEF c
<1>3. /\ cur \in Cursor /\ cur.notEnd /\ cur.row = 0 /\ cur.col = 0
      /\ cur.cols = cols /\ cur.rows = rows
  BY <1>1, <1>2, ResetStarts DEF c
<1>4. walked = 0 /\ skipped = 0
  BY DEF Init
<1> QED
  BY <1>2, <1>3, <1>4, WalkAssumption DEF WalkInv, WalkType, InRows, RowMajor

\* A move of a cursor on an element, as SetNextWalks has it for the state.
LEMMA MoveWalks ==
  ASSUME NoWrap, WalkInv, cur.notEnd, NEW i \in 1..MaxIncrement, Move(i)
  PROVE  /\ WalkInv'
         /\ skipped' = IF cur'.notEnd THEN cur'.row - cur.row ELSE cur.rows
<1>1. /\ cur \in Cursor /\ cur.cols > 0 /\ cur.col < cur.cols
      /\ cur.row < cur.rows \/ cur.row = 0
      /\ cur.row * cur.cols + cur.col = walked
  BY DEF WalkInv, WalkType, InRows, RowMajor
<1>2. 2 * cur.cols < SizeMax /\ i \in Nat /\ i < SizeMax
  BY SizeAssumption, WalkAssumption DEF NoWrap, WalkInv, WalkType
<1>3. /\ cur' = SetNext(cur, i).cur /\ skipped' = SetNext(cur, i).ret
      /\ walked' = walked + i
  BY DEF Move
<1>4. /\ cur' \in Cursor /\ skipped' \in Nat
      /\ cur'.cols = cur.cols /\ cur'.rows = cur.rows
      /\ cur'.notEnd => /\ cur'.row * cur.cols + cur'.col
                             = cur.row * cur.cols + cur.col + i
                        /\ cur'.col < cur.cols
                        /\ cur'.row < cur.rows \/ cur'.row = 0
                        /\ skipped' = cur'.row - cur.row
      /\ ~cur'.notEnd => /\ cur.row * cur.cols + cur.col + i
                              >= cur.rows * cur.cols
                         /\ skipped' = cur.rows
  BY <1>1, <1>2, <1>3, SetNextWalks
<1>5. WalkType'
  BY <1>2, <1>3, <1>4 DEF WalkInv, WalkType
<1>6. InRows' /\ RowMajor'
  BY <1>1, <1>3, <1>4 DEF InRows, RowMajor
<1> QED
  BY <1>4, <1>5, <1>6 DEF WalkInv

\* Every step of the walk.
LEMMA WalkStep ==
  ASSUME NoWrap, WalkInv, [Next]_vars
  PROVE  /\ WalkInv'
         /\ cur.notEnd /\ walked' > walked =>
              skipped' = IF cur'.notEnd THEN cur'.row - cur.row ELSE cur.rows
<1>1. CASE Restart
  <2>1. cur \in Cursor /\ cur.cols > 0 /\ walked \in Nat
    BY DEF WalkInv, WalkType
  <2>2. /\ cur' = Reset(cur) /\ skipped' = 0 /\ walked' = 0
    BY <1>1 DEF Restart
  <2>3. /\ cur' \in Cursor /\ cur'.notEnd /\ cur'.row = 0 /\ cur'.col = 0
        /\ cur'.cols = cur.cols /\ cur'.rows = cur.rows
    BY <2>1, <2>2, ResetStarts
  <2>4. WalkInv'
    BY <2>1, <2>2, <2>3 DEF WalkInv, WalkType, InRows, RowMajor
  <2> QED
    BY <2>1, <2>2, <2>4
<1>2. ASSUME NEW i \in 1..MaxIncrement, Move(i), cur.notEnd
      PROVE  /\ WalkInv'
             /\ skipped' = IF cur'.notEnd THEN cur'.row - cur.row ELSE cur.rows
  BY <1>2, MoveWalks
<1>3. ASSUME NEW i \in 1..MaxIncrement, Move(i), ~cur.notEnd
      PROVE  WalkInv' /\ ~cur'.notEnd
  <2>1. /\ cur \in Cursor /\ cur.cols > 0 /\ i \in Nat
    BY WalkAssumption DEF WalkInv, WalkType
  <2>2. /\ cur' = SetNext(cur, i).cur /\ skipped' = SetNext(cur, i).ret
        /\ walked' = walked
    BY <1>3 DEF Move
  <2>3. /\ cur' \in Cursor /\ ~cur'.notEnd /\ skipped' \in Nat
        /\ cur'.cols = cur.cols /\ cur'.rows = cur.rows
    BY <1>3, <2>1, <2>2, StaysAtEnd
  <2> QED
    BY <1>3, <2>2, <2>3 DEF WalkInv, WalkType, InRows, RowMajor
<1>4. CASE UNCHANGED vars
  <2>1. cur' = cur /\ skipped' = skipped /\ walked' = walked /\ walked \in Nat
    BY <1>4 DEF vars, WalkInv, WalkType
  <2> QED
    BY <2>1 DEF WalkInv, WalkType, InRows, RowMajor
<1> QED
  BY <1>1, <1>2, <1>3, <1>4 DEF Next

LEMMA SpecWalk == ASSUME NoWrap PROVE Spec => []WalkInv
<1>1. WalkInv /\ [Next]_vars => WalkInv'
  BY WalkStep
<1> QED
  BY <1>1, InitWalk, PTL DEF Spec

-----------------------------------------------------------------------------
\* The cursor stands on the element whose number is the sum of the increments
\* since the last reset, and ends only past the last one, for result sets of any
\* size and whatever mix of steps and skips brought it there (setNext, setRow).
THEOREM WalksRowByRow == ASSUME NoWrap PROVE Spec => []RowMajor
<1>1. WalkInv => RowMajor
  BY DEF WalkInv
<1> QED
  BY <1>1, SpecWalk, PTL

\* setNext returns the rows it moved down, which getNext fetches before the next
\* value, or those of the result set when it comes to the end.
THEOREM CountsRows == ASSUME NoWrap PROVE Spec => SkippedRows
<1>1. WalkInv /\ [Next]_vars =>
        [cur.notEnd /\ walked' > walked =>
           skipped' = IF cur'.notEnd THEN cur'.row - cur.row ELSE cur.rows]_vars
  BY WalkStep
<1> QED
  BY <1>1, SpecWalk, PTL DEF Spec, SkippedRows
=============================================================================
