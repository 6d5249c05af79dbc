----------------------------- MODULE CursorWalk -----------------------------
(***************************************************************************)
(* A cursor on its own, moved by setNext(increment) and reset() in any     *)
(* order.  walked is a history variable: the elements passed since the     *)
(* last reset, which is what a position in a row-major stream should be.   *)
(***************************************************************************)
EXTENDS SQLTypeConnector

CONSTANTS MaxCols,       \* bounds the size of a row
          MaxRows,       \* bounds the number of rows
          MinRows,       \* 0: the result set may be empty
          MaxIncrement   \* bounds the argument of setNext

ASSUME WalkAssumption == {MaxCols, MaxRows, MinRows, MaxIncrement} \subseteq Nat

VARIABLES cur, skipped, walked

vars == <<cur, skipped, walked>>

Init ==
  /\ \E cols \in 1..MaxCols, rows \in MinRows..MaxRows :
       cur = Reset([NewCursor EXCEPT !.cols = cols, !.rows = rows])
  /\ skipped = 0
  /\ walked = 0

Move(increment) ==
  /\ cur' = SetNext(cur, increment).cur
  /\ skipped' = SetNext(cur, increment).ret
  /\ walked' = IF cur.notEnd THEN walked + increment ELSE walked

Restart ==
  /\ cur' = Reset(cur)
  /\ skipped' = 0
  /\ walked' = 0

Next == Restart \/ \E i \in 1..MaxIncrement : Move(i)

Spec == Init /\ [][Next]_vars

-----------------------------------------------------------------------------

(* The cursor stands on the element whose number, row by row, is the sum   *)
(* of the increments given to setNext since the last reset, whatever mix   *)
(* of steps inside a row, steps to the next row and skips of several rows  *)
(* brought it there; it ends only if that sum is past the last element.    *)
RowMajor ==
  /\ cur.notEnd => /\ cur.row * cur.cols + cur.col = walked
                   /\ cur.col < cur.cols
  /\ ~cur.notEnd => walked >= cur.rows * cur.cols

(* From a valid position setNext returns the number of rows it moved down, *)
(* or the number of rows of the result set once it reaches the end:        *)
(* getNext fetches that many rows before the next value, so an error here  *)
(* loses or repeats rows.                                                  *)
SkippedRows ==
  [][cur.notEnd /\ walked' > walked =>
       skipped' = IF cur'.notEnd THEN cur'.row - cur.row ELSE cur.rows]_vars

(* notEnd() must "return false if the end is reached and no more element   *)
(* are available" (SQLTypeConnector.h:192), also for an empty result set.  *)
NotEndMeansMore == cur.notEnd => walked < cur.rows * cur.cols

(* setNext returns "number of skipped rows or getRows() if limits are      *)
(* reached" (SQLTypeConnector.h:267).                                      *)
EndReturnsRows == [][~cur'.notEnd => skipped' = cur.rows]_vars
=============================================================================
