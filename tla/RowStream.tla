------------------------------ MODULE RowStream ------------------------------
(***************************************************************************)
(* What a data response promises its reader: the rows of one result set,   *)
(* in order, each exactly once and complete, then the end; or a prefix of  *)
(* them if the request fails or the reader stops asking.                   *)
(***************************************************************************)
EXTENDS Naturals, Sequences

CONSTANTS Columns,     \* columns of a row
          MaxTotal     \* bounds the rows of the result set

VARIABLES total,       \* rows of the result set
          delivered,   \* the rows handed over, each a function on Columns
          ended        \* the reader was told that there are no more rows

streamVars == <<total, delivered, ended>>

\* Row number n of the result set.
RowNumber(n) == [c \in Columns |-> n]

StreamInit == total \in 0..MaxTotal /\ delivered = <<>> /\ ended = FALSE

\* The result set is fixed when the query is executed.
Execute ==
  /\ delivered = <<>> /\ ~ended
  /\ total' \in 0..MaxTotal
  /\ UNCHANGED <<delivered, ended>>

Deliver ==
  /\ ~ended /\ Len(delivered) < total
  /\ delivered' = Append(delivered, RowNumber(Len(delivered) + 1))
  /\ UNCHANGED <<total, ended>>

End ==
  /\ ~ended /\ Len(delivered) = total
  /\ ended' = TRUE
  /\ UNCHANGED <<total, delivered>>

StreamSpec == StreamInit /\ [][Execute \/ Deliver \/ End]_streamVars
=============================================================================
