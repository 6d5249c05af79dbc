-------------------------- MODULE DataRequestProofs --------------------------
(***************************************************************************)
(* Type correctness of DataRequest, for every number of columns, rows and  *)
(* copies and every set of faults, and on it that the values handed out    *)
(* are of the rows they are read for.  The types alone are not inductive:  *)
(* the request reads NCols buffers while the cursor carries its own number *)
(* of columns, so TypeInv adds to them, in CursorInv, that the cursor has  *)
(* the shape of the result set from the query on.  The lemmas go from the  *)
(* cursor (SQLTypeConnector) over the connector (ODBCConnector) to the     *)
(* request, one for each group of actions.  The second half is about the   *)
(* connector's end and the rows of the response.                           *)
(***************************************************************************)
EXTENDS DataRequest, TLAPS

\* The unsigned column of setNext does not wrap when the row is short of
\* half the range of a size_t.
LEMMA ModuloOfSmall ==
  ASSUME NEW a \in Nat, NEW b \in Nat \ {0}, a < b
  PROVE  a % b = a
  OBVIOUS

\* d is a cursor over the result set of c.
SameShape(c, d) ==
  d \in Cursor /\ d.cols = c.cols /\ d.rows = c.rows

\* setNext(1), the only step the handlers take: to the next column, to the
\* first column of the next row, or one past the end of the result set.
LEMMA SetNextOne ==
  ASSUME NEW c \in Cursor, c.cols = NCols, c.col <= NCols
  PROVE  /\ SameShape(c, SetNext(c, 1).cur)
         /\ c.col + 1 < NCols =>
              /\ SetNext(c, 1).ret = 0
              /\ SetNext(c, 1).cur.col = c.col + 1
              /\ SetNext(c, 1).cur.row = c.row
              /\ SetNext(c, 1).cur.notEnd <=> c.notEnd
         /\ c.col + 1 >= NCols /\ c.row + 1 < c.rows =>
              /\ SetNext(c, 1).ret = 1
              /\ SetNext(c, 1).cur.col = (c.col + 1) - NCols
              /\ SetNext(c, 1).cur.row = c.row + 1
              /\ SetNext(c, 1).cur.notEnd <=> c.notEnd
         /\ c.col + 1 >= NCols /\ c.row + 1 >= c.rows =>
              /\ SetNext(c, 1).ret = c.rows
              /\ SetNext(c, 1).cur.col = NCols
              /\ SetNext(c, 1).cur.row = c.rows
              /\ ~SetNext(c, 1).cur.notEnd
<1>1. /\ NCols \in Nat \ {0} /\ SizeMax \in Nat \ {0}
      /\ c.col + 1 < SizeMax /\ c.col \in Nat /\ c.row \in Nat /\ c.rows \in Nat
  BY ConnectorAssumption, SizeAssumption DEF Cursor
<1>2. SkipRows(c, 1) = [cur |-> c, ret |-> 0] /\ LeftOver(c, 1) = 1
  BY <1>1 DEF SkipRows, LeftOver
<1>3. (c.col + 1) % SizeMax = c.col + 1
  BY <1>1, ModuloOfSmall
<1>4. SetNext(c, 1) = Settle(c, c.col + 1, 0)
  BY <1>2, <1>3 DEF SetNext, NewColumn
<1>5. CASE c.col + 1 < NCols
  <2>1. SetNext(c, 1) = [cur |-> [c EXCEPT !.col = c.col + 1], ret |-> 0]
    BY <1>4, <1>5 DEF Settle
  <2> QED
    BY <1>1, <1>5, <2>1 DEF SameShape, Cursor
<1>6. CASE c.col + 1 >= NCols /\ c.row + 1 < c.rows
  <2>1. SetRow(c, 1) = [cur |-> [c EXCEPT !.row = c.row + 1], ret |-> 1]
    BY <1>1, <1>6 DEF SetRow
  <2>2. SetRow(c, 1).ret # c.rows
    BY <1>1, <1>6, <2>1
  <2>3. ~(c.col + 1 < c.cols)
    BY <1>1, <1>6
  <2>4. SetNext(c, 1) = [cur |-> [SetRow(c, 1).cur EXCEPT
                                    !.col = (c.col + 1) - c.cols],
                         ret |-> 0 + 1]
    BY <1>4, <2>2, <2>3 DEF Settle
  <2>5. /\ SetNext(c, 1).ret = 1
        /\ SetNext(c, 1).cur = [SetRow(c, 1).cur EXCEPT !.col = (c.col + 1) - c.cols]
    BY <2>4
  <2>6. SetRow(c, 1).cur = [c EXCEPT !.row = c.row + 1]
    BY <2>1
  <2>7. SetRow(c, 1).cur \in Cursor /\ (c.col + 1) - c.cols \in Nat
    BY <1>1, <1>6, <2>6 DEF Cursor
  <2>8. /\ SetRow(c, 1).cur.row = c.row + 1 /\ SetRow(c, 1).cur.cols = c.cols
        /\ SetRow(c, 1).cur.rows = c.rows
        /\ SetRow(c, 1).cur.notEnd <=> c.notEnd
    BY <2>6 DEF Cursor
  <2>9. /\ SetNext(c, 1).cur \in Cursor
        /\ SetNext(c, 1).cur.row = SetRow(c, 1).cur.row
        /\ SetNext(c, 1).cur.cols = SetRow(c, 1).cur.cols
        /\ SetNext(c, 1).cur.rows = SetRow(c, 1).cur.rows
        /\ SetNext(c, 1).cur.notEnd <=> SetRow(c, 1).cur.notEnd
        /\ SetNext(c, 1).cur.col = (c.col + 1) - c.cols
    BY <2>5, <2>7 DEF Cursor
  <2>10. SameShape(c, SetNext(c, 1).cur)
    BY <2>8, <2>9 DEF SameShape
  <2>11. /\ SetNext(c, 1).ret = 1 /\ SetNext(c, 1).cur.col = (c.col + 1) - NCols
         /\ SetNext(c, 1).cur.row = c.row + 1
         /\ SetNext(c, 1).cur.notEnd <=> c.notEnd
    BY <2>5, <2>8, <2>9
  <2>12. ~(c.col + 1 < NCols) /\ ~(c.row + 1 >= c.rows)
    BY <1>1, <1>6
  <2> QED
    BY <1>1, <1>6, <2>10, <2>11
<1>7. CASE c.col + 1 >= NCols /\ c.row + 1 >= c.rows
  <2>1. SetNext(c, 1) = [cur |-> AtEnd(c), ret |-> c.rows]
    BY <1>1, <1>4, <1>7 DEF SetRow, Settle
  <2>2. SetNext(c, 1).cur = AtEnd(c) /\ SetNext(c, 1).ret = c.rows
    BY <2>1
  <2>3. /\ AtEnd(c) \in Cursor /\ AtEnd(c).col = c.cols /\ AtEnd(c).row = c.rows
        /\ AtEnd(c).cols = c.cols /\ AtEnd(c).rows = c.rows /\ ~AtEnd(c).notEnd
    BY DEF AtEnd, Cursor
  <2>4. SameShape(c, SetNext(c, 1).cur)
    BY <2>2, <2>3 DEF SameShape
  <2> QED
    BY <1>1, <1>7, <2>2, <2>3, <2>4
<1>8. \/ c.col + 1 < NCols
      \/ c.col + 1 >= NCols /\ c.row + 1 < c.rows
      \/ c.col + 1 >= NCols /\ c.row + 1 >= c.rows
  BY <1>1
<1> QED
  BY <1>5, <1>6, <1>7, <1>8

\* reset() puts the cursor on the first element and keeps its size.
LEMMA ResetFacts ==
  ASSUME NEW c \in Cursor
  PROVE  /\ SameShape(c, Reset(c))
         /\ Reset(c).col = 0 /\ Reset(c).row = 0
         /\ c.cols # 0 => Reset(c).notEnd
  BY DEF Reset, SameShape, Cursor

-----------------------------------------------------------------------------
(* Each step of the connector keeps the types of its variables.            *)

\* setNext and reset on their own: only the cursor changes.
LEMMA CursorMove ==
  ASSUME ConnectorTypeOK, NEW d \in Cursor, d.col <= d.cols, d.row <= d.rows,
         cur' = d,
         UNCHANGED <<db, driverVars, rc, ready, counted, toFetch, buf, out>>
  PROVE  ConnectorTypeOK'
  BY DEF ConnectorTypeOK, driverVars

\* The cursor reset() leaves is inside the result set.
LEMMA ResetType ==
  ASSUME ConnectorTypeOK
  PROVE  /\ Reset(cur) \in Cursor
         /\ Reset(cur).col <= Reset(cur).cols /\ Reset(cur).row <= Reset(cur).rows
         /\ Reset(cur).cols = cur.cols /\ Reset(cur).rows = cur.rows
         /\ Reset(cur).col = 0 /\ Reset(cur).row = 0
  BY ResetFacts DEF ConnectorTypeOK, SameShape, Cursor

\* setNext from any column, as the builders call it twice for a placeholder.
LEMMA AnyPassType ==
  ASSUME NEW c \in Cursor, c.cols = NCols, c.col <= NCols, c.row <= c.rows
  PROVE  /\ SetNext(c, 1).cur \in Cursor
         /\ SetNext(c, 1).cur.col <= SetNext(c, 1).cur.cols
         /\ SetNext(c, 1).cur.row <= SetNext(c, 1).cur.rows
         /\ SetNext(c, 1).cur.cols = NCols
         /\ SetNext(c, 1).cur.rows = c.rows
         /\ (c.notEnd => c.col < NCols) =>
              (SetNext(c, 1).cur.notEnd => SetNext(c, 1).cur.col < NCols)
         /\ SetNext(c, 1).ret \in Nat
<1>1. NCols \in Nat \ {0} /\ c.col \in Nat /\ c.row \in Nat /\ c.rows \in Nat
  BY ConnectorAssumption DEF Cursor
<1>2. CASE c.col + 1 < NCols
  BY <1>1, <1>2, SetNextOne DEF SameShape
<1>3. CASE c.col + 1 >= NCols /\ c.row + 1 < c.rows
  BY <1>1, <1>3, SetNextOne DEF SameShape
<1>4. CASE c.col + 1 >= NCols /\ c.row + 1 >= c.rows
  BY <1>1, <1>4, SetNextOne DEF SameShape
<1>5. \/ c.col + 1 < NCols
      \/ c.col + 1 >= NCols /\ c.row + 1 < c.rows
      \/ c.col + 1 >= NCols /\ c.row + 1 >= c.rows
  BY <1>1
<1> QED
  BY <1>2, <1>3, <1>4, <1>5

\* setNext from the cursor of the connector.
LEMMA PassType ==
  ASSUME ConnectorTypeOK, cur.cols = NCols
  PROVE  /\ SetNext(cur, 1).cur \in Cursor
         /\ SetNext(cur, 1).cur.col <= SetNext(cur, 1).cur.cols
         /\ SetNext(cur, 1).cur.row <= SetNext(cur, 1).cur.rows
         /\ SetNext(cur, 1).cur.cols = NCols
         /\ SetNext(cur, 1).cur.rows = cur.rows
         /\ (cur.notEnd => cur.col < NCols) =>
              (SetNext(cur, 1).cur.notEnd => SetNext(cur, 1).cur.col < NCols)
         /\ SetNext(cur, 1).ret \in Nat
  BY AnyPassType DEF ConnectorTypeOK

\* connect(), whether or not SQLConnect succeeds.
LEMMA ConnectType ==
  ASSUME ConnectorTypeOK, Connect
  PROVE  ConnectorTypeOK' /\ ~ready'
<1>1. cur' \in Cursor /\ cur'.col <= cur'.cols /\ cur'.row <= cur'.rows
  BY ResetType DEF ConnectorTypeOK, Connect
<1>2. buf' \in [Columns -> Nat]
  BY DEF Connect, NoBuffers, Zeros
<1>3. rc' \in {"success", "nodata", "error"} /\ alive' \in BOOLEAN
  BY DEF Connect
<1> QED
  BY <1>1, <1>2, <1>3 DEF ConnectorTypeOK, Connect

\* query() up to the answer of the COUNT statement.
LEMMA QueryCountType ==
  ASSUME ConnectorTypeOK, QueryCount, cur.row = 0
  PROVE  ConnectorTypeOK' /\ ~ready' /\ cur'.row = 0
         /\ cur'.col = (IF ready THEN 0 ELSE cur.col)
<1> DEFINE base == IF ready THEN Reset(cur) ELSE cur
<1>1. base \in Cursor /\ base.col <= base.cols /\ base.row = 0
  BY ResetType DEF ConnectorTypeOK
<1>2. CountOf(db) \in Nat
  BY DEF ConnectorTypeOK, CountOf
<1>3. cur' = [base EXCEPT !.rows = CountOf(db)]
  BY DEF QueryCount
<1>4. /\ cur' \in Cursor /\ cur'.col <= cur'.cols /\ cur'.row <= cur'.rows
      /\ cur'.row = 0 /\ cur'.col = base.col
  BY <1>1, <1>2, <1>3 DEF Cursor
<1> QED
  BY <1>1, <1>4, ResetType
     DEF ConnectorTypeOK, QueryCount, driverVars, NoBuffers, Columns, Zeros

\* getRowCount() throws.
LEMMA QueryCountFailsType ==
  ASSUME ConnectorTypeOK, QueryCountFails
  PROVE  ConnectorTypeOK' /\ ~ready'
  BY ResetType DEF ConnectorTypeOK, QueryCountFails, driverVars, NoBuffers, Columns, Zeros

\* query() from the SELECT on sizes the cursor like the result set.
LEMMA QueryExecType ==
  ASSUME ConnectorTypeOK, QueryExec
  PROVE  /\ ConnectorTypeOK' /\ cur'.cols = NCols /\ cur'.rows = cur.rows
         /\ cur'.col = 0 /\ cur'.row = 0
<1>1. NCols \in Nat
  BY ConnectorAssumption
<1>2. [cur EXCEPT !.cols = NCols] \in Cursor
  BY <1>1 DEF ConnectorTypeOK, Cursor
<1>3. /\ SameShape([cur EXCEPT !.cols = NCols], cur') /\ cur'.col = 0 /\ cur'.row = 0
  BY <1>2, ResetFacts DEF QueryExec
<1>4. cur' \in Cursor /\ cur'.cols = NCols /\ cur'.rows = cur.rows
  BY <1>3 DEF SameShape, ConnectorTypeOK, Cursor
<1>5. cur'.col <= cur'.cols /\ cur'.row <= cur'.rows
  BY <1>1, <1>3, <1>4 DEF Cursor
<1> QED
  BY <1>3, <1>4, <1>5
     DEF ConnectorTypeOK, QueryExec, RowsToFetchFirst, NoBuffers, Columns, Zeros

\* The SELECT is refused, or its columns cannot be sized, typed or bound.
LEMMA QueryExecFailsType ==
  ASSUME ConnectorTypeOK, QueryExecFails \/ QueryColumnsFail, cur.col = 0
  PROVE  ConnectorTypeOK' /\ ready' = ready /\ (cur'.cols = cur.cols \/ cur'.cols = NCols)
<1>1. NCols \in Nat
  BY ConnectorAssumption
<1>2. CASE UNCHANGED cur
  BY <1>2 DEF ConnectorTypeOK, QueryExecFails, QueryColumnsFail, LeaveQuery
<1>3. CASE cur' = [cur EXCEPT !.cols = NCols]
  <2>1. /\ cur' \in Cursor /\ cur'.col <= cur'.cols /\ cur'.row <= cur'.rows
        /\ cur'.cols = NCols
    BY <1>1, <1>3 DEF ConnectorTypeOK, Cursor
  <2> QED
    BY <2>1 DEF ConnectorTypeOK, QueryExecFails, QueryColumnsFail, LeaveQuery
<1> QED
  BY <1>2, <1>3 DEF QueryExecFails, QueryColumnsFail

\* close() leaves the connector not ready and the cursor reset.
LEMMA CloseType ==
  ASSUME ConnectorTypeOK, NEW diagnosed \in BOOLEAN, CloseThen(diagnosed)
  PROVE  ConnectorTypeOK' /\ ~ready' /\ cur' = Reset(cur)
  BY ResetType DEF ConnectorTypeOK, CloseThen, NoBuffers, Columns, Zeros

\* fetch() changes the buffers and the driver's position only.
LEMMA FetchType ==
  ASSUME ConnectorTypeOK, NEW n \in Nat, FetchRows(n)
  PROVE  /\ buf' \in [Columns -> Nat] /\ pos' \in Nat
         /\ rc' \in {"success", "nodata", "error"}
<1> DEFINE last == IF pos + n < result THEN pos + n ELSE result
<1>1. last \in Nat /\ Wild \in Nat
  BY ConnectorAssumption DEF ConnectorTypeOK, Wild
<1>2. \A nulls : Fetched(buf, last, nulls) \in [Columns -> Nat]
  BY <1>1 DEF Fetched
<1> QED
  BY <1>1, <1>2 DEF FetchRows, ConnectorTypeOK

\* getNext(): the buffer read is one of the result set's columns.
LEMMA GetNextType ==
  ASSUME ConnectorTypeOK, IndexInBounds, cur.cols = NCols, GetNext
  PROVE  /\ ConnectorTypeOK' /\ ready' = ready /\ cur' = SetNext(cur, 1).cur
         /\ cur.notEnd /\ cur.col \in Columns
<1>1. toFetch \in Nat /\ FetchRows(toFetch)
  BY DEF ConnectorTypeOK, GetNext
<1>2. /\ buf' \in [Columns -> Nat] /\ pos' \in Nat
      /\ rc' \in {"success", "nodata", "error"}
  BY <1>1, FetchType
<1>3. cur.col \in Columns /\ cur.notEnd
  BY ConnectorAssumption
     DEF GetNext, CanGetNext, IndexInBounds, Columns, ConnectorTypeOK, Cursor
<1>4. out' \in [row : Nat, col : Nat, val : Nat, given : BOOLEAN]
  BY <1>2, <1>3 DEF GetNext, ConnectorTypeOK, Cursor
<1>5. toFetch' \in Nat
  BY PassType DEF GetNext, RowsToSkip
<1>6. cur' \in Cursor /\ cur'.col <= cur'.cols /\ cur'.row <= cur'.rows
  BY PassType DEF GetNext
<1> QED
  BY <1>2, <1>3, <1>4, <1>5, <1>6 DEF GetNext, ConnectorTypeOK

-----------------------------------------------------------------------------
(* TypeInv: the initial states, then one lemma for each group of actions.  *)

\* The initial states.
LEMMA TypeInit == RequestInit => TypeInv
<1> SUFFICES ASSUME RequestInit PROVE TypeInv
  OBVIOUS
<1>1. db \in [match : Nat, uncounted : Nat]
  BY ConnectorAssumption DEF RequestInit, ConnectorInit
<1>2. NewCursor \in Cursor
  BY DEF NewCursor, Cursor
<1>3. ConnectorTypeOK
  <2>1. cur \in Cursor /\ cur.col <= cur.cols /\ cur.row <= cur.rows
    BY <1>2 DEF RequestInit, ConnectorInit, NewCursor
  <2>2. buf \in [Columns -> Nat]
    BY DEF RequestInit, ConnectorInit, NoBuffers, Zeros
  <2>3. out \in [row : Nat, col : Nat, val : Nat, given : BOOLEAN]
    BY DEF RequestInit, ConnectorInit, NoValue, Zeros
  <2> QED
    BY <1>1, <2>1, <2>2, <2>3 DEF RequestInit, ConnectorInit, ConnectorTypeOK
<1>4. /\ described \in Seq(0..NCols) /\ Len(described) <= NCols
      /\ owners \in 0..MaxOwners /\ var \in 0..NCols
  BY ConnectorAssumption, RequestAssumption DEF RequestInit
<1>5. RequestTypeOK
  BY <1>3, <1>4 DEF RequestInit, RequestTypeOK
<1>6. CursorInv
  BY DEF RequestInit, ConnectorInit, CursorInv, NewCursor, IndexInBounds
<1> QED
  BY <1>5, <1>6 DEF TypeInv

\* Steps that leave the connector alone.
LEMMA TypeQuiet ==
  ASSUME TypeInv, UNCHANGED connectorVars,
         pc' \in {"queried", "describe", "hold", "read", "row"} =>
           pc \in {"queried", "describe", "hold", "read", "row"},
         pc' \notin {"start", "connected", "counted"}
  PROVE  ConnectorTypeOK' /\ CursorInv'
  BY DEF TypeInv, RequestTypeOK, ConnectorTypeOK, CursorInv, IndexInBounds,
         connectorVars

\* Steps after which the connector is closed.
LEMMA TypeClosed ==
  ASSUME TypeInv, NEW diagnosed \in BOOLEAN, CloseThen(diagnosed),
         pc' \in {"queried", "describe", "hold", "read", "row"} =>
           pc \in {"queried", "describe", "hold", "read", "row"},
         pc' \notin {"start", "connected", "counted"}
  PROVE  ConnectorTypeOK' /\ CursorInv'
  BY CloseType, ResetType DEF TypeInv, RequestTypeOK, CursorInv, IndexInBounds

\* Steps that only move the cursor, of a result set that is there.
LEMMA TypeMoved ==
  ASSUME TypeInv, NEW d \in Cursor, d.col <= d.cols, d.row <= d.rows,
         d.cols = NCols, ready /\ d.notEnd => d.col < NCols,
         cur' = d,
         UNCHANGED <<db, driverVars, rc, ready, counted, toFetch, buf, out>>,
         pc' \notin {"start", "connected", "counted"}
  PROVE  ConnectorTypeOK' /\ CursorInv'
  BY CursorMove DEF TypeInv, RequestTypeOK, CursorInv, IndexInBounds

\* reset() of a cursor that has the columns of the result set.
LEMMA MovedByReset ==
  ASSUME TypeInv, cur.cols = NCols
  PROVE  /\ Reset(cur) \in Cursor /\ Reset(cur).col <= Reset(cur).cols
         /\ Reset(cur).row <= Reset(cur).rows /\ Reset(cur).cols = NCols
         /\ Reset(cur).col < NCols
  BY ResetType, ConnectorAssumption DEF TypeInv, RequestTypeOK

\* connect, query and their failures.
LEMMA TypeQuery ==
  ASSUME TypeInv, StartConnect \/ Count \/ Execute \/ Unwind
  PROVE  TypeInv'
<1>0. ThrowBesError => /\ pc' \in {"unwind", "failed"}
                       /\ UNCHANGED <<kind, described, owners, var, row, delivered,
                                      discarded, ended>>
  BY DEF ThrowBesError, Goto
<1>1. CASE StartConnect
  <2>1. ConnectorTypeOK' /\ ~ready'
    BY <1>1, ConnectType DEF StartConnect, TypeInv, RequestTypeOK
  <2>2. cur'.row = 0 /\ cur'.col = 0
    BY <1>1, ResetType DEF StartConnect, Connect, TypeInv, RequestTypeOK, CursorInv
  <2>3. pc' \in {"connected", "unwind"}
    BY <1>1 DEF StartConnect, Goto
  <2> QED
    BY <1>1, <2>1, <2>2, <2>3
       DEF StartConnect, Goto, TypeInv, RequestTypeOK, CursorInv, IndexInBounds
<1>2. CASE pc = "connected" /\ QueryCount /\ Goto("counted")
  <2>1. cur.row = 0 /\ cur.col = 0
    BY <1>2 DEF TypeInv, CursorInv
  <2>2. ConnectorTypeOK' /\ ~ready' /\ cur'.row = 0 /\ cur'.col = 0
    BY <1>2, <2>1, QueryCountType DEF TypeInv, RequestTypeOK
  <2> QED
    BY <1>2, <2>2 DEF Goto, TypeInv, RequestTypeOK, CursorInv, IndexInBounds
<1>3. CASE pc = "connected" /\ QueryCountFails /\ ThrowBesError
  <2>1. ConnectorTypeOK' /\ ~ready'
    BY <1>3, QueryCountFailsType DEF TypeInv, RequestTypeOK
  <2> QED
    BY <1>0, <1>3, <2>1 DEF TypeInv, RequestTypeOK, CursorInv, IndexInBounds
<1>4. CASE pc = "counted" /\ QueryExec
           /\ Goto(IF Raises("query")' THEN "unwind" ELSE "queried")
  <2>1. ConnectorTypeOK' /\ cur'.cols = NCols /\ cur'.col = 0 /\ cur'.row = 0
    BY <1>4, QueryExecType DEF TypeInv, RequestTypeOK
  <2>2. 0 < NCols
    BY ConnectorAssumption
  <2>3. pc' \in {"unwind", "queried"}
    BY <1>4 DEF Goto
  <2> QED
    BY <1>4, <2>1, <2>2, <2>3
       DEF Goto, TypeInv, RequestTypeOK, CursorInv, IndexInBounds
<1>5. CASE /\ pc = "counted"
           /\ QueryExecFails \/ QueryColumnsFail
           /\ ThrowBesError \/ Goto("unwind")
  <2>1. /\ ConnectorTypeOK' /\ ready' = ready
        /\ cur'.cols = cur.cols \/ cur'.cols = NCols
    BY <1>5, QueryExecFailsType DEF TypeInv, RequestTypeOK, CursorInv
  <2>2. cur'.col = 0
    BY <1>5 DEF QueryExecFails, QueryColumnsFail, TypeInv, RequestTypeOK,
                ConnectorTypeOK, CursorInv, Cursor
  <2>3. ready => cur'.cols = NCols
    BY <2>1 DEF TypeInv, CursorInv
  <2>4. 0 < NCols
    BY ConnectorAssumption
  <2>5. /\ pc' \in {"unwind", "failed"}
        /\ UNCHANGED <<kind, described, owners, var, row, delivered, discarded,
                       ended>>
    BY <1>0, <1>5 DEF Goto
  <2> QED
    BY <2>1, <2>2, <2>3, <2>4, <2>5
       DEF TypeInv, RequestTypeOK, CursorInv, IndexInBounds
<1>6. CASE Unwind
  <2>1. ConnectorTypeOK' /\ CursorInv'
    BY <1>6, TypeClosed DEF Unwind, AfterUnwind, Close, Goto
  <2> QED
    BY <1>6, <2>1 DEF Unwind, Goto, TypeInv, RequestTypeOK
<1> QED
  BY <1>1, <1>2, <1>3, <1>4, <1>5, <1>6 DEF Count, Execute

\* The builders' loop over the columns and what ends it.
LEMMA TypeDescribe ==
  ASSUME TypeInv,
         \/ RefuseDas \/ RefuseResponse \/ BeginDescribe \/ DescribeColumn
         \/ DescribePlaceholder \/ UnsupportedType \/ OldCodeRaises
         \/ DescriptionFails
         \/ EndDescribe \/ CloseDas
  PROVE  TypeInv'
<1>1. NCols \in Nat \ {0} /\ ConnectorTypeOK /\ Len(described) \in Nat
  BY ConnectorAssumption DEF TypeInv, RequestTypeOK
<1>2. CASE RefuseDas \/ RefuseResponse
  BY <1>2, TypeQuiet DEF RefuseDas, RefuseResponse, Goto, TypeInv, RequestTypeOK
<1>3. CASE BeginDescribe
  <2>1. cur.cols = NCols
    BY <1>3 DEF BeginDescribe, TypeInv, CursorInv
  <2>2. ConnectorTypeOK' /\ CursorInv'
    BY <1>3, <2>1, MovedByReset, TypeMoved DEF BeginDescribe, ResetCursor, Goto
  <2> QED
    BY <1>3, <2>2 DEF BeginDescribe, Goto, TypeInv, RequestTypeOK
<1>4. ASSUME pc = "describe" /\ pc' = "describe"
      PROVE  /\ PassColumn => ConnectorTypeOK' /\ CursorInv'
             /\ \A b : PassAndDescribe(b) => ConnectorTypeOK' /\ CursorInv'
             /\ PassTwice => ConnectorTypeOK' /\ CursorInv'
  <2>1. cur.cols = NCols /\ (ready => (cur.notEnd => cur.col < NCols))
    BY <1>4 DEF TypeInv, CursorInv, IndexInBounds
  <2> DEFINE one == SetNext(cur, 1).cur
  <2>2. /\ one \in Cursor /\ one.col <= one.cols /\ one.row <= one.rows
        /\ one.cols = NCols /\ (ready => (one.notEnd => one.col < NCols))
    BY <1>1, <2>1, PassType
  <2>3. CASE PassColumn
    BY <1>4, <2>2, <2>3, TypeMoved DEF PassColumn
  <2>4. CASE PassTwice
    <3>1. one \in Cursor /\ one.cols = NCols /\ one.col <= NCols
      BY <2>2
    <3> DEFINE two == SetNext(one, 1).cur
    <3>2. /\ two \in Cursor /\ two.col <= two.cols /\ two.row <= two.rows
          /\ two.cols = NCols /\ (ready => (two.notEnd => two.col < NCols))
      BY <1>1, <2>2, <3>1, AnyPassType
    <3> QED
      BY <1>4, <2>4, <3>2, TypeMoved DEF PassTwice
  <2>5. ASSUME NEW b, PassAndDescribe(b) PROVE ConnectorTypeOK' /\ CursorInv'
    <3>1. cur' = one /\ rc' \in {"success", "nodata", "error"}
      BY <2>5 DEF PassAndDescribe, CodesLeft
    <3> QED
      BY <1>1, <1>4, <2>2, <2>5, <3>1
         DEF PassAndDescribe, ConnectorTypeOK, CursorInv, IndexInBounds, driverVars
  <2> QED
    BY <2>3, <2>4, <2>5
<1>5. CASE DescribeColumn
  <2>1. described' \in Seq(0..NCols) /\ Len(described') <= NCols
    <3>1. cur.col \in 0..NCols
      BY <1>1, <1>5 DEF DescribeColumn, AtColumn, ConnectorTypeOK, Cursor
    <3> QED
      BY <1>1, <1>5, <3>1
         DEF DescribeColumn, AtColumn, Describing, DescribeAs, TypeInv, RequestTypeOK
  <2>2. ConnectorTypeOK' /\ CursorInv'
    BY <1>4, <1>5 DEF DescribeColumn, AtColumn, Describing, DescribeAs
  <2> QED
    BY <1>5, <2>1, <2>2
       DEF DescribeColumn, AtColumn, Describing, DescribeAs, TypeInv, RequestTypeOK
<1>6. CASE DescribePlaceholder
  <2>1. described' \in Seq(0..NCols) /\ Len(described') <= NCols
    <3>1. Dummy \in 0..NCols
      BY <1>1 DEF Dummy
    <3> QED
      BY <1>1, <1>6, <3>1
         DEF DescribePlaceholder, Describing, DescribeAs, TypeInv, RequestTypeOK
  <2>2. PassColumn \/ PassTwice \/ UNCHANGED connectorVars
    BY <1>6 DEF DescribePlaceholder
  <2>3. ConnectorTypeOK' /\ CursorInv'
    BY <1>4, <1>6, <2>2, TypeQuiet
       DEF DescribePlaceholder, Describing, DescribeAs
  <2> QED
    BY <1>6, <2>1, <2>3
       DEF DescribePlaceholder, Describing, DescribeAs, TypeInv, RequestTypeOK
<1>7. CASE UnsupportedType
  BY <1>7, TypeQuiet DEF UnsupportedType, Goto, TypeInv, RequestTypeOK
<1>8. CASE OldCodeRaises \/ DescriptionFails
  <2>1. cur.cols = NCols /\ (ready => (cur.notEnd => cur.col < NCols))
    BY <1>8 DEF OldCodeRaises, DescriptionFails, AtColumn, Describing, TypeInv, CursorInv, IndexInBounds
  <2>2. ConnectorTypeOK' /\ CursorInv'
    BY <1>1, <1>8, <2>1, PassType, TypeMoved
       DEF OldCodeRaises, DescriptionFails, AtColumn, Describing, PassColumn, Goto
  <2> QED
    BY <1>8, <2>2 DEF OldCodeRaises, DescriptionFails, Goto, TypeInv, RequestTypeOK
<1>9. CASE EndDescribe
  <2>1. cur.cols = NCols
    BY <1>9 DEF EndDescribe, TypeInv, CursorInv
  <2>2. pc' \in {"close", "hold", "read"} /\ owners' \in 0..MaxOwners
    BY <1>9, RequestAssumption DEF EndDescribe, TypeInv, RequestTypeOK
  <2>3. CASE cur' = cur
    <3>1. UNCHANGED connectorVars
      BY <1>9, <2>3 DEF EndDescribe, connectorVars, driverVars
    <3> QED
      BY <1>9, <2>2, <3>1, TypeQuiet DEF EndDescribe, TypeInv, RequestTypeOK
  <2>4. CASE cur' = Reset(cur)
    <3>1. ConnectorTypeOK' /\ CursorInv'
      BY <1>9, <2>1, <2>2, <2>4, MovedByReset, TypeMoved DEF EndDescribe
    <3> QED
      BY <1>9, <2>2, <3>1 DEF EndDescribe, TypeInv, RequestTypeOK
  <2> QED
    BY <1>9, <2>3, <2>4 DEF EndDescribe, StartOfRows
<1>10. CASE CloseDas
  <2>1. ConnectorTypeOK' /\ CursorInv'
    <3>1. Raises("close") \in BOOLEAN
      BY DEF Raises
    <3> QED
      BY <1>10, <3>1, TypeClosed DEF CloseDas, Goto
  <2> QED
    BY <1>10, <2>1 DEF CloseDas, Goto, TypeInv, RequestTypeOK
<1> QED
  BY <1>2, <1>3, <1>5, <1>6, <1>7, <1>8, <1>9, <1>10

\* One instance of the sequence is destroyed, the last one with a close.
LEMMA TypeDestroy ==
  ASSUME TypeInv, NEW next \in {"done", "failed"}, DestroySequence(next),
         pc \in {"hold", "read", "release", "abandon"}
  PROVE  TypeInv'
<1>1. MaxOwners \in Nat /\ owners \in 0..MaxOwners /\ owners > 0
  BY RequestAssumption DEF DestroySequence, TypeInv, RequestTypeOK
<1>2. owners' \in 0..MaxOwners /\ pc' \in {pc, next}
  BY <1>1 DEF DestroySequence
<1>3. ConnectorTypeOK' /\ CursorInv'
  <2>1. CASE Close
    BY <1>2, <2>1, TypeClosed DEF Close
  <2>2. CASE UNCHANGED connectorVars
    BY <1>2, <2>2, TypeQuiet
  <2> QED
    BY <2>1, <2>2 DEF DestroySequence
<1> QED
  BY <1>2, <1>3 DEF DestroySequence, TypeInv, RequestTypeOK

\* The steps of SQLSequence that leave the connector alone.
LEMMA TypeWait ==
  ASSUME TypeInv,
         \/ SendDds \/ StartRow \/ EndOfSequence \/ StopReading
         \/ SkipVariable \/ ReadPlaceholder \/ RowRead
  PROVE  TypeInv'
<1>1. ConnectorTypeOK' /\ CursorInv'
  BY TypeQuiet DEF SendDds, StartRow, EndOfSequence, StopReading, SkipVariable,
                   ReadPlaceholder, RowRead, AtVariable, Goto
<1>2. NCols \in Nat
  BY ConnectorAssumption
<1>3. var' \in 0..NCols /\ DOMAIN row' \subseteq Columns
  BY <1>2 DEF SendDds, StartRow, EndOfSequence, StopReading, SkipVariable,
              ReadPlaceholder, RowRead, AtVariable, Goto, TypeInv, RequestTypeOK
<1> QED
  BY <1>1, <1>3 DEF SendDds, StartRow, EndOfSequence, StopReading, SkipVariable,
              ReadPlaceholder, RowRead, AtVariable, Goto, TypeInv, RequestTypeOK

\* The steps of SQLSequence that use the connector.
LEMMA TypeRead ==
  ASSUME TypeInv, CopySequence \/ TraceVariable \/ ReadVariable \/ ReadFails
  PROVE  TypeInv'
<1>1. NCols \in Nat /\ MaxOwners \in Nat
  BY ConnectorAssumption, RequestAssumption
<1>2. CASE CopySequence
  <2>1. cur.cols = NCols /\ owners' \in 0..MaxOwners
    BY <1>1, <1>2 DEF CopySequence, TypeInv, RequestTypeOK, CursorInv
  <2>2. ConnectorTypeOK' /\ CursorInv'
    <3>1. CASE cur' = cur
      <4>1. UNCHANGED connectorVars
        BY <1>2, <3>1 DEF CopySequence, connectorVars, driverVars
      <4> QED
        BY <1>2, <4>1, TypeQuiet DEF CopySequence
    <3>2. CASE cur' = Reset(cur)
      BY <1>2, <2>1, <3>2, MovedByReset, TypeMoved DEF CopySequence
    <3> QED
      BY <1>2, <3>1, <3>2 DEF CopySequence
  <2> QED
    BY <1>2, <2>1, <2>2 DEF CopySequence, TypeInv, RequestTypeOK
<1>3. CASE TraceVariable \/ ReadVariable
  <2>1. pc = "row" /\ pc' = "row" /\ GetNext /\ var \in 0..NCols /\ var < NCols
    BY <1>3 DEF TraceVariable, ReadVariable, AtVariable, TypeInv, RequestTypeOK
  <2>2. cur.cols = NCols /\ ConnectorTypeOK /\ IndexInBounds
    BY <2>1 DEF TypeInv, CursorInv, RequestTypeOK
  <2>3. /\ ConnectorTypeOK' /\ ready' = ready /\ cur' = SetNext(cur, 1).cur
        /\ cur.notEnd
    BY <2>1, <2>2, GetNextType
  <2>4. CursorInv'
    BY <2>1, <2>2, <2>3, PassType
       DEF CursorInv, IndexInBounds, GetNext, CanGetNext
  <2>5. var' \in 0..NCols /\ DOMAIN row' \subseteq Columns /\ discarded' \in BOOLEAN
    <3>1. CASE TraceVariable
      BY <3>1 DEF TraceVariable, TypeInv, RequestTypeOK
    <3>2. CASE ReadVariable
      <4>1. var \in Columns /\ var' \in 0..NCols
        BY <1>1, <2>1, <3>2 DEF ReadVariable, Columns
      <4>2. DOMAIN row' = DOMAIN row \cup {var}
        BY <3>2 DEF ReadVariable
      <4> QED
        BY <3>2, <4>1, <4>2 DEF ReadVariable, TypeInv, RequestTypeOK
    <3> QED
      BY <1>3, <3>1, <3>2
  <2> QED
    BY <1>3, <2>1, <2>3, <2>4, <2>5
       DEF TraceVariable, ReadVariable, TypeInv, RequestTypeOK
<1>4. CASE ReadFails
  <2>1. ConnectorTypeOK' /\ CursorInv'
    BY <1>4, TypeClosed DEF ReadFails, Close, Goto
  <2> QED
    BY <1>4, <2>1 DEF ReadFails, Goto, TypeInv, RequestTypeOK
<1> QED
  BY <1>2, <1>3, <1>4

\* Another client's commit changes the tables, not the open result set.
LEMMA TypeDatabase ==
  ASSUME TypeInv, DatabaseChanges, UNCHANGED requestVars
  PROVE  TypeInv'
<1>1. db' \in [match : Nat, uncounted : Nat]
  <2>1. db \in [match : Nat, uncounted : Nat]
    BY DEF TypeInv, RequestTypeOK, ConnectorTypeOK
  <2>2. PICK m \in MinRows..MaxRows : db' = [db EXCEPT !.match = m]
    BY DEF DatabaseChanges
  <2>3. m \in Nat
    BY <2>2, ConnectorAssumption
  <2> QED
    BY <2>1, <2>2, <2>3
<1> QED
  BY <1>1 DEF DatabaseChanges, stateVars, driverVars, requestVars, TypeInv,
              RequestTypeOK, ConnectorTypeOK, CursorInv, IndexInBounds

\* Every step of the request and of its environment.
LEMMA TypeStep == TypeInv /\ [Next]_vars => TypeInv'
<1> SUFFICES ASSUME TypeInv, [Next]_vars PROVE TypeInv'
  OBVIOUS
<1>1. CASE RequestStep
  BY <1>1, TypeQuery, TypeDescribe, TypeDestroy, TypeWait, TypeRead
     DEF RequestStep, Release, Abandon
<1>2. CASE Environment
  BY <1>2, TypeDatabase, TypeRead, TypeDestroy, TypeWait
     DEF Environment, DropCopy
<1>3. CASE UNCHANGED vars
  BY <1>3 DEF vars, requestVars, connectorVars, TypeInv, RequestTypeOK,
              ConnectorTypeOK, CursorInv, IndexInBounds
<1> QED
  BY <1>1, <1>2, <1>3 DEF Next

(* The inductive invariant of the types holds in every reachable state.    *)
THEOREM TypeInvariant == Spec => []TypeInv
<1>1. RequestInit => TypeInv
  BY TypeInit
<1>2. TypeInv /\ [Next]_vars => TypeInv'
  BY TypeStep
<1> QED
  BY <1>1, <1>2, PTL DEF Spec

(* Whatever fails and however many columns, rows and copies there are, the *)
(* cursor stays inside its result set or one past its end, at most one     *)
(* variable is described for each column, and every variable has its type. *)
THEOREM TypeCorrect == Spec => []RequestTypeOK
<1>1. TypeInv => RequestTypeOK
  BY DEF TypeInv
<1> QED
  BY <1>1, TypeInvariant, PTL

(* getNext never indexes the bound buffers past their last column, whatever *)
(* fails in the driver or in the builders and whether or not the builder's  *)
(* loop, a reset by a copy or the debug trace has moved the cursor.         *)
THEOREM IndexAlwaysInBounds == Spec => []IndexInBounds
<1>1. TypeInv => IndexInBounds
  BY DEF TypeInv, CursorInv
<1> QED
  BY <1>1, TypeInvariant, PTL

-----------------------------------------------------------------------------
(***************************************************************************)
(* ValueOfItsRow: what getNext hands out belongs to the row the cursor     *)
(* stood on.  getNext fetches before it reads the buffer, and how often    *)
(* was decided when the previous value moved the cursor; so the driver is  *)
(* one row behind the cursor exactly when a fetch is due, which is what    *)
(* FetchInv says, and BufferInv what the buffers hold meanwhile.           *)
(* Resets of the cursor are harmless because nothing has been fetched when *)
(* they happen.  The argument needs two things the code does not see to:   *)
(* a fetch that does not fail (NoFetchFault), and a result set that is not *)
(* empty (NoEmptyResult).                                                  *)
(***************************************************************************)

NoFetchFault == "fetch" \notin Faults
NoEmptyResult == MinRows # 0

\* What StreamInv (DataRequest) adds to the type invariant.
ValueInv == BufferInv /\ FetchInv /\ ValueOfItsRow

Reading == pc \in {"read", "row"}
Fetching == pc \in {"queried", "describe", "hold", "read", "row"}
Untouched == pc \in {"start", "connected", "counted", "queried", "describe",
                     "hold", "unwind"}

\* A fetch is due exactly when the cursor has entered a new row.
Due(c) == pos + toFetch = c.row + 1 /\ c.row < c.rows

(* Steps in which no value changes hands and nothing is fetched: the       *)
(* builders' moves of the cursor and the steps that leave it alone.        *)
LEMMA ValueKept ==
  ASSUME ValueInv, db'.match \in MinRows..MaxRows,
         UNCHANGED <<result, pos, toFetch, buf, out, ready>>,
         cur'.rows = cur.rows,
         Fetching' => Fetching, Untouched' => Untouched, pc' # "counted",
         Reading' /\ ready /\ cur'.notEnd /\ cur.rows <= result => Due(cur')
  PROVE  ValueInv'
  BY DEF ValueInv, BufferInv, FetchInv, ValueOfItsRow, Fetching, Untouched,
         Reading, Due

(* After close() the buffers are empty and nothing is read any more.       *)
LEMMA ValueClosed ==
  ASSUME NEW diagnosed \in BOOLEAN, TypeInv, ValueInv, CloseThen(diagnosed),
         ~Fetching', pc' # "counted",
         Untouched' => Untouched
  PROVE  ValueInv'
<1>1. MaxRows \in Nat /\ ~ready' /\ cur'.rows = cur.rows /\ out' = out
  BY ConnectorAssumption, ResetType DEF CloseThen, TypeInv, RequestTypeOK
<1>2. \A c \in Columns : buf'[c] = 0
  BY DEF CloseThen, NoBuffers, Zeros
<1>3. BufferInv'
  BY <1>1, <1>2 DEF CloseThen, ValueInv, BufferInv, Wild
<1>4. FetchInv'
  BY <1>1 DEF ValueInv, FetchInv, Fetching, Untouched
<1>5. ValueOfItsRow'
  BY <1>1 DEF CloseThen, ValueInv, ValueOfItsRow
<1> QED
  BY <1>3, <1>4, <1>5 DEF ValueInv

(* Before the first value the cursor may be reset: the first row is due.   *)
LEMMA DueAtStart ==
  ASSUME TypeInv, ValueInv, Fetching, ~out.given
  PROVE  Due(Reset(cur)) /\ Reset(cur).rows = cur.rows
<1>1. /\ pos = 0 /\ toFetch = 1 /\ cur.rows > 0
  BY DEF ValueInv, FetchInv, Fetching
<1> QED
  BY <1>1, ResetType DEF Due, TypeInv, RequestTypeOK

(* The initial states: nothing has been fetched.                           *)
LEMMA ValueInit == RequestInit => ValueInv
<1> SUFFICES ASSUME RequestInit PROVE ValueInv
  OBVIOUS
<1>1. MaxRows \in Nat /\ MinRows \in Nat
  BY ConnectorAssumption
<1>2. \A c \in Columns : buf[c] = 0
  BY DEF RequestInit, ConnectorInit, NoBuffers, Zeros
<1>3. BufferInv
  BY <1>1, <1>2 DEF RequestInit, ConnectorInit, BufferInv, Wild
<1>4. FetchInv /\ ValueOfItsRow
  BY DEF RequestInit, ConnectorInit, NoValue, FetchInv, ValueOfItsRow
<1> QED
  BY <1>3, <1>4 DEF ValueInv

(* connect and query: the COUNT statement answers at least one row and the *)
(* execution of the SELECT makes the first row due.                        *)
LEMMA ValueQuery ==
  ASSUME NoEmptyResult, TypeInv, ValueInv,
         StartConnect \/ Count \/ Execute \/ Unwind
  PROVE  ValueInv'
<1>1. /\ MaxRows \in Nat /\ MinRows \in Nat
      /\ db.match \in Nat /\ db.uncounted \in Nat /\ result \in Nat
      /\ cur \in Cursor
  BY ConnectorAssumption DEF TypeInv, RequestTypeOK, ConnectorTypeOK
<1>2. CASE Unwind
  <2>1. Close /\ pc' = "failed"
    BY <1>2 DEF Unwind, AfterUnwind, Goto
  <2> QED
    BY <2>1, ValueClosed DEF Close, Fetching, Untouched
<1>3. ASSUME ~Unwind
      PROVE  ~out.given /\ out' = out /\ db' = db
  BY <1>3 DEF StartConnect, Connect, Count, QueryCount, QueryCountFails,
       Execute, QueryExec, QueryExecFails, QueryColumnsFail, LeaveQuery,
       ValueInv, FetchInv
<1>4. ASSUME ~Unwind
      PROVE  ValueOfItsRow'
  BY <1>3, <1>4 DEF ValueOfItsRow
<1>5. CASE StartConnect
  <2>1. \A c \in Columns : buf'[c] = 0
    BY <1>5 DEF StartConnect, Connect, NoBuffers, Zeros
  <2>2. BufferInv'
    BY <1>1, <1>5, <2>1 DEF StartConnect, Connect, ValueInv, BufferInv, Wild
  <2>3. FetchInv'
    BY <1>5 DEF StartConnect, Connect, Goto, ValueInv, FetchInv
  <2> QED
    BY <1>4, <1>5, <2>2, <2>3 DEF ValueInv, StartConnect, Unwind
<1>6. CASE Count
  <2>1. \A c \in Columns : buf'[c] = 0
    BY <1>6 DEF Count, QueryCount, QueryCountFails, NoBuffers, Zeros
  <2>2. BufferInv'
    BY <1>1, <1>6, <2>1
       DEF Count, QueryCount, QueryCountFails, ValueInv, BufferInv, Wild, driverVars
  <2>3. CASE QueryCount /\ Goto("counted")
    <3>1. CountOf(db) > 0
      BY <1>1 DEF CountOf, NoEmptyResult, ValueInv, BufferInv
    <3>2. cur'.rows = CountOf(db)
      BY <1>1, <2>3, ResetType DEF QueryCount, Cursor, TypeInv, RequestTypeOK
    <3>3. FetchInv'
      BY <1>3, <1>6, <2>3, <3>1, <3>2 DEF Count, Unwind, Goto, FetchInv
    <3> QED
      BY <1>4, <1>6, <2>2, <3>3 DEF ValueInv, Count, Unwind
  <2>4. CASE QueryCountFails /\ ThrowBesError
    <3>1. FetchInv'
      BY <1>3, <1>6, <2>4 DEF Count, Unwind, ThrowBesError, Goto, FetchInv
    <3> QED
      BY <1>4, <1>6, <2>2, <3>1 DEF ValueInv, Count, Unwind
  <2> QED
    BY <1>6, <2>3, <2>4 DEF Count
<1>7. CASE Execute
  <2>1. CASE QueryExec /\ pc' \in {"queried", "unwind"}
    <3>1. \A c \in Columns : buf'[c] = 0
      BY <2>1 DEF QueryExec, NoBuffers, Zeros
    <3>2. BufferInv'
      BY <1>1, <2>1, <3>1 DEF QueryExec, ValueInv, BufferInv, Wild
    <3>3. cur'.rows = cur.rows /\ cur.rows > 0
      BY <1>7, <2>1, QueryExecType DEF Execute, ValueInv, FetchInv, TypeInv, RequestTypeOK
    <3>4. FetchInv'
      BY <1>3, <1>7, <2>1, <3>3
         DEF Execute, Unwind, QueryExec, RowsToFetchFirst, FetchInv
    <3> QED
      BY <1>4, <1>7, <3>2, <3>4 DEF ValueInv, Execute, Unwind
  <2>2. CASE LeaveQuery /\ pc' \in {"failed", "unwind"}
    <3>1. BufferInv'
      BY <2>2 DEF LeaveQuery, ValueInv, BufferInv
    <3>2. FetchInv'
      BY <1>3, <1>7, <2>2 DEF Execute, Unwind, FetchInv
    <3> QED
      BY <1>4, <1>7, <3>1, <3>2 DEF ValueInv, Execute, Unwind
  <2> QED
    BY <1>7, <2>1, <2>2
       DEF Execute, QueryExecFails, QueryColumnsFail, ThrowBesError, Goto
<1> QED
  BY <1>2, <1>5, <1>6, <1>7

(* The builders: whatever they do to the cursor, its size stays and the    *)
(* first row is due again when they have reset it for the reader.          *)
LEMMA ValueDescribe ==
  ASSUME TypeInv, ValueInv,
         \/ RefuseDas \/ RefuseResponse \/ BeginDescribe \/ DescribeColumn
         \/ DescribePlaceholder \/ UnsupportedType \/ OldCodeRaises
         \/ DescriptionFails \/ EndDescribe \/ CloseDas
  PROVE  ValueInv'
<1>1. db.match \in MinRows..MaxRows
  BY DEF ValueInv, BufferInv
<1>2. CASE CloseDas
  <2>1. /\ CloseThen(Raises("close")) /\ Raises("close") \in BOOLEAN
        /\ pc' \in {"done", "failed"}
    BY <1>2 DEF CloseDas, Goto, Raises
  <2> QED
    BY <2>1, ValueClosed DEF Fetching, Untouched
<1>3. CASE RefuseDas \/ RefuseResponse \/ UnsupportedType
  <2>1. UNCHANGED connectorVars /\ pc' \in {"failed", "unwind"}
    BY <1>3 DEF RefuseDas, RefuseResponse, UnsupportedType, Goto
  <2>2. Untouched' => Untouched
    BY <1>3, <2>1 DEF RefuseDas, RefuseResponse, UnsupportedType, Describing,
                      Goto, Untouched
  <2> QED
    BY <1>1, <2>1, <2>2, ValueKept DEF connectorVars, Fetching, Reading
<1>4. CASE BeginDescribe
  <2>1. cur'.rows = cur.rows
    BY <1>4, ResetType DEF BeginDescribe, ResetCursor, TypeInv, RequestTypeOK
  <2> QED
    BY <1>1, <1>4, <2>1, ValueKept
       DEF BeginDescribe, ResetCursor, Goto, Fetching, Reading, Untouched, driverVars
<1>5. CASE \/ DescribeColumn \/ DescribePlaceholder \/ OldCodeRaises
           \/ DescriptionFails
  <2>1. /\ pc = "describe" /\ pc' \in {"describe", "failed", "unwind"}
        /\ cur.cols = NCols
    BY <1>5 DEF DescribeColumn, DescribePlaceholder, OldCodeRaises,
                DescriptionFails, AtColumn, Describing, DescribeAs, Goto, TypeInv, CursorInv
  <2>2. /\ UNCHANGED <<db, result, pos, toFetch, buf, out, ready>>
        /\ \/ cur' = cur \/ cur' = SetNext(cur, 1).cur
           \/ cur' = SetNext(SetNext(cur, 1).cur, 1).cur
    BY <1>5 DEF DescribeColumn, DescribePlaceholder, OldCodeRaises,
                DescriptionFails, PassAndDescribe, PassColumn, PassTwice, connectorVars, driverVars
  <2> DEFINE one == SetNext(cur, 1).cur
  <2>3. one \in Cursor /\ one.cols = NCols /\ one.col <= NCols
        /\ one.row <= one.rows /\ one.rows = cur.rows
    BY <2>1, PassType DEF TypeInv, RequestTypeOK
  <2>4. SetNext(one, 1).cur.rows = cur.rows
    BY <2>3, AnyPassType
  <2>5. cur'.rows = cur.rows
    BY <2>2, <2>3, <2>4
  <2> QED
    BY <1>1, <2>1, <2>2, <2>5, ValueKept DEF Fetching, Reading, Untouched
<1>6. CASE EndDescribe
  <2>1. pc = "describe" /\ pc' \in {"close", "hold", "read"}
        /\ UNCHANGED <<db, result, pos, toFetch, buf, out, ready>>
    BY <1>6, RequestAssumption DEF EndDescribe, driverVars, TypeInv, RequestTypeOK
  <2>2. ~out.given
    BY <2>1 DEF ValueInv, FetchInv
  <2>3. CASE kind = "das"
    <3>1. pc' = "close" /\ cur' = cur
      BY <1>6, <2>3 DEF EndDescribe
    <3> QED
      BY <1>1, <2>1, <3>1, ValueKept DEF Fetching, Reading, Untouched
  <2>4. CASE kind # "das"
    <3>1. cur' = Reset(cur)
      BY <1>6, <2>4 DEF EndDescribe, StartOfRows
    <3>2. Due(cur') /\ cur'.rows = cur.rows
      BY <2>1, <2>2, <3>1, DueAtStart DEF Fetching
    <3> QED
      BY <1>1, <1>6, <2>1, <2>2, <3>2, ValueKept
         DEF Fetching, Reading, Untouched
  <2> QED
    BY <2>3, <2>4
<1> QED
  BY <1>2, <1>3, <1>4, <1>5, <1>6

(* fetch() leaves in the buffers the row it stopped at: the one due, unless *)
(* the result set has ended.                                               *)
LEMMA FetchDelivers ==
  ASSUME NoFetchFault, TypeInv, ValueInv, ready, FetchRows(toFetch),
         UNCHANGED result
  PROVE  /\ pos' \in Nat /\ pos' <= result
         /\ pos + toFetch <= result => pos' = pos + toFetch
         /\ \A c \in Columns :
              /\ buf'[c] = Wild => c \in Nullable
              /\ pos' > 0 /\ buf'[c] # Wild => buf'[c] = pos'
<1> DEFINE last == IF pos + toFetch < result THEN pos + toFetch ELSE result
<1>1. /\ pos \in Nat /\ result \in Nat /\ toFetch \in Nat /\ pos <= result
      /\ result <= MaxRows /\ MaxRows \in Nat
  BY ConnectorAssumption
     DEF TypeInv, RequestTypeOK, ConnectorTypeOK, ValueInv, BufferInv
<1>2. /\ last \in Nat /\ last <= result /\ pos <= last /\ last # Wild
      /\ pos + toFetch <= result => last = pos + toFetch
  BY <1>1 DEF Wild
<1>3. \A c \in Columns : /\ buf[c] = Wild => c \in Nullable
                         /\ pos > 0 /\ buf[c] # Wild => buf[c] = pos
  BY DEF ValueInv, BufferInv
<1>4. CASE last = pos /\ UNCHANGED <<buf, pos>>
  BY <1>2, <1>3, <1>4
<1>5. CASE pos' = last /\ \E nulls \in SUBSET Nullable :
                           buf' = Fetched(buf, last, nulls)
  <2>1. PICK nulls \in SUBSET Nullable : buf' = Fetched(buf, last, nulls)
    BY <1>5
  <2>2. \A c \in Columns :
          buf'[c] = IF buf[c] = Wild \/ c \in nulls THEN Wild ELSE last
    BY <2>1 DEF Fetched
  <2> QED
    BY <1>2, <1>3, <1>5, <2>2
<1> QED
  BY <1>4, <1>5 DEF FetchRows, MayFail, NoFetchFault

(* getNext, called by a variable's read or by its debug message.           *)
LEMMA ValueGetNext ==
  ASSUME NoFetchFault, TypeInv, ValueInv, GetNext, pc = "row", pc' = "row"
  PROVE  ValueInv'
<1>1. /\ ready /\ cur.notEnd /\ ready' = ready /\ UNCHANGED <<db, result>>
      /\ FetchRows(toFetch) /\ cur.cols = NCols /\ IndexInBounds
      /\ ConnectorTypeOK
  BY DEF GetNext, CanGetNext, TypeInv, RequestTypeOK, CursorInv
<1>2. /\ pos' \in Nat /\ pos' <= result
      /\ pos + toFetch <= result => pos' = pos + toFetch
      /\ \A c \in Columns : /\ buf'[c] = Wild => c \in Nullable
                            /\ pos' > 0 /\ buf'[c] # Wild => buf'[c] = pos'
  BY <1>1, FetchDelivers
<1>3. BufferInv'
  <2>1. result' = result /\ db' = db /\ ready' = ready
    BY <1>1
  <2>2. result' <= MaxRows /\ db'.match \in MinRows..MaxRows /\ pos' <= result'
    BY <1>2, <2>1 DEF ValueInv, BufferInv
  <2>3. \A c \in Columns :
          /\ buf'[c] = Wild => c \in Nullable
          /\ ready' /\ pos' > 0 /\ buf'[c] # Wild => buf'[c] = pos'
    BY <1>2
  <2> QED
    BY <2>2, <2>3 DEF BufferInv, Wild
<1>4. /\ out'.given /\ out'.row = cur.row /\ out'.col = cur.col
      /\ out'.val = buf'[cur.col] /\ cur.col \in Columns
  BY <1>1, GetNextType DEF GetNext
<1>5. /\ cur' = SetNext(cur, 1).cur /\ cur'.rows = cur.rows
      /\ toFetch' = SetNext(cur, 1).ret
  BY <1>1, PassType DEF GetNext, RowsToSkip
<1>6. /\ cur.row \in Nat /\ cur.rows \in Nat /\ cur.col \in Nat
      /\ result \in Nat /\ NCols \in Nat /\ cur.col <= NCols /\ cur \in Cursor
  BY <1>1, ConnectorAssumption DEF ConnectorTypeOK, Cursor
<1>7. cur.rows <= result => pos' = cur.row + 1 /\ cur.row < cur.rows
  BY <1>1, <1>2, <1>6 DEF ValueInv, FetchInv
<1>8. ValueOfItsRow'
  <2> SUFFICES ASSUME cur'.rows <= result'
               PROVE  \/ out'.val = out'.row + 1
                      \/ out'.val = Wild /\ out'.col \in Nullable
    BY DEF ValueOfItsRow, Wild
  <2>1. pos' = cur.row + 1
    BY <1>1, <1>5, <1>7
  <2>2. \/ buf'[cur.col] = Wild /\ cur.col \in Nullable
        \/ buf'[cur.col] = pos'
    BY <1>2, <1>4, <1>6, <2>1
  <2> QED
    BY <1>4, <2>1, <2>2
<1>9. cur.rows <= result /\ cur'.notEnd =>
        pos' + toFetch' = cur'.row + 1 /\ cur'.row < cur'.rows
  <2> SUFFICES ASSUME cur.rows <= result, cur'.notEnd
               PROVE  pos' + toFetch' = cur'.row + 1 /\ cur'.row < cur'.rows
    OBVIOUS
  <2>1. CASE cur.col + 1 < NCols
    <3>1. toFetch' = 0 /\ cur'.row = cur.row
      BY <1>1, <1>5, <1>6, <2>1, SetNextOne
    <3> QED
      BY <1>2, <1>5, <1>7, <3>1
  <2>2. CASE cur.col + 1 >= NCols /\ cur.row + 1 < cur.rows
    <3>1. toFetch' = 1 /\ cur'.row = cur.row + 1
      BY <1>1, <1>5, <1>6, <2>2, SetNextOne
    <3> QED
      BY <1>2, <1>5, <1>7, <2>2, <3>1
  <2>3. CASE cur.col + 1 >= NCols /\ cur.row + 1 >= cur.rows
    BY <1>1, <1>5, <1>6, <2>3, SetNextOne
  <2> QED
    BY <1>6, <2>1, <2>2, <2>3
<1>10. cur'.rows > 0
  BY <1>5 DEF ValueInv, FetchInv
<1>11. FetchInv'
  BY <1>1, <1>4, <1>5, <1>9, <1>10 DEF FetchInv
<1> QED
  BY <1>3, <1>8, <1>11 DEF ValueInv

(* Steps that leave the connector alone.                                   *)
LEMMA ValueStays ==
  ASSUME ValueInv, UNCHANGED connectorVars, pc' # "counted",
         Fetching' => Fetching, Untouched' => Untouched, Reading' => Reading
  PROVE  ValueInv'
<1>1. db.match \in MinRows..MaxRows
  BY DEF ValueInv, BufferInv
<1>2. Reading /\ ready /\ cur.notEnd /\ cur.rows <= result => Due(cur)
  BY DEF ValueInv, FetchInv, Reading, Due
<1> QED
  BY <1>1, <1>2, ValueKept DEF connectorVars

(* SQLSequence: its copies reset the cursor before the first value only.   *)
LEMMA ValueRead ==
  ASSUME NoFetchFault, TypeInv, ValueInv,
         \/ CopySequence \/ DropCopy \/ SendDds \/ Release \/ Abandon
         \/ StartRow \/ EndOfSequence \/ StopReading \/ SkipVariable
         \/ ReadPlaceholder \/ TraceVariable \/ ReadVariable \/ ReadFails
         \/ RowRead
  PROVE  ValueInv'
<1>1. db.match \in MinRows..MaxRows
  BY DEF ValueInv, BufferInv
<1>2. CASE TraceVariable \/ ReadVariable
  BY <1>2, ValueGetNext DEF TraceVariable, ReadVariable, AtVariable
<1>3. CASE ReadFails
  BY <1>3, ValueClosed DEF ReadFails, Close, Goto, Fetching, Untouched
<1>4. CASE CopySequence
  <2>1. /\ UNCHANGED <<db, result, pos, toFetch, buf, out, ready, pc>>
        /\ Fetching /\ ~out.given
    BY <1>4 DEF CopySequence, driverVars, Fetching
  <2>2. cur'.rows = cur.rows /\ (ready => Due(cur'))
    BY <1>4, <2>1, DueAtStart DEF CopySequence
  <2>3. pc' # "counted" /\ Fetching' /\ (Untouched' => Untouched)
    BY <2>1 DEF Fetching, Untouched
  <2> QED
    BY <1>1, <2>1, <2>2, <2>3, ValueKept
<1>5. CASE DropCopy \/ Release \/ Abandon
  <2>1. CASE Close /\ owners = 1
    <3>1. pc' \in {"done", "failed"}
      BY <1>5, <2>1 DEF DropCopy, Release, Abandon, DestroySequence
    <3> QED
      BY <2>1, <3>1, ValueClosed DEF Close, Fetching, Untouched
  <2>2. CASE UNCHANGED connectorVars /\ owners # 1
    <3>1. pc' = pc
      BY <1>5, <2>2 DEF DropCopy, Release, Abandon, DestroySequence
    <3>2. pc # "counted"
      BY <1>5 DEF DropCopy, Release, Abandon
    <3> QED
      BY <2>2, <3>1, <3>2, ValueStays DEF Fetching, Untouched, Reading
  <2> QED
    BY <1>5, <2>1, <2>2
       DEF DropCopy, Release, Abandon, DestroySequence, ClosesOnDelete
<1>6. CASE \/ SendDds \/ StartRow \/ EndOfSequence \/ StopReading
           \/ SkipVariable \/ ReadPlaceholder \/ RowRead
  BY <1>6, ValueStays DEF SendDds, StartRow, EndOfSequence, StopReading,
     SkipVariable, ReadPlaceholder, RowRead, AtVariable, Goto, Fetching,
     Untouched, Reading
<1> QED
  BY <1>2, <1>3, <1>4, <1>5, <1>6

\* Every step of the request and of its environment.
LEMMA ValueStep ==
  ASSUME NoFetchFault, NoEmptyResult, TypeInv, ValueInv, [Next]_vars
  PROVE  ValueInv'
<1>1. CASE RequestStep
  BY <1>1, ValueQuery, ValueDescribe, ValueRead DEF RequestStep
<1>2. CASE ~Quiet /\ ~Finished /\ DatabaseChanges /\ UNCHANGED requestVars
  <2>1. db'.match \in MinRows..MaxRows
    <3>1. PICK m \in MinRows..MaxRows : db' = [db EXCEPT !.match = m]
      BY <1>2 DEF DatabaseChanges
    <3>2. db \in [match : Nat, uncounted : Nat]
      BY DEF TypeInv, RequestTypeOK, ConnectorTypeOK
    <3> QED
      BY <3>1, <3>2
  <2> QED
    BY <1>2, <2>1 DEF DatabaseChanges, driverVars, stateVars, requestVars,
                      ValueInv, BufferInv, FetchInv, ValueOfItsRow
<1>3. CASE CopySequence \/ DropCopy \/ StopReading
  BY <1>3, ValueRead
<1>4. CASE UNCHANGED vars
  BY <1>4 DEF vars, requestVars, connectorVars, ValueInv, BufferInv, FetchInv,
              ValueOfItsRow
<1> QED
  BY <1>1, <1>2, <1>3, <1>4 DEF Next, Environment

(* Every value getNext hands out belongs to the row of the result set the  *)
(* cursor stood on, for every number of columns and rows, every order of   *)
(* copies, resets and commits of other clients, with or without the debug  *)
(* trace, if the result set is not empty and no fetch fails.               *)
THEOREM ValueCorrect ==
  ASSUME NoFetchFault, NoEmptyResult
  PROVE  Spec => []ValueOfItsRow
<1>1. RequestInit => TypeInv /\ ValueInv
  BY TypeInit, ValueInit
<1>2. (TypeInv /\ ValueInv) /\ [Next]_vars => (TypeInv /\ ValueInv)'
  BY TypeStep, ValueStep
<1>3. TypeInv /\ ValueInv => ValueOfItsRow
  BY DEF ValueInv
<1> QED
  BY <1>1, <1>2, <1>3, PTL DEF Spec

-----------------------------------------------------------------------------
(***************************************************************************)
(* What a request makes of its connector and of the rows it reads:         *)
(* ClosedOnExit, OwnColumn, NoHandleMisuse, RowsAsCounted and RowsInOrder, *)
(* for every number of columns, rows and copies.  The last four rest on    *)
(* AlignInv, that variables and columns go together: SQLSequence::read     *)
(* looks at its own variables while the connector moves its own cursor,    *)
(* and only the loop that made the variables has seen both.  On it stand   *)
(* HandleInv (nothing is freed before the last step), DeliveredInv (the    *)
(* cursor is in the row after those delivered) and ExactInv (a row in the  *)
(* making holds the values of its number).  Each theorem names what the    *)
(* code does not see to by itself as a hypothesis.                         *)
(***************************************************************************)

\* Every error leaves the request by a path that closes: a BESError is caught
\* by name, the response object is one, and no check point meets the failure of
\* getColDesc outside nextType.
ErrorsClose ==
  /\ BesIsStd
  /\ "response" \notin RequestFaults
  /\ "describe" \notin Faults \/ "getnext" \notin CheckPoints

\* Every column has a variable, all are sent and only read() takes values.
AllColumns == Sent = Columns /\ "type" \notin RequestFaults /\ ~Traced

\* close() has no error of a description to diagnose after it freed the handles.
CloseIsQuiet ==
  "describe" \in Faults /\ "close" \in CheckPoints => "getnext" \in CheckPoints

\* The COUNT statement counts what the SELECT returns, and no value is NULL.
CountIsExact == Quiet /\ MaxUncounted = 0
NoNulls == Nullable = {}

-----------------------------------------------------------------------------
(* ClosedOnExit.                                                           *)

\* close() frees an open connection, whoever calls it.
LEMMA CloseFrees ==
  ASSUME NEW diagnosed, CloseThen(diagnosed)
  PROVE  link' # "open"
  BY DEF CloseThen

\* The last steps of a request close its connector.
LEMMA ClosedStep ==
  ASSUME ErrorsClose, TypeInv, ClosedOnExit, [Next]_vars
  PROVE  ClosedOnExit'
<1> SUFFICES ASSUME Finished', ~Finished PROVE link' # "open"
  <2>1. CASE Finished
    <3>1. pc \in {"done", "failed"} /\ link # "open"
      BY <2>1 DEF ClosedOnExit, Finished
    <3>2. ~RequestStep /\ ~Environment
      BY <3>1 DEF RequestStep, Environment, Finished, RefuseDas, StartConnect,
         Count, Execute, Unwind, RefuseResponse, BeginDescribe, DescribeColumn,
         DescribePlaceholder, UnsupportedType, OldCodeRaises, DescriptionFails,
         AtColumn, Describing, EndDescribe, CloseDas, SendDds, Release, Abandon,
         StartRow, EndOfSequence, SkipVariable, ReadPlaceholder, TraceVariable,
         ReadVariable, ReadFails, AtVariable, RowRead, CopySequence, DropCopy,
         StopReading
    <3> QED
      BY <3>1, <3>2 DEF Next, vars, connectorVars, ClosedOnExit
  <2> QED
    BY <2>1 DEF ClosedOnExit
<1>1. CASE StartConnect \/ Count \/ Execute \/ Unwind
  BY <1>1, CloseFrees DEF StartConnect, Count, Execute, Unwind, AfterUnwind,
     Close, ThrowBesError, Goto, ErrorsClose, Finished
<1>2. CASE \/ RefuseDas \/ RefuseResponse \/ BeginDescribe \/ DescribeColumn
           \/ DescribePlaceholder \/ UnsupportedType \/ OldCodeRaises
           \/ DescriptionFails \/ EndDescribe \/ CloseDas
  <2>1. CASE CloseDas
    BY <2>1, CloseFrees DEF CloseDas
  <2>2. CASE EndDescribe
    <3>1. pc' \in {"close", "hold", "read"}
      BY <2>2, RequestAssumption DEF EndDescribe, TypeInv, RequestTypeOK
    <3> QED
      BY <3>1 DEF Finished
  <2>3. ~RefuseDas /\ ~RefuseResponse /\ ~DescriptionFails
    BY DEF RefuseDas, RefuseResponse, DescriptionFails, DescriptionsUnknown,
           MayFail, ErrorsClose
  <2>4. CASE \/ BeginDescribe \/ DescribeColumn \/ DescribePlaceholder
             \/ UnsupportedType \/ OldCodeRaises
    <3>1. pc' \in {"describe", "unwind"}
      BY <2>4 DEF BeginDescribe, DescribeColumn, DescribePlaceholder, Describing,
                  AtColumn, UnsupportedType, OldCodeRaises, DescribeAs, Goto
    <3> QED
      BY <3>1 DEF Finished
  <2> QED
    BY <1>2, <2>1, <2>2, <2>3, <2>4
<1>3. CASE DropCopy \/ Release \/ Abandon
  BY <1>3, CloseFrees DEF DropCopy, Release, Abandon, DestroySequence,
     ClosesOnDelete, Close, Finished
<1>4. CASE \/ CopySequence \/ SendDds \/ StartRow \/ EndOfSequence
           \/ StopReading \/ SkipVariable \/ ReadPlaceholder \/ TraceVariable
           \/ ReadVariable \/ ReadFails \/ RowRead
  BY <1>4 DEF CopySequence, SendDds, StartRow, EndOfSequence, StopReading,
     SkipVariable, ReadPlaceholder, TraceVariable, ReadVariable, ReadFails,
     RowRead, AtVariable, Goto, Finished
<1>5. CASE DatabaseChanges /\ UNCHANGED requestVars
  BY <1>5 DEF requestVars, Finished
<1>6. CASE UNCHANGED vars
  BY <1>6 DEF vars, requestVars, Finished
<1> QED
  BY <1>1, <1>2, <1>3, <1>4, <1>5, <1>6 DEF Next, RequestStep, Environment

(* No request ends with its connection open, whatever fails in the driver, *)
(* however many copies share it and wherever libdap stops, if every error  *)
(* leaves it by a path that closes.                                        *)
THEOREM ClosedAlways ==
  ASSUME ErrorsClose
  PROVE  Spec => []ClosedOnExit
<1>1. RequestInit => TypeInv /\ ClosedOnExit
  BY TypeInit DEF RequestInit, ClosedOnExit, Finished
<1>2. (TypeInv /\ ClosedOnExit) /\ [Next]_vars => (TypeInv /\ ClosedOnExit)'
  BY TypeStep, ClosedStep
<1> QED
  BY <1>1, <1>2, PTL DEF Spec

-----------------------------------------------------------------------------
(* AlignInv and OwnColumn.                                                 *)

\* Steps that leave the descriptions alone and end the reading, or go on with
\* connect and query.
LEMMA AlignOut ==
  ASSUME AlignInv, UNCHANGED <<described, discarded>>,
         \/ pc' \in {"unwind", "failed", "close", "release", "done"}
         \/ /\ pc \in {"start", "connected", "counted"}
            /\ pc' \in {"connected", "counted"}
  PROVE  AlignInv'
  BY DEF AlignInv

\* connect and query.
LEMMA AlignQuery ==
  ASSUME AlignInv, StartConnect \/ Count \/ Execute \/ Unwind
  PROVE  AlignInv'
<1>1. CASE Execute /\ QueryExec /\ pc' = "queried"
  BY <1>1 DEF Execute, QueryExec, Goto, ThrowBesError, AlignInv
<1>2. CASE ~(Execute /\ QueryExec /\ pc' = "queried")
  <2>1. /\ UNCHANGED <<described, discarded>>
        /\ \/ pc' \in {"unwind", "failed"}
           \/ /\ pc \in {"start", "connected", "counted"}
              /\ pc' \in {"connected", "counted"}
    BY <1>2 DEF StartConnect, Count, Execute, Unwind, ThrowBesError, Goto
  <2> QED
    BY <2>1, AlignOut
<1> QED
  BY <1>1, <1>2

\* The builders' loop: the cursor passes the columns as they are described.
LEMMA AlignDescribe ==
  ASSUME AllColumns, TypeInv, AlignInv,
         \/ RefuseDas \/ RefuseResponse \/ BeginDescribe \/ DescribeColumn
         \/ DescribePlaceholder \/ UnsupportedType \/ OldCodeRaises
         \/ DescriptionFails \/ EndDescribe \/ CloseDas
  PROVE  AlignInv'
<1>1. /\ NCols \in Nat \ {0} /\ cur \in Cursor /\ cur.col \in Nat
      /\ Len(described) \in Nat /\ described \in Seq(0..NCols)
  BY ConnectorAssumption DEF TypeInv, RequestTypeOK, ConnectorTypeOK, Cursor
<1>2. CASE \/ RefuseDas \/ RefuseResponse \/ UnsupportedType \/ OldCodeRaises
           \/ DescriptionFails \/ CloseDas
  BY <1>2, AlignOut DEF RefuseDas, RefuseResponse, UnsupportedType,
     OldCodeRaises, DescriptionFails, CloseDas, Goto
<1>3. CASE BeginDescribe
  <2>1. cur'.col = 0 /\ described' = <<>> /\ Len(<<>>) = 0 /\ ready' = ready
    BY <1>1, <1>3, ResetFacts DEF BeginDescribe, ResetCursor, Goto, AlignInv
  <2> QED
    BY <1>3, <2>1 DEF BeginDescribe, Goto, AlignInv
<1>4. CASE DescribeColumn
  <2>1. /\ pc = "describe" /\ pc' = "describe" /\ cur.cols = NCols
        /\ Len(described) < NCols /\ described' = Append(described, cur.col)
        /\ UNCHANGED <<ready, discarded>> /\ cur' = SetNext(cur, 1).cur
    BY <1>4 DEF DescribeColumn, AtColumn, Describing, DescribeAs, PassColumn,
                PassAndDescribe, TypeInv, CursorInv
  <2>2. cur.col = Len(described)
    BY <2>1 DEF AlignInv
  <2>3. /\ Len(described') = Len(described) + 1
        /\ \A i \in 1..Len(described') : described'[i] = i - 1
    BY <1>1, <2>1, <2>2 DEF AlignInv
  <2>4. Len(described') < NCols => cur'.col = Len(described')
    BY <1>1, <2>1, <2>2, <2>3, SetNextOne
  <2> QED
    BY <2>1, <2>3, <2>4 DEF AlignInv
<1>5. CASE DescribePlaceholder
  BY <1>1, <1>5 DEF DescribePlaceholder, Describing, AllColumns, AlignInv
<1>6. CASE EndDescribe
  <2>1. /\ pc = "describe" /\ Len(described) = NCols
        /\ pc' \in {"close", "hold", "read"}
        /\ UNCHANGED <<described, ready, discarded>>
    BY <1>6, RequestAssumption DEF EndDescribe, TypeInv, RequestTypeOK
  <2>2. pc' \in {"hold", "read"} => cur'.col = 0
    BY <1>1, <1>6, ResetFacts DEF EndDescribe, StartOfRows
  <2> QED
    BY <2>1, <2>2 DEF AlignInv
<1> QED
  BY <1>2, <1>3, <1>4, <1>5, <1>6

\* read() takes the value of its variable: the cursor is on that column, and it
\* ends a row when read() does.
LEMMA AlignReadVariable ==
  ASSUME TypeInv, AlignInv, ReadVariable
  PROVE  /\ AlignInv' /\ out'.col = var /\ described[var + 1] = var
         /\ cur.notEnd /\ cur.col = var
<1>1. /\ NCols \in Nat \ {0} /\ cur \in Cursor /\ cur.col \in Nat
      /\ cur.row \in Nat /\ cur.rows \in Nat /\ var \in Nat /\ var < NCols
      /\ cur.cols = NCols /\ cur.col = var /\ cur.notEnd
  BY ConnectorAssumption DEF ReadVariable, AtVariable, AlignInv, TypeInv,
     RequestTypeOK, ConnectorTypeOK, CursorInv, Cursor
<1>2. /\ cur' = SetNext(cur, 1).cur /\ ready' = ready /\ pc = "row" /\ pc' = "row"
      /\ var' = var + 1 /\ described' = described /\ ~discarded'
      /\ out'.col = cur.col
  BY DEF ReadVariable, AtVariable, GetNext
<1>3. described[var + 1] = var
  BY <1>1, <1>2 DEF AlignInv
<1>4. IF var' < NCols THEN cur'.notEnd /\ cur'.col = var'
                      ELSE cur'.notEnd => cur'.col = 0
  <2>1. CASE var + 1 < NCols
    BY <1>1, <1>2, <2>1, SetNextOne
  <2>2. CASE var + 1 = NCols
    <3>1. cur.row + 1 < cur.rows \/ cur.row + 1 >= cur.rows
      BY <1>1
    <3> QED
      BY <1>1, <1>2, <2>2, <3>1, SetNextOne
  <2> QED
    BY <1>1, <2>1, <2>2
<1>5. AlignInv'
  BY <1>2, <1>4 DEF AlignInv
<1> QED
  BY <1>1, <1>2, <1>3, <1>5

\* Of a row that was begun, no variable is left out, none is a placeholder,
\* none is read twice and none finds the cursor at its end.
LEMMA NoDetours ==
  ASSUME AllColumns, TypeInv, AlignInv
  PROVE  /\ ~SkipVariable /\ ~ReadPlaceholder /\ ~TraceVariable /\ ~ReadFails
         /\ ~Abandon
<1>1. /\ NCols \in Nat \ {0} /\ var \in 0..NCols
  BY ConnectorAssumption DEF TypeInv, RequestTypeOK
<1>2. ASSUME AtVariable
      PROVE  /\ var \in Sent /\ var < NCols /\ described[var + 1] = var
             /\ ready /\ cur.notEnd
  BY <1>1, <1>2 DEF AtVariable, AllColumns, Columns, AlignInv
<1> QED
  BY <1>1, <1>2 DEF SkipVariable, ReadPlaceholder, TraceVariable, ReadFails,
     Abandon, Dummy, AllColumns, CanGetNext, AlignInv

\* SQLSequence and its copies.
LEMMA AlignRead ==
  ASSUME AllColumns, TypeInv, AlignInv,
         \/ CopySequence \/ DropCopy \/ SendDds \/ Release \/ Abandon
         \/ StartRow \/ EndOfSequence \/ StopReading \/ SkipVariable
         \/ ReadPlaceholder \/ TraceVariable \/ ReadVariable \/ ReadFails
         \/ RowRead
  PROVE  AlignInv'
<1>1. /\ NCols \in Nat \ {0} /\ cur \in Cursor /\ owners \in Nat
  BY ConnectorAssumption, RequestAssumption
     DEF TypeInv, RequestTypeOK, ConnectorTypeOK
<1>2. CASE ReadVariable
  BY <1>2, AlignReadVariable
<1>3. CASE CopySequence
  <2>1. /\ pc \in {"hold", "read"} /\ pc' = pc /\ ready /\ cur' = Reset(cur)
        /\ UNCHANGED <<described, discarded, ready>>
    BY <1>3 DEF CopySequence, AlignInv
  <2>2. cur'.col = 0
    BY <1>1, <2>1, ResetFacts
  <2> QED
    BY <2>1, <2>2 DEF AlignInv
<1>4. CASE DropCopy
  BY <1>1, <1>4 DEF DropCopy, DestroySequence, ClosesOnDelete, connectorVars, AlignInv
<1>5. CASE Release
  <2>1. pc' \in {"release", "done"} /\ UNCHANGED <<described, discarded>>
    BY <1>5 DEF Release, DestroySequence
  <2> QED
    BY <2>1, AlignOut
<1>6. CASE SendDds \/ EndOfSequence \/ StopReading
  BY <1>6, AlignOut DEF SendDds, EndOfSequence, StopReading, Goto
<1>7. CASE StartRow
  BY <1>1, <1>7 DEF StartRow, connectorVars, AlignInv
<1>8. CASE RowRead
  BY <1>1, <1>8 DEF RowRead, connectorVars, AlignInv
<1> QED
  BY <1>2, <1>3, <1>4, <1>5, <1>6, <1>7, <1>8, NoDetours

\* The initial states and every step.
LEMMA AlignInit == RequestInit => AlignInv
  BY DEF RequestInit, AlignInv

\* Every step of the request and of its environment.
LEMMA AlignStep ==
  ASSUME AllColumns, TypeInv, AlignInv, [Next]_vars
  PROVE  AlignInv'
<1>1. CASE RequestStep
  BY <1>1, AlignQuery, AlignDescribe, AlignRead DEF RequestStep
<1>2. CASE CopySequence \/ DropCopy \/ StopReading
  BY <1>2, AlignRead
<1>3. CASE DatabaseChanges /\ UNCHANGED requestVars
  BY <1>3 DEF DatabaseChanges, driverVars, stateVars, requestVars, AlignInv
<1>4. CASE UNCHANGED vars
  BY <1>4 DEF vars, connectorVars, requestVars, AlignInv
<1> QED
  BY <1>1, <1>2, <1>3, <1>4 DEF Next, Environment

\* Only read() of a variable adds to a row that was begun.
LEMMA RowGrows ==
  ASSUME pc = "row", row' # row, [Next]_vars
  PROVE  ReadVariable
<1>1. UNCHANGED row \/ ReadVariable
  BY DEF Next, RequestStep, Environment, Finished, vars, requestVars, RefuseDas,
     StartConnect, Count, ThrowBesError, Execute, Unwind, RefuseResponse,
     BeginDescribe, DescribeColumn, DescribePlaceholder, DescribeAs, AtColumn,
     Describing, UnsupportedType, OldCodeRaises, DescriptionFails, EndDescribe,
     CloseDas, SendDds, Release, Abandon, DestroySequence, StartRow,
     EndOfSequence, SkipVariable, ReadPlaceholder, TraceVariable, ReadFails,
     RowRead, CopySequence, DropCopy, StopReading, Goto
<1> QED
  BY <1>1

(* Each variable receives a value of its own column, although read() asks  *)
(* the shared cursor and never its variable's _col: for every number of    *)
(* columns, whatever the builders' loop and the copies did to the cursor,  *)
(* if every column has a variable and all are sent.                        *)
THEOREM EveryValueInItsColumn ==
  ASSUME AllColumns
  PROVE  Spec => OwnColumn
<1>1. RequestInit => TypeInv /\ AlignInv
  BY TypeInit, AlignInit
<1>2. (TypeInv /\ AlignInv) /\ [Next]_vars
        => /\ (TypeInv /\ AlignInv)'
           /\ [pc = "row" /\ row' # row
                 => out'.col = var /\ described[var + 1] = var]_vars
  BY TypeStep, AlignStep, RowGrows, AlignReadVariable
<1> QED
  BY <1>1, <1>2, PTL DEF Spec, OwnColumn

-----------------------------------------------------------------------------
(* HandleInv and NoHandleMisuse.                                           *)

\* An error is what the check point of close looks for.
LEMMA RaisesClose == Raises("close") <=> "close" \in CheckPoints /\ rc = "error"
  BY DEF Raises, Policy!Verdict, Policy!Active

\* close() of handles that are there: freed once.
LEMMA HandleClosed ==
  ASSUME HandleInv, ~Finished, Close, pc' \in {"done", "failed"}
  PROVE  HandleInv'
  BY DEF HandleInv, Finished, Close, CloseThen

\* Steps that touch no handle.
LEMMA HandleKept ==
  ASSUME HandleInv, UNCHANGED <<link, stmt, misused>>, ~Finished,
         pc' \in {"queried", "describe", "close"} => ~Raises("close")'
  PROVE  HandleInv'
  BY DEF HandleInv, Finished

\* The same when the return code stays too.
LEMMA HandleStays ==
  ASSUME HandleInv, UNCHANGED <<link, stmt, misused, rc>>, ~Finished,
         pc' \in {"queried", "describe", "close"} =>
           pc \in {"queried", "describe", "close"}
  PROVE  HandleInv'
<1>1. Raises("close")' <=> "close" \in CheckPoints /\ rc' = "error"
  BY DEF Raises, Policy!Verdict, Policy!Active
<1> QED
  BY <1>1, RaisesClose DEF HandleInv, Finished

\* connect allocates the connection, query the statement.
LEMMA HandleQuery ==
  ASSUME HandleInv, StartConnect \/ Count \/ Execute \/ Unwind
  PROVE  HandleInv'
<1>1. CASE StartConnect
  BY <1>1 DEF StartConnect, Connect, Goto, HandleInv
<1>2. CASE Count
  BY <1>2 DEF Count, QueryCount, QueryCountFails, ThrowBesError, Goto,
              driverVars, HandleInv
<1>3. CASE Execute /\ QueryExec
  <2>1. Raises("close")' <=> "close" \in CheckPoints /\ rc' = "error"
    BY DEF Raises, Policy!Verdict, Policy!Active
  <2> QED
    BY <1>3, <2>1 DEF Execute, QueryExec, HandleInv
<1>4. CASE Execute /\ LeaveQuery /\ pc' \in {"unwind", "failed"}
  BY <1>4 DEF Execute, LeaveQuery, HandleInv
<1>5. CASE Unwind
  BY <1>5, HandleClosed DEF Unwind, AfterUnwind, Goto, Finished
<1> QED
  BY <1>1, <1>2, <1>3, <1>4, <1>5
     DEF Execute, QueryExecFails, QueryColumnsFail, ThrowBesError, Goto

\* The builders: close() finds nothing to diagnose.
LEMMA HandleDescribe ==
  ASSUME CloseIsQuiet, TypeInv, HandleInv,
         \/ RefuseDas \/ RefuseResponse \/ BeginDescribe \/ DescribeColumn
         \/ DescribePlaceholder \/ UnsupportedType \/ OldCodeRaises
         \/ DescriptionFails \/ EndDescribe \/ CloseDas
  PROVE  HandleInv'
<1>1. CASE CloseDas
  <2>1. ~Raises("close")
    BY <1>1 DEF CloseDas, HandleInv
  <2>2. CloseThen(FALSE) /\ pc' = "done" /\ pc = "close"
    BY <1>1, <2>1 DEF CloseDas, Goto, Raises
  <2> QED
    BY <2>2, HandleClosed DEF Close, Finished
<1>2. CASE DescribeColumn
  <2>1. /\ pc = "describe" /\ pc' = "describe" /\ UNCHANGED driverVars
        /\ rc' = rc \/ rc' \in CodesLeft("getnext" \in CheckPoints)
    BY <1>2 DEF DescribeColumn, AtColumn, Describing, DescribeAs, PassColumn,
                PassAndDescribe
  <2>2. CASE rc' = rc
    BY <2>1, <2>2, HandleStays DEF driverVars, Finished
  <2>3. CASE rc' # rc
    <3>1. "close" \in CheckPoints => rc' = "success"
      BY <2>1, <2>3 DEF CodesLeft, CloseIsQuiet, DescriptionsUnknown, MayFail
    <3>2. Raises("close")' <=> "close" \in CheckPoints /\ rc' = "error"
      BY DEF Raises, Policy!Verdict, Policy!Active
    <3> QED
      BY <2>1, <3>1, <3>2, HandleKept DEF driverVars, Finished
  <2> QED
    BY <2>2, <2>3
<1>3. CASE DescribePlaceholder
  <2>1. /\ pc = "describe" /\ pc' = "describe"
        /\ UNCHANGED <<link, stmt, misused, rc>>
    BY <1>3 DEF DescribePlaceholder, AtColumn, Describing, DescribeAs, PassColumn,
                PassTwice, connectorVars, driverVars
  <2> QED
    BY <2>1, HandleStays DEF Finished
<1>4. CASE BeginDescribe \/ EndDescribe
  <2>1. /\ pc \in {"queried", "describe"} /\ UNCHANGED <<link, stmt, misused, rc>>
    BY <1>4 DEF BeginDescribe, ResetCursor, EndDescribe, driverVars
  <2> QED
    BY <2>1, HandleStays DEF Finished
<1>5. CASE \/ RefuseDas \/ RefuseResponse \/ UnsupportedType \/ OldCodeRaises
           \/ DescriptionFails
  <2>1. /\ pc \in {"start", "queried", "describe"} /\ pc' \in {"failed", "unwind"}
        /\ UNCHANGED <<link, stmt, misused, rc>>
    BY <1>5 DEF RefuseDas, RefuseResponse, UnsupportedType, OldCodeRaises,
       DescriptionFails, AtColumn, Describing, PassColumn, Goto, connectorVars, driverVars
  <2> QED
    BY <2>1, HandleStays DEF Finished
<1> QED
  BY <1>1, <1>2, <1>3, <1>4, <1>5

\* SQLSequence: only the last copy closes, and nothing has closed before it.
LEMMA HandleRead ==
  ASSUME AllColumns, TypeInv, AlignInv, HandleInv,
         \/ CopySequence \/ DropCopy \/ SendDds \/ Release \/ Abandon
         \/ StartRow \/ EndOfSequence \/ StopReading \/ SkipVariable
         \/ ReadPlaceholder \/ TraceVariable \/ ReadVariable \/ ReadFails
         \/ RowRead
  PROVE  HandleInv'
<1>1. CASE DropCopy \/ Release
  <2>1. owners \in Nat /\ pc \in {"hold", "read", "release"}
    BY <1>1, RequestAssumption DEF DropCopy, Release, TypeInv, RequestTypeOK
  <2>2. CASE owners = 1
    BY <1>1, <2>1, <2>2, HandleClosed
       DEF DropCopy, Release, DestroySequence, ClosesOnDelete, Finished
  <2>3. CASE owners # 1
    <3>1. pc' = pc /\ UNCHANGED <<link, stmt, misused, rc>>
      BY <1>1, <2>3 DEF DropCopy, Release, DestroySequence, ClosesOnDelete, connectorVars
    <3> QED
      BY <2>1, <3>1, HandleStays DEF Finished
  <2> QED
    BY <2>2, <2>3
<1>2. CASE ReadVariable
  <2>1. pc = "row" /\ pc' = "row" /\ UNCHANGED <<link, stmt, misused>>
    BY <1>2 DEF ReadVariable, AtVariable, GetNext
  <2> QED
    BY <2>1 DEF HandleInv
<1>3. CASE \/ CopySequence \/ SendDds \/ StartRow \/ EndOfSequence
           \/ StopReading \/ RowRead
  <2>1. /\ pc \in {"hold", "read", "row"}
        /\ pc' \in {"hold", "read", "row", "release"}
        /\ UNCHANGED <<link, stmt, misused, rc>>
    BY <1>3 DEF CopySequence, SendDds, StartRow, EndOfSequence, StopReading,
       RowRead, Goto, connectorVars, driverVars
  <2> QED
    BY <2>1, HandleStays DEF Finished
<1> QED
  BY <1>1, <1>2, <1>3, NoDetours

\* No handle is there before connect.
LEMMA HandleInit == RequestInit => HandleInv
  BY DEF RequestInit, ConnectorInit, HandleInv

\* Every step of the request and of its environment.
LEMMA HandleStep ==
  ASSUME AllColumns, CloseIsQuiet, TypeInv, AlignInv, HandleInv, [Next]_vars
  PROVE  HandleInv'
<1>1. CASE RequestStep
  BY <1>1, HandleQuery, HandleDescribe, HandleRead DEF RequestStep
<1>2. CASE CopySequence \/ DropCopy \/ StopReading
  BY <1>2, HandleRead
<1>3. CASE ~Finished /\ DatabaseChanges /\ UNCHANGED requestVars
  BY <1>3, HandleStays DEF DatabaseChanges, driverVars, stateVars, requestVars
<1>4. CASE UNCHANGED vars
  <2>1. UNCHANGED <<link, stmt, misused, rc, pc>>
    BY <1>4 DEF vars, connectorVars, requestVars
  <2>2. Raises("close")' <=> Raises("close")
    BY <2>1 DEF Raises, Policy!Verdict, Policy!Active
  <2> QED
    BY <2>1, <2>2 DEF HandleInv
<1> QED
  BY <1>1, <1>2, <1>3, <1>4 DEF Next, Environment

(* Freed handles are never given to the driver again, on any path of       *)
(* errors, copies and destructors: each of the paths that close is the     *)
(* last step of its request.  Without AllColumns read() may fail in the    *)
(* middle of the response: it closes, and the last copy closes again.      *)
THEOREM HandlesUsedWell ==
  ASSUME AllColumns, CloseIsQuiet
  PROVE  Spec => []NoHandleMisuse
<1>1. RequestInit => TypeInv /\ AlignInv /\ HandleInv
  BY TypeInit, AlignInit, HandleInit
<1>2. (TypeInv /\ AlignInv /\ HandleInv) /\ [Next]_vars
        => (TypeInv /\ AlignInv /\ HandleInv)'
  BY TypeStep, AlignStep, HandleStep
<1>3. HandleInv => NoHandleMisuse
  BY DEF HandleInv, NoHandleMisuse
<1> QED
  BY <1>1, <1>2, <1>3, PTL DEF Spec

-----------------------------------------------------------------------------
(* DeliveredInv and RowsAsCounted.                                         *)

\* Steps that leave the rows and the size of the cursor alone and do not go on
\* with the reading.
LEMMA DeliveredKept ==
  ASSUME DeliveredInv, UNCHANGED <<delivered, ended, db>>, cur'.rows = cur.rows,
         pc' \notin {"hold", "read", "row"},
         ended => pc' \in {"release", "done"},
         pc' \in {"counted", "queried", "describe"} =>
           pc \in {"counted", "queried", "describe"},
         pc' \in {"connected", "counted", "queried", "describe"} =>
           pc \in {"start", "connected", "counted", "queried", "describe"},
         pc' # "start"
  PROVE  DeliveredInv'
  BY DEF DeliveredInv

\* connect and query: the COUNT statement answers with a row at least.
LEMMA DeliveredQuery ==
  ASSUME NoEmptyResult, TypeInv, DeliveredInv,
         StartConnect \/ Count \/ Execute \/ Unwind
  PROVE  DeliveredInv'
<1>1. /\ ConnectorTypeOK /\ cur \in Cursor /\ cur.rows \in Nat
      /\ MinRows \in Nat /\ MaxRows \in Nat /\ MaxUncounted \in Nat
      /\ NCols \in Nat
  BY ConnectorAssumption DEF TypeInv, RequestTypeOK, ConnectorTypeOK, Cursor
<1>2. /\ UNCHANGED <<delivered, ended, db>>
      /\ pc \in {"start", "connected", "counted", "unwind"} /\ ~ended
  BY DEF StartConnect, Connect, Count, QueryCount, QueryCountFails, ThrowBesError,
     Execute, QueryExec, QueryExecFails, QueryColumnsFail, LeaveQuery, Unwind,
     AfterUnwind, Close, CloseThen, Goto, DeliveredInv
<1>3. CASE Count /\ QueryCount /\ pc' = "counted"
  <2>1. cur'.rows = CountOf(db)
    BY <1>1, <1>3, ResetType DEF QueryCount, Cursor
  <2>2. 0 < CountOf(db) /\ CountOf(db) <= MaxRows + MaxUncounted
    BY <1>1 DEF CountOf, NoEmptyResult, DeliveredInv
  <2> QED
    BY <1>2, <1>3, <2>1, <2>2 DEF Count, DeliveredInv
<1>4. CASE ~(Count /\ QueryCount /\ pc' = "counted")
  <2>1. pc' # "counted" /\ pc' \in {"connected", "unwind", "failed", "queried"}
    BY <1>4 DEF StartConnect, Count, Execute, Unwind, ThrowBesError, Goto
  <2>2. CASE pc' \in {"connected", "unwind", "failed"}
    <3>1. pc' = "connected" => pc = "start"
      BY DEF StartConnect, Count, Execute, Unwind, ThrowBesError, Goto
    <3> QED
      BY <1>2, <2>2, <3>1 DEF DeliveredInv
  <2>3. CASE pc' = "queried"
    <3>1. pc = "counted" /\ QueryExec
      BY <2>3 DEF StartConnect, Count, Execute, Unwind, ThrowBesError, Goto
    <3>2. cur'.rows = cur.rows
      BY <1>1, <3>1, QueryExecType
    <3> QED
      BY <1>2, <2>3, <3>1, <3>2, DeliveredKept
  <2> QED
    BY <2>1, <2>2, <2>3
<1> QED
  BY <1>3, <1>4

\* The builders keep the size of the cursor and put it back on the first row.
LEMMA DeliveredDescribe ==
  ASSUME TypeInv, DeliveredInv,
         \/ RefuseDas \/ RefuseResponse \/ BeginDescribe \/ DescribeColumn
         \/ DescribePlaceholder \/ UnsupportedType \/ OldCodeRaises
         \/ DescriptionFails \/ EndDescribe \/ CloseDas
  PROVE  DeliveredInv'
<1>1. /\ ConnectorTypeOK /\ cur \in Cursor /\ cur.rows \in Nat
      /\ NCols \in Nat \ {0}
  BY ConnectorAssumption DEF TypeInv, RequestTypeOK, ConnectorTypeOK, Cursor
<1>2. CASE EndDescribe
  <2>1. /\ pc = "describe" /\ UNCHANGED <<delivered, ended, db, out>>
        /\ pc' \in {"close", "hold", "read"} /\ cur.cols = NCols /\ ~ended
        /\ pc' = "close" => cur' = cur
    BY <1>2, RequestAssumption
       DEF EndDescribe, TypeInv, RequestTypeOK, CursorInv, DeliveredInv
  <2>2. CASE pc' = "close"
    BY <2>1, <2>2, DeliveredKept
  <2>3. CASE pc' \in {"hold", "read"}
    <3>1. cur' = Reset(cur)
      BY <1>2, <2>3 DEF EndDescribe, StartOfRows
    <3>2. cur'.rows = cur.rows /\ cur'.row = 0 /\ cur'.notEnd
      BY <1>1, <2>1, <3>1, ResetFacts DEF SameShape
    <3>3. delivered' = <<>> /\ Len(<<>>) = 0
      BY <2>1 DEF DeliveredInv
    <3> QED
      BY <2>1, <2>3, <3>2, <3>3 DEF DeliveredInv, RowsDone
  <2> QED
    BY <2>1, <2>2, <2>3
<1>3. CASE ~EndDescribe
  <2>1. /\ UNCHANGED <<delivered, ended, db>>
        /\ pc \in {"start", "queried", "describe", "close"} /\ ~ended
        /\ pc' \in {"describe", "unwind", "failed", "done"}
        /\ pc' = "describe" => pc \in {"queried", "describe"}
    BY <1>3 DEF RefuseDas, RefuseResponse, BeginDescribe, ResetCursor,
       DescribeColumn, DescribePlaceholder, UnsupportedType, OldCodeRaises,
       DescriptionFails, CloseDas, CloseThen, PassColumn, PassAndDescribe,
       PassTwice, AtColumn, Describing, DescribeAs, Goto, connectorVars, DeliveredInv
  <2> DEFINE one == SetNext(cur, 1).cur
  <2>2. pc = "describe" =>
          one.rows = cur.rows /\ SetNext(one, 1).cur.rows = cur.rows
    <3>1. ASSUME pc = "describe"
          PROVE  /\ one \in Cursor /\ one.cols = NCols /\ one.col <= NCols
                 /\ one.row <= one.rows /\ one.rows = cur.rows
      BY <1>1, <3>1, PassType DEF TypeInv, CursorInv
    <3> QED
      BY <3>1, AnyPassType
  <2>3. CASE CloseDas
    BY <2>1, <2>3, CloseType, ResetType, DeliveredKept, <1>1
       DEF CloseDas, CloseThen, Goto
  <2>4. CASE BeginDescribe
    <3>1. cur'.rows = cur.rows
      BY <1>1, <2>4, ResetType DEF BeginDescribe, ResetCursor
    <3> QED
      BY <2>1, <2>4, <3>1, DeliveredKept
  <2>5. CASE ~CloseDas /\ ~BeginDescribe
    <3>1. \/ cur' = cur
          \/ pc = "describe" /\ (cur' = one \/ cur' = SetNext(one, 1).cur)
      BY <1>3, <2>5 DEF RefuseDas, RefuseResponse, DescribeColumn,
         DescribePlaceholder, UnsupportedType, OldCodeRaises, DescriptionFails,
         PassColumn, PassAndDescribe, PassTwice, AtColumn, Describing, connectorVars
    <3>2. cur'.rows = cur.rows
      BY <2>2, <3>1
    <3> QED
      BY <2>1, <3>2, DeliveredKept
  <2> QED
    BY <2>3, <2>4, <2>5
<1> QED
  BY <1>2, <1>3

\* A value read: the cursor enters the next row with the last variable.
LEMMA DeliveredReadVariable ==
  ASSUME TypeInv, AlignInv, DeliveredInv, ReadVariable
  PROVE  DeliveredInv'
<1>1. /\ NCols \in Nat \ {0} /\ cur \in Cursor /\ cur.row \in Nat
      /\ cur.rows \in Nat /\ var \in Nat /\ var < NCols /\ cur.cols = NCols
      /\ IndexInBounds /\ ConnectorTypeOK /\ cur.notEnd /\ cur.col = var
  BY ConnectorAssumption, AlignReadVariable DEF ReadVariable, AtVariable, TypeInv,
     RequestTypeOK, ConnectorTypeOK, CursorInv, Cursor
<1>2. /\ cur' = SetNext(cur, 1).cur /\ pc = "row" /\ pc' = "row"
      /\ var' = var + 1 /\ UNCHANGED <<delivered, ended, db>> /\ out'.given
      /\ GetNext
  BY DEF ReadVariable, AtVariable, GetNext
<1>3. cur.row < cur.rows /\ Len(delivered) = cur.row /\ Len(delivered) \in Nat
  BY <1>1, <1>2 DEF DeliveredInv, RowsDone
<1>4. out'.val \in Nat /\ cur'.rows = cur.rows
  BY <1>1, <1>2, GetNextType, PassType DEF ConnectorTypeOK
<1>5. row' \in [0..(var' - 1) -> Nat]
  <2>1. row \in [0..(var - 1) -> Nat]
    BY <1>2 DEF DeliveredInv
  <2>2. 0..(var' - 1) = (DOMAIN row) \cup {var}
    BY <1>1, <1>2, <2>1
  <2> QED
    BY <1>4, <2>1, <2>2 DEF ReadVariable
<1>6. /\ cur'.notEnd => cur'.row < cur'.rows
      /\ Len(delivered') + (IF var' < NCols THEN 0 ELSE 1)
           = (IF cur'.notEnd THEN cur'.row ELSE cur'.rows)
  <2>1. CASE var + 1 < NCols
    BY <1>1, <1>2, <1>3, <1>4, <2>1, SetNextOne
  <2>2. CASE var + 1 >= NCols /\ cur.row + 1 < cur.rows
    BY <1>1, <1>2, <1>3, <1>4, <2>2, SetNextOne
  <2>3. CASE var + 1 >= NCols /\ cur.row + 1 >= cur.rows
    BY <1>1, <1>2, <1>3, <1>4, <2>3, SetNextOne
  <2> QED
    BY <1>1, <2>1, <2>2, <2>3
<1> QED
  BY <1>2, <1>4, <1>5, <1>6 DEF DeliveredInv, RowsDone

\* The row is complete and the bound of the rows remembered is never met.
LEMMA DeliveredRowRead ==
  ASSUME TypeInv, DeliveredInv, RowRead
  PROVE  /\ DeliveredInv' /\ delivered' = Append(delivered, row)
         /\ Len(delivered) + 1 = RowsDone /\ RowsDone <= cur.rows
         /\ row \in [Columns -> Nat]
<1>1. /\ NCols \in Nat \ {0} /\ cur \in Cursor /\ cur.row \in Nat
      /\ cur.rows \in Nat /\ MaxRows \in Nat /\ MaxUncounted \in Nat
      /\ delivered \in Seq([Columns -> Nat]) /\ Len(delivered) \in Nat
  BY ConnectorAssumption
     DEF TypeInv, RequestTypeOK, ConnectorTypeOK, Cursor, DeliveredInv
<1>2. /\ pc = "row" /\ pc' = "read" /\ var = NCols
      /\ UNCHANGED <<ended, db, cur, out>>
  BY DEF RowRead, connectorVars
<1>3. row \in [Columns -> Nat]
  BY <1>2 DEF DeliveredInv, Columns
<1>4. Len(delivered) + 1 = RowsDone /\ RowsDone <= cur.rows
      /\ cur.rows <= MaxRows + MaxUncounted
  BY <1>1, <1>2 DEF DeliveredInv, RowsDone
<1>5. delivered' = Append(delivered, row)
  BY <1>1, <1>4 DEF RowRead, MaxDelivered
<1>6. /\ delivered' \in Seq([Columns -> Nat])
      /\ Len(delivered') = Len(delivered) + 1
  BY <1>1, <1>3, <1>5
<1>7. RowsDone' = RowsDone
  BY <1>2 DEF RowsDone
<1>8. DeliveredInv'
  BY <1>1, <1>2, <1>4, <1>6, <1>7 DEF DeliveredInv
<1> QED
  BY <1>3, <1>4, <1>5, <1>8

\* SQLSequence: a copy resets a cursor from which nothing was taken.
LEMMA DeliveredRead ==
  ASSUME AllColumns, TypeInv, AlignInv, DeliveredInv,
         \/ CopySequence \/ DropCopy \/ SendDds \/ Release \/ Abandon
         \/ StartRow \/ EndOfSequence \/ StopReading \/ SkipVariable
         \/ ReadPlaceholder \/ TraceVariable \/ ReadVariable \/ ReadFails
         \/ RowRead
  PROVE  DeliveredInv'
<1>1. /\ NCols \in Nat \ {0} /\ cur \in Cursor /\ ConnectorTypeOK
      /\ owners \in Nat
  BY ConnectorAssumption, RequestAssumption
     DEF TypeInv, RequestTypeOK, ConnectorTypeOK
<1>2. CASE CopySequence
  <2>1. /\ pc \in {"hold", "read"} /\ pc' = pc /\ cur' = Reset(cur)
        /\ UNCHANGED <<delivered, ended, db, out>> /\ cur.cols = NCols
        /\ ~out.given
    BY <1>2 DEF CopySequence, AlignInv, TypeInv, CursorInv
  <2>2. cur'.rows = cur.rows /\ cur'.row = 0 /\ cur'.notEnd
    BY <1>1, <2>1, ResetFacts DEF SameShape
  <2>3. delivered' = <<>> /\ Len(<<>>) = 0
    BY <2>1 DEF DeliveredInv
  <2> QED
    BY <2>1, <2>2, <2>3 DEF DeliveredInv, RowsDone
<1>3. CASE DropCopy
  <2>1. UNCHANGED <<delivered, ended, db, out, cur, pc>> /\ pc \in {"hold", "read"}
    BY <1>1, <1>3 DEF DropCopy, DestroySequence, ClosesOnDelete, connectorVars
  <2> QED
    BY <2>1 DEF DeliveredInv, RowsDone
<1>4. CASE Release
  <2>1. UNCHANGED <<delivered, ended, db>> /\ pc' \in {"release", "done"}
        /\ cur'.rows = cur.rows
    BY <1>1, <1>4, ResetType
       DEF Release, DestroySequence, Close, CloseThen, connectorVars
  <2> QED
    BY <2>1, DeliveredKept
<1>5. CASE SendDds \/ StopReading
  BY <1>5, DeliveredKept DEF SendDds, StopReading, Goto, connectorVars
<1>6. CASE EndOfSequence
  <2>1. ~cur.notEnd /\ pc = "read"
    BY <1>6 DEF EndOfSequence, NothingLeft, AlignInv
  <2>2. Len(delivered) = cur.rows
    BY <2>1 DEF DeliveredInv, RowsDone
  <2> QED
    BY <1>6, <2>2 DEF EndOfSequence, connectorVars, DeliveredInv
<1>7. CASE StartRow
  <2>1. row' \in [0..(var' - 1) -> Nat] /\ var' = 0
    BY <1>7 DEF StartRow
  <2> QED
    BY <1>1, <1>7, <2>1 DEF StartRow, connectorVars, DeliveredInv, RowsDone
<1> QED
  BY <1>2, <1>3, <1>4, <1>5, <1>6, <1>7, NoDetours, DeliveredReadVariable,
     DeliveredRowRead

\* Nothing is delivered before the request begins.
LEMMA DeliveredInit == RequestInit => DeliveredInv
<1> SUFFICES ASSUME RequestInit PROVE DeliveredInv
  OBVIOUS
<1>1. db.match \in MinRows..MaxRows /\ db.uncounted \in 0..MaxUncounted
  BY DEF RequestInit, ConnectorInit
<1> QED
  BY <1>1 DEF RequestInit, DeliveredInv

\* Every step of the request and of its environment.
LEMMA DeliveredStep ==
  ASSUME AllColumns, NoEmptyResult, TypeInv, AlignInv, DeliveredInv, [Next]_vars
  PROVE  DeliveredInv'
<1>1. CASE RequestStep
  BY <1>1, DeliveredQuery, DeliveredDescribe, DeliveredRead DEF RequestStep
<1>2. CASE CopySequence \/ DropCopy \/ StopReading
  BY <1>2, DeliveredRead
<1>3. CASE DatabaseChanges /\ UNCHANGED requestVars
  <2>1. PICK m \in MinRows..MaxRows : db' = [db EXCEPT !.match = m]
    BY <1>3 DEF DatabaseChanges
  <2>2. db \in [match : Nat, uncounted : Nat]
    BY DEF TypeInv, RequestTypeOK, ConnectorTypeOK
  <2>3. db'.match \in MinRows..MaxRows /\ db'.uncounted = db.uncounted
    BY <2>1, <2>2
  <2> QED
    BY <1>3, <2>3 DEF DatabaseChanges, stateVars, requestVars, DeliveredInv, RowsDone
<1>4. CASE UNCHANGED vars
  BY <1>4 DEF vars, connectorVars, requestVars, DeliveredInv, RowsDone
<1> QED
  BY <1>1, <1>2, <1>3, <1>4 DEF Next, Environment

(* A sequence read to its end has as many rows as the COUNT statement      *)
(* answered, for every number of columns and rows, whatever other clients  *)
(* commit between the statements and however many copies reset the cursor, *)
(* if all columns are read and the answer is not zero.                     *)
THEOREM RowsCounted ==
  ASSUME AllColumns, NoEmptyResult
  PROVE  Spec => []RowsAsCounted
<1>1. RequestInit => TypeInv /\ AlignInv /\ DeliveredInv
  BY TypeInit, AlignInit, DeliveredInit
<1>2. (TypeInv /\ AlignInv /\ DeliveredInv) /\ [Next]_vars
        => (TypeInv /\ AlignInv /\ DeliveredInv)'
  BY TypeStep, AlignStep, DeliveredStep
<1>3. DeliveredInv => RowsAsCounted
  BY DEF DeliveredInv, RowsAsCounted
<1> QED
  BY <1>1, <1>2, <1>3, PTL DEF Spec

-----------------------------------------------------------------------------
(* ExactInv and the refinement of RowStream.                               *)

\* The invariant of the refinement: it takes all of the others.
ResponseInv == TypeInv /\ AlignInv /\ DeliveredInv /\ ValueInv /\ ExactInv

\* Steps that leave the sizes of the cursor and of the result set alone and make
\* no row.
LEMMA ExactKept ==
  ASSUME ExactInv, UNCHANGED result, cur'.rows = cur.rows,
         pc' \notin {"counted", "row"},
         pc' \in {"queried", "describe", "hold", "read"} =>
           pc \in {"queried", "describe", "hold", "read", "row"}
  PROVE  ExactInv'
  BY DEF ExactInv

\* The SELECT finds the rows the COUNT statement counted.
LEMMA ExactQuery ==
  ASSUME CountIsExact, TypeInv, DeliveredInv, ExactInv,
         StartConnect \/ Count \/ Execute \/ Unwind
  PROVE  ExactInv'
<1>1. ConnectorTypeOK /\ cur \in Cursor /\ db.match \in Nat /\ db.uncounted = 0
  BY DEF TypeInv, RequestTypeOK, ConnectorTypeOK, DeliveredInv, CountIsExact
<1>2. CASE Count /\ QueryCount /\ pc' = "counted"
  <2>1. cur'.rows = CountOf(db) /\ db' = db
    BY <1>1, <1>2, ResetType DEF QueryCount, Cursor
  <2> QED
    BY <1>1, <1>2, <2>1 DEF CountOf, ExactInv
<1>3. CASE Execute /\ QueryExec /\ pc' \in {"queried", "unwind"}
  <2>1. cur'.rows = cur.rows /\ result' = db.match /\ pc = "counted"
    BY <1>1, <1>3, QueryExecType DEF QueryExec, Execute
  <2> QED
    BY <1>3, <2>1 DEF ExactInv
<1>4. CASE pc' \in {"connected", "unwind", "failed"}
  BY <1>4 DEF ExactInv
<1> QED
  BY <1>2, <1>3, <1>4
     DEF StartConnect, Count, Execute, Unwind, ThrowBesError, Goto

\* The builders.
LEMMA ExactDescribe ==
  ASSUME TypeInv, ExactInv,
         \/ RefuseDas \/ RefuseResponse \/ BeginDescribe \/ DescribeColumn
         \/ DescribePlaceholder \/ UnsupportedType \/ OldCodeRaises
         \/ DescriptionFails \/ EndDescribe \/ CloseDas
  PROVE  ExactInv'
<1>1. /\ ConnectorTypeOK /\ cur \in Cursor /\ NCols \in Nat \ {0}
  BY ConnectorAssumption DEF TypeInv, RequestTypeOK, ConnectorTypeOK
<1>2. CASE pc' \in {"unwind", "failed", "done", "close"}
  BY <1>2 DEF ExactInv
<1>3. CASE EndDescribe /\ pc' \in {"hold", "read"}
  <2>1. cur'.rows = cur.rows /\ result' = result /\ pc = "describe"
    BY <1>1, <1>3, ResetType DEF EndDescribe, StartOfRows, driverVars
  <2> QED
    BY <1>3, <2>1, ExactKept
<1>4. CASE BeginDescribe
  BY <1>1, <1>4, ResetType, ExactKept DEF BeginDescribe, ResetCursor, Goto, driverVars
<1>5. CASE DescribeColumn \/ DescribePlaceholder
  <2> DEFINE one == SetNext(cur, 1).cur
  <2>1. /\ pc = "describe" /\ pc' = "describe" /\ cur.cols = NCols
        /\ result' = result
        /\ cur' \in {cur, one, SetNext(one, 1).cur}
    BY <1>5 DEF DescribeColumn, DescribePlaceholder, PassColumn, PassAndDescribe,
       PassTwice, AtColumn, Describing, DescribeAs, connectorVars, driverVars,
       TypeInv, CursorInv
  <2>2. /\ one \in Cursor /\ one.cols = NCols /\ one.col <= NCols
        /\ one.row <= one.rows /\ one.rows = cur.rows
    BY <1>1, <2>1, PassType
  <2>3. SetNext(one, 1).cur.rows = cur.rows
    BY <2>2, AnyPassType
  <2> QED
    BY <2>1, <2>2, <2>3, ExactKept
<1> QED
  BY <1>2, <1>3, <1>4, <1>5, RequestAssumption
     DEF RefuseDas, RefuseResponse, UnsupportedType, OldCodeRaises,
         DescriptionFails, EndDescribe, CloseDas, Goto, TypeInv, RequestTypeOK

\* The value taken is that of the row in the making.
LEMMA ExactReadVariable ==
  ASSUME NoNulls, ResponseInv, TypeInv', ValueInv', ReadVariable
  PROVE  ExactInv'
<1>1. /\ NCols \in Nat \ {0} /\ cur \in Cursor /\ cur.row \in Nat
      /\ var \in Nat /\ var < NCols /\ cur.cols = NCols /\ ConnectorTypeOK
      /\ cur.notEnd /\ IndexInBounds
  BY ConnectorAssumption, AlignReadVariable DEF ResponseInv, ReadVariable,
     AtVariable, TypeInv, RequestTypeOK, ConnectorTypeOK, CursorInv, Cursor
<1>2. /\ pc = "row" /\ pc' = "row" /\ var' = var + 1 /\ GetNext
      /\ UNCHANGED <<delivered, result>> /\ out'.given /\ out'.row = cur.row
  BY DEF ReadVariable, AtVariable, GetNext
<1>3. cur'.rows = cur.rows /\ cur.rows = result
  BY <1>1, <1>2, GetNextType, PassType DEF ResponseInv, ExactInv
<1>4. Len(delivered) = cur.row
  <2>1. Len(delivered) \in Nat
    BY DEF ResponseInv, DeliveredInv
  <2> QED
    BY <1>1, <1>2, <2>1 DEF ResponseInv, DeliveredInv, RowsDone
<1>5. out'.val = Len(delivered) + 1
  <2>1. cur'.rows <= result'
    BY <1>2, <1>3, <1>1 DEF Cursor
  <2>2. \/ out'.val = out'.row + 1
        \/ out'.col \in Nullable
    BY <1>2, <2>1 DEF ValueInv, ValueOfItsRow
  <2> QED
    BY <1>2, <1>4, <2>2 DEF NoNulls
<1>6. row' = [c \in 0..(var' - 1) |-> Len(delivered) + 1]
  <2>1. row = [c \in 0..(var - 1) |-> Len(delivered) + 1]
    BY <1>2 DEF ResponseInv, ExactInv
  <2>2. 0..(var' - 1) = (DOMAIN row) \cup {var}
    BY <1>1, <1>2, <2>1
  <2> QED
    BY <1>1, <1>5, <2>1, <2>2 DEF ReadVariable
<1> QED
  BY <1>2, <1>3, <1>6 DEF ExactInv

\* SQLSequence.
LEMMA ExactRead ==
  ASSUME AllColumns, NoNulls, ResponseInv, TypeInv', ValueInv',
         \/ CopySequence \/ DropCopy \/ SendDds \/ Release \/ Abandon
         \/ StartRow \/ EndOfSequence \/ StopReading \/ SkipVariable
         \/ ReadPlaceholder \/ TraceVariable \/ ReadVariable \/ ReadFails
         \/ RowRead
  PROVE  ExactInv'
<1>1. /\ TypeInv /\ AlignInv /\ ExactInv
      /\ ConnectorTypeOK /\ owners \in Nat
  BY RequestAssumption DEF ResponseInv, TypeInv, RequestTypeOK
<1>2. CASE DropCopy \/ Release
  <2>1. /\ pc' \in {"hold", "read", "release", "done"} /\ UNCHANGED result
        /\ pc' \in {"hold", "read"} => pc \in {"hold", "read"}
    BY <1>2 DEF DropCopy, Release, DestroySequence, Close, CloseThen, connectorVars
  <2>2. cur'.rows = cur.rows
    BY <1>1, <1>2, ResetType
       DEF DropCopy, Release, DestroySequence, Close, CloseThen, connectorVars
  <2> QED
    BY <1>1, <2>1, <2>2, ExactKept
<1>3. CASE StartRow
  <2>1. /\ row' = [c \in {} |-> Zeros] /\ var' = 0 /\ delivered' = delivered
        /\ UNCHANGED <<cur, result>> /\ pc = "read" /\ pc' = "row"
    BY <1>3 DEF StartRow, connectorVars
  <2>2. row' = [c \in 0..(var' - 1) |-> Len(delivered') + 1]
    <3>1. 0..(var' - 1) = {}
      BY <2>1
    <3> QED
      BY <2>1, <3>1
  <2> QED
    BY <1>1, <2>1, <2>2 DEF ExactInv
<1>4. CASE CopySequence
  <2>1. pc \in {"hold", "read"} /\ pc' = pc /\ result' = result
        /\ cur'.rows = cur.rows
    BY <1>1, <1>4, ResetType DEF CopySequence, driverVars
  <2> QED
    BY <1>1, <2>1, ExactKept
<1>5. CASE SendDds \/ EndOfSequence \/ StopReading \/ RowRead
  <2>1. UNCHANGED <<cur, result>> /\ pc' \in {"release", "read"}
        /\ pc \in {"hold", "read", "row"}
    BY <1>5 DEF SendDds, EndOfSequence, StopReading, RowRead, Goto, connectorVars
  <2> QED
    BY <1>1, <2>1, ExactKept
<1> QED
  BY <1>1, <1>2, <1>3, <1>4, <1>5, NoDetours, ExactReadVariable

\* The initial states.
LEMMA ResponseInit == RequestInit => ResponseInv
  BY TypeInit, AlignInit, DeliveredInit, ValueInit
     DEF RequestInit, ExactInv, ResponseInv

\* A step keeps all of it: the value of a row is right because ValueInv holds
\* after the step that takes it.
LEMMA ResponseStep ==
  ASSUME AllColumns, NoEmptyResult, NoFetchFault, NoNulls, CountIsExact,
         ResponseInv, [Next]_vars
  PROVE  ResponseInv'
<1>1. TypeInv' /\ AlignInv' /\ DeliveredInv' /\ ValueInv'
  BY TypeStep, AlignStep, DeliveredStep, ValueStep DEF ResponseInv
<1>2. CASE RequestStep
  BY <1>1, <1>2, ExactQuery, ExactDescribe, ExactRead DEF RequestStep, ResponseInv
<1>3. CASE CopySequence \/ DropCopy \/ StopReading
  BY <1>1, <1>3, ExactRead DEF ResponseInv
<1>4. CASE UNCHANGED vars
  BY <1>1, <1>4 DEF vars, connectorVars, requestVars, ExactInv, ResponseInv
<1> QED
  BY <1>1, <1>2, <1>3, <1>4 DEF Next, Environment, CountIsExact, ResponseInv

\* A step of the request is one of the stream, or leaves its variables alone.
LEMMA StreamStep ==
  ASSUME AllColumns, ResponseInv, [Next]_vars
  PROVE  [Stream!Execute \/ Stream!Deliver \/ Stream!End]_(Stream!streamVars)
<1>1. /\ TypeInv /\ AlignInv /\ DeliveredInv /\ ExactInv /\ MaxRows \in Nat
      /\ ConnectorTypeOK /\ result \in Nat /\ delivered \in Seq([Columns -> Nat])
      /\ Len(delivered) \in Nat
  BY ConnectorAssumption
     DEF ResponseInv, TypeInv, RequestTypeOK, ConnectorTypeOK, DeliveredInv
<1>2. CASE Execute /\ QueryExec
  <2>1. /\ delivered = <<>> /\ ~ended /\ UNCHANGED <<delivered, ended>>
        /\ result' = db.match
    BY <1>1, <1>2 DEF Execute, QueryExec, Goto, ThrowBesError, DeliveredInv
  <2>2. result' \in 0..MaxRows
    BY <1>1, <2>1, ConnectorAssumption DEF DeliveredInv
  <2> QED
    BY <2>1, <2>2 DEF Stream!Execute
<1>3. CASE RowRead
  <2>1. /\ delivered' = Append(delivered, row) /\ Len(delivered) + 1 <= cur.rows
        /\ cur.rows = result /\ ~ended /\ UNCHANGED <<ended, result>>
    BY <1>1, <1>3, DeliveredRowRead
       DEF RowRead, connectorVars, DeliveredInv, ExactInv
  <2>2. row = [c \in Columns |-> Len(delivered) + 1]
    BY <1>1, <1>3 DEF RowRead, ExactInv, Columns
  <2>3. row = Stream!RowNumber(Len(delivered) + 1)
    BY <2>2 DEF Stream!RowNumber
  <2>4. Len(delivered) < result
    BY <1>1, <2>1
  <2> QED
    BY <2>1, <2>3, <2>4 DEF Stream!Deliver
<1>4. CASE EndOfSequence
  <2>1. /\ pc = "read" /\ ~cur.notEnd /\ ended' = TRUE
        /\ UNCHANGED <<result, delivered>>
    BY <1>1, <1>4 DEF EndOfSequence, NothingLeft, AlignInv, connectorVars
  <2>2. ~ended /\ Len(delivered) = result
    BY <1>1, <2>1 DEF DeliveredInv, RowsDone, ExactInv
  <2> QED
    BY <2>1, <2>2 DEF Stream!End
<1>5. CASE StartConnect \/ Count \/ (Execute /\ ~QueryExec) \/ Unwind
  <2>1. UNCHANGED <<result, delivered, ended>>
    BY <1>5 DEF StartConnect, Connect, Count, QueryCount, QueryCountFails,
       ThrowBesError, Execute, QueryExecFails, QueryColumnsFail, LeaveQuery,
       Unwind, AfterUnwind, Close, CloseThen, Goto, driverVars
  <2> QED
    BY <2>1 DEF Stream!streamVars
<1>6. CASE \/ RefuseDas \/ RefuseResponse \/ BeginDescribe \/ DescribeColumn
           \/ DescribePlaceholder \/ UnsupportedType \/ OldCodeRaises
           \/ DescriptionFails \/ EndDescribe \/ CloseDas
  <2>1. UNCHANGED <<result, delivered, ended>>
    BY <1>6 DEF RefuseDas, RefuseResponse, BeginDescribe, ResetCursor,
       DescribeColumn, DescribePlaceholder, UnsupportedType, OldCodeRaises,
       DescriptionFails, EndDescribe, CloseDas, CloseThen, PassColumn,
       PassAndDescribe, PassTwice, AtColumn, Describing, DescribeAs, Goto,
       connectorVars, driverVars
  <2> QED
    BY <2>1 DEF Stream!streamVars
<1>7. CASE \/ CopySequence \/ DropCopy \/ SendDds \/ Release \/ Abandon
           \/ StartRow \/ StopReading \/ SkipVariable \/ ReadPlaceholder
           \/ TraceVariable \/ ReadVariable \/ ReadFails
  <2>1. UNCHANGED <<result, delivered, ended>>
    BY <1>7 DEF CopySequence, DropCopy, DestroySequence, Close, CloseThen,
       SendDds, Release, Abandon, StartRow, StopReading, SkipVariable,
       ReadPlaceholder, TraceVariable, ReadVariable, GetNext, ReadFails, Goto,
       connectorVars, driverVars
  <2> QED
    BY <2>1 DEF Stream!streamVars
<1>8. CASE (DatabaseChanges /\ UNCHANGED requestVars) \/ UNCHANGED vars
  BY <1>8 DEF DatabaseChanges, driverVars, requestVars, vars, connectorVars,
              Stream!streamVars
<1> QED
  BY <1>2, <1>3, <1>4, <1>5, <1>6, <1>7, <1>8 DEF Next, RequestStep, Environment

(* The data response is the result set: its rows in order, each exactly    *)
(* once and complete, then the end, or a prefix of them if the request     *)
(* fails or the reader stops asking.  For every number of columns, rows    *)
(* and copies, if all columns are read, no fetch fails, no result set is   *)
(* empty and no value NULL, and the COUNT statement counts what the SELECT *)
(* returns.                                                                *)
THEOREM ImplementsRowStream ==
  ASSUME AllColumns, NoEmptyResult, NoFetchFault, NoNulls, CountIsExact
  PROVE  Spec => RowsInOrder
<1>1. RequestInit => ResponseInv /\ Stream!StreamInit
  <2>1. RequestInit => Stream!StreamInit
    BY ConnectorAssumption DEF RequestInit, ConnectorInit, Stream!StreamInit
  <2> QED
    BY <2>1, ResponseInit
<1>2. ResponseInv /\ [Next]_vars
        => /\ ResponseInv'
           /\ [Stream!Execute \/ Stream!Deliver \/ Stream!End]_(Stream!streamVars)
  BY ResponseStep, StreamStep
<1> QED
  BY <1>1, <1>2, PTL DEF Spec, RowsInOrder, Stream!StreamSpec
=============================================================================
