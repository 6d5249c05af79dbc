---------------------------- MODULE ODBCConnector ----------------------------
(***************************************************************************)
(* The connector of unixODBC/ODBCConnector.cc between the SQL handler and  *)
(* an ODBC driver.  A query asks the database twice: getRowCount() runs a  *)
(* COUNT statement whose answer becomes the number of rows of the cursor,  *)
(* then the SELECT is executed and its columns bound to buffers.  Values   *)
(* are then handed out one by one: getNext() returns the bound buffer of   *)
(* the cursor's column, moves the cursor, and remembers in toFetchRows how *)
(* many rows the next call must fetch into the buffers first.              *)
(*                                                                         *)
(* The driver and the database are external.  A row of the result set is   *)
(* its number 1, 2, ...; a bound buffer is the number of the row whose     *)
(* value it holds, Zeros before any fetch, Wild for the pointer fetch()    *)
(* stores for a NULL.                                                      *)
(***************************************************************************)
EXTENDS SQLTypeConnector, FiniteSets

CONSTANTS
  NCols,        \* columns of the result set
  MinRows,      \* 0: the result set may be empty
  MaxRows,      \* bounds the rows that match the SELECT
  MaxUncounted, \* bounds the rows only the COUNT statement matches: it
                \* leaves out the constraint of the request
  Nullable,     \* columns, from 0, in which the database may hold NULL
  Faults        \* the driver calls that may fail

ASSUME ConnectorAssumption ==
  /\ NCols \in Nat \ {0} /\ 2 * NCols < SizeMax
  /\ MinRows \in Nat /\ MaxRows \in Nat /\ MaxUncounted \in Nat
  /\ Nullable \subseteq 0..(NCols - 1)
  /\ Faults \subseteq {"connect", "count", "exec", "size", "type", "bind",
                        "fetch", "name", "describe"}

Columns == 0..(NCols - 1)
Zeros == 0
Wild == MaxRows + 1

VARIABLES
  db,      \* [match, uncounted]: rows in the tables now (external)
  result,  \* rows of the open result set, fixed when it was executed
  pos,     \* rows of it the driver has fetched
  link,    \* environment and connection handles: "null", "open", "freed"
  alive,   \* SQLConnect succeeded
  stmt,    \* statement handle: "null", "open", "freed"
  misused, \* a freed handle was given to the driver again
  rc,      \* return code kept from the last driver call
  ready,   \* _isReady
  counted, \* between the COUNT statement and the SELECT of query()
  cur,     \* the cursor
  toFetch, \* toFetchRows
  buf,     \* d_buf: what each bound column holds
  out      \* the last value getNext handed out, with its row and column

dbVars == <<db>>
driverVars == <<result, pos, link, alive, stmt, misused>>
stateVars == <<rc, ready, counted, cur, toFetch, buf, out>>
connectorVars == <<db, result, pos, link, alive, stmt, misused,
                   rc, ready, counted, cur, toFetch, buf, out>>

NoBuffers == [c \in Columns |-> Zeros]
NoValue == [row |-> 0, col |-> 0, val |-> Zeros, given |-> FALSE]

MayFail(call) == call \in Faults

(* A connector just constructed, over a database in any state. *)
ConnectorInit ==
  /\ db \in [match : MinRows..MaxRows, uncounted : 0..MaxUncounted]
  /\ result = 0 /\ pos = 0
  /\ link = "null" /\ alive = FALSE /\ stmt = "null" /\ misused = FALSE
  /\ rc = "success" /\ ready = FALSE /\ counted = FALSE
  /\ cur = NewCursor /\ toFetch = 0
  /\ buf = NoBuffers /\ out = NoValue

-----------------------------------------------------------------------------
(* Another client of the database commits an insertion or a deletion. *)
DatabaseChanges ==
  /\ \E m \in MinRows..MaxRows : db' = [db EXCEPT !.match = m]
  /\ UNCHANGED <<driverVars, stateVars>>

(* connect(): handles are allocated and SQLConnect called; the return code *)
(* is kept and true returned whatever it is.                               *)
Connect ==
  /\ cur' = IF ready THEN Reset(cur) ELSE cur
  /\ buf' = NoBuffers
  /\ ready' = FALSE
  /\ link' = "open"
  /\ \/ alive' = TRUE /\ rc' = "success"
     \/ MayFail("connect") /\ alive' = FALSE /\ rc' = "error"
  /\ UNCHANGED <<db, result, pos, stmt, misused, counted, toFetch, out>>

\* What SELECT COUNT( * ) answers: buildCountQuery() leaves the constraint
\* of the request out.
CountOf(d) == d.match + d.uncounted

(* query(), up to setRows(getRowCount()). *)
QueryCount ==
  /\ alive /\ ~counted
  /\ cur' = [(IF ready THEN Reset(cur) ELSE cur) EXCEPT !.rows = CountOf(db)]
  /\ ready' = FALSE
  /\ buf' = NoBuffers
  /\ counted' = TRUE
  /\ rc' = "success"
  /\ UNCHANGED <<db, driverVars, toFetch, out>>

\* getRowCount() throws: the COUNT statement was refused, or the connection
\* is not alive.
QueryCountFails ==
  /\ ~counted
  /\ MayFail("count") \/ ~alive
  /\ rc' = "error"
  /\ cur' = IF ready THEN Reset(cur) ELSE cur
  /\ ready' = FALSE
  /\ buf' = NoBuffers
  /\ UNCHANGED <<db, driverVars, counted, toFetch, out>>

RowsToFetchFirst == 1

(* query(), from the SELECT on: execute, size the columns, bind, reset.    *)
QueryExec ==
  /\ counted /\ alive
  /\ stmt' = "open"
  /\ result' = db.match /\ pos' = 0
  /\ cur' = Reset([cur EXCEPT !.cols = NCols])
  /\ toFetch' = RowsToFetchFirst
  /\ buf' = NoBuffers
  /\ ready' = TRUE /\ counted' = FALSE
  /\ rc' = "success"
  /\ UNCHANGED <<db, link, alive, misused, out>>

\* getColSize() and getType() fill the list of their attribute on its first use
\* by asking the driver for every column, and throw if it refuses one.
SizesUnknown == MayFail("size")
TypesUnknown == MayFail("type")

\* The same for getColName() and getColDesc(), of an open result set.
NamesUnknown == MayFail("name")
DescriptionsUnknown == MayFail("describe")

\* query() throws with the statement handle allocated.
LeaveQuery ==
  /\ counted
  /\ stmt' = "open"
  /\ counted' = FALSE
  /\ rc' = "error"
  /\ UNCHANGED <<db, result, pos, link, alive, misused, ready, toFetch, buf, out>>

\* The SELECT is refused, or its columns cannot be bound: a BESInternalError.
QueryExecFails ==
  /\ \/ MayFail("exec") /\ UNCHANGED cur
     \/ MayFail("bind") /\ cur' = [cur EXCEPT !.cols = NCols]
  /\ LeaveQuery

\* The columns cannot be sized or typed: the forced check raises a fatal error.
QueryColumnsFail ==
  /\ SizesUnknown \/ TypesUnknown
  /\ cur' = [cur EXCEPT !.cols = NCols]
  /\ LeaveQuery

-----------------------------------------------------------------------------
\* Mutant of Fetched: the memory of the last column is not bound.
FetchedFirstOnly(b, row, nulls) ==
  [c \in Columns |-> IF c = 0 THEN row ELSE b[c]]

\* The buffers after SQLFetch has delivered row, in which the columns nulls
\* are NULL: the driver fills the memory bound to a column, but d_buf[c] of
\* a NULL column becomes the pointer '0' and no later row can be read there.
Fetched(b, row, nulls) ==
  [c \in Columns |-> IF b[c] = Wild \/ c \in nulls THEN Wild ELSE row]

\* fetch() called n times.  Its return code is not looked at: after the last
\* row, or when the driver fails, the buffers keep what they held.
FetchRows(n) ==
  LET last == IF pos + n < result THEN pos + n ELSE result
  IN  \/ /\ last > pos
         /\ \E nulls \in SUBSET Nullable : buf' = Fetched(buf, last, nulls)
         /\ pos' = last
         /\ rc' = IF last = pos + n THEN "success" ELSE "nodata"
      \/ /\ last = pos
         /\ rc' = IF n > 0 THEN "nodata" ELSE rc
         /\ UNCHANGED <<buf, pos>>
      \/ /\ n > 0 /\ MayFail("fetch")
         /\ rc' = "error"
         /\ UNCHANGED <<buf, pos>>

\* toFetchRows after a value was handed out.
RowsToSkip(moved) == moved.ret

CanGetNext == ready /\ cur.notEnd

(* getNext(), which throws SQLInternalError unless CanGetNext. *)
GetNext ==
  /\ CanGetNext
  /\ FetchRows(toFetch)
  /\ out' = [row |-> cur.row, col |-> cur.col, val |-> buf'[cur.col],
             given |-> TRUE]
  /\ cur' = SetNext(cur, 1).cur
  /\ toFetch' = RowsToSkip(SetNext(cur, 1))
  /\ UNCHANGED <<db, result, link, alive, stmt, misused, ready, counted>>

(* setNext() called by the builders, to pass over a column. *)
PassColumn ==
  /\ cur' = SetNext(cur, 1).cur
  /\ UNCHANGED <<db, driverVars, rc, ready, counted, toFetch, buf, out>>

\* The return codes getColDesc() can leave when it fills its list: a column the
\* driver refuses to describe raises an error only if ON_GET_NEXT is active.
CodesLeft(checked) ==
  IF DescriptionsUnknown /\ ~checked THEN {"success", "error"} ELSE {"success"}

(* setNext() for a column, then getColDesc() for the first time. *)
PassAndDescribe(checked) ==
  /\ cur' = SetNext(cur, 1).cur
  /\ rc' \in CodesLeft(checked)
  /\ UNCHANGED <<db, driverVars, ready, counted, toFetch, buf, out>>

(* reset() called by the builders and by SQLSequence. *)
ResetCursor ==
  /\ cur' = Reset(cur)
  /\ UNCHANGED <<db, driverVars, rc, ready, counted, toFetch, buf, out>>

(* close(): every handle is freed and none is set to NULL, then clean().   *)
(* If diagnosed, a check point meets an error code after it, and getMsg()  *)
(* asks the driver about the handles.                                      *)
CloseThen(diagnosed) ==
  /\ link' = IF link = "open" THEN "freed" ELSE link
  /\ stmt' = IF stmt = "open" THEN "freed" ELSE stmt
  /\ misused' = (misused \/ link = "freed" \/ stmt = "freed" \/ diagnosed)
  /\ alive' = FALSE
  /\ ready' = FALSE
  /\ cur' = Reset(cur)
  /\ buf' = NoBuffers
  /\ counted' = FALSE
  /\ UNCHANGED <<db, result, pos, rc, toFetch, out>>

Close == CloseThen(FALSE)
=============================================================================
