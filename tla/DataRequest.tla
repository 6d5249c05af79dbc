----------------------------- MODULE DataRequest -----------------------------
(***************************************************************************)
(* One DAS, DDS or data request on the ODBC plugin, from the moment the    *)
(* handler calls ODBCPlugin::build_das, build_dds or build_data to the     *)
(* moment its connector is gone: handler/SQLBuildDAS.h, SQLBuildDDS.h and  *)
(* SQLBuildDATA.h, the connect, query, next-type and close actions they    *)
(* call, and the DTM/SQLSequence.h whose read() delivers the rows.  The    *)
(* connector's own steps come from ODBCConnector; libdap, which calls      *)
(* read() and destroys the response, is external.                          *)
(***************************************************************************)
EXTENDS ODBCConnector, Sequences

CONSTANTS
  Kinds,        \* the responses asked for: "das", "dds", "data"
  CheckPoints,  \* the SQL.CheckPoint setting: "connect", "query", ...
  Sent,         \* columns whose variables libdap reads
  MaxOwners,    \* bounds the SQLSequence instances sharing the connector
  RequestFaults,\* steps outside the driver that may fail
  BesIsStd,     \* BESError of the library is a std::exception
  Traced,       \* the debug context of the module is on
  Quiet         \* no other client writes to the database

ASSUME RequestAssumption ==
  /\ Kinds \subseteq {"das", "dds", "data"}
  /\ Sent \subseteq Columns
  /\ MaxOwners \in Nat \ {0}
  /\ RequestFaults \subseteq {"response", "type", "unsupported"}
  /\ Traced \in BOOLEAN /\ Quiet \in BOOLEAN /\ BesIsStd \in BOOLEAN

VARIABLES
  kind,      \* the response being built
  pc,        \* where the request is
  described, \* the column each variable of the sequence describes
  owners,    \* SQLSequence instances sharing the connector
  var,       \* variable read() is at
  row,       \* values read so far of the current row
  delivered, \* rows handed to libdap
  discarded, \* a traced read has taken its first value
  ended      \* read() has returned true: end of the sequence

requestVars == <<kind, pc, described, owners, var, row, delivered, discarded,
                 ended>>
vars == <<connectorVars, requestVars>>

Dummy == NCols     \* described: the placeholder of a column without a type

RequestInit ==
  /\ ConnectorInit
  /\ kind \in Kinds
  /\ pc = "start"
  /\ described = <<>> /\ owners = 0
  /\ var = 0 /\ row = [c \in {} |-> Zeros] /\ delivered = <<>>
  /\ discarded = FALSE /\ ended = FALSE

Goto(next) ==
  /\ pc' = next
  /\ UNCHANGED <<kind, described, owners, var, row, delivered, discarded, ended>>

-----------------------------------------------------------------------------
(* SQLErrorManager::trigger as ErrorPolicy has it, with the lists of the   *)
(* ODBC plugin: an active check point raises an error for the code rc,     *)
(* whichever call to the driver has left it.  Codes the plugin has no list *)
(* for (SQL_STILL_EXECUTING, SQL_NEED_DATA) are those of asynchronous      *)
(* calls and of parameters, which the connector does not use.              *)

Policy == INSTANCE ErrorPolicy WITH
            Checks <- CheckPoints, Forced <- "always",
            Codes <- {"success", "nodata", "error"}, Errors <- {"error"},
            Unmapped <- {},
            configured <- TRUE, function <- CheckPoints, asked <- "always",
            code <- rc, pending <- FALSE, outcome <- "none"

Raises(check) == Policy!Verdict(check, rc) = "fatal"

-----------------------------------------------------------------------------
(* SQLConnectAction::connect, then SQLQueryAction::query.                  *)

\* sql_build_das looks at the response object before it connects.
RefuseDas ==
  /\ pc = "start" /\ kind = "das" /\ "response" \in RequestFaults
  /\ Goto("failed")
  /\ UNCHANGED connectorVars

\* The check point ON_CONNECT looks at the return code connect() kept.
StartConnect ==
  /\ pc = "start"
  /\ Connect
  /\ Goto(IF Raises("connect")' THEN "unwind" ELSE "connected")

\* The catch clauses of the query action name SQLInternalError,
\* SQLInternalFatalError and std::exception; what only the last one, "...",
\* catches leaves the connector open.
ThrowBesError == Goto(IF BesIsStd THEN "unwind" ELSE "failed")

Count ==
  /\ pc = "connected"
  /\ \/ QueryCount /\ Goto("counted")
     \/ QueryCountFails /\ ThrowBesError

\* The check point ON_QUERY meets the code of a query that succeeded.
Execute ==
  /\ pc = "counted"
  /\ \/ QueryExec /\ Goto(IF Raises("query")' THEN "unwind" ELSE "queried")
     \/ QueryExecFails /\ ThrowBesError
     \/ QueryColumnsFail /\ Goto("unwind")

\* Mutant of AfterUnwind: the handler of one exception forgets to close.
UnwindNoClose == UNCHANGED connectorVars

\* The other catch clauses of the three actions close the connector.
AfterUnwind == Close

\* An exception of connect, query or nextType on its way out.
Unwind ==
  /\ pc = "unwind"
  /\ AfterUnwind
  /\ Goto("failed")

\* sql_build_dds and sql_build_data look at the response object when the
\* connection is open, and nothing on the way out closes it.
RefuseResponse ==
  /\ pc = "queried" /\ kind # "das" /\ "response" \in RequestFaults
  /\ Goto("failed")
  /\ UNCHANGED connectorVars

BeginDescribe ==
  /\ pc = "queried"
  /\ ResetCursor
  /\ Goto("describe")

-----------------------------------------------------------------------------
(* The loop over the columns: SQLNextTypeAction::nextType makes a variable *)
(* for the cursor's column and moves the cursor.                           *)

\* Mutant of Describing: the loop has no limit.
DescribingOn == pc = "describe"

Describing == pc = "describe" /\ Len(described) < NCols

DescribeAs(column) ==
  /\ described' = Append(described, column)
  /\ UNCHANGED <<kind, pc, owners, var, row, delivered, discarded, ended>>

\* The first variable has filled the lists of names and of descriptions.
ListsFilled == \E i \in DOMAIN described : described[i] # Dummy

\* nextType triggers the check points when it has moved the cursor: for a row
\* passed ON_NEXT_ROW unless the end is reached, and always ON_GET_NEXT.
TurnsRow == SetNext(cur, 1).ret > 0 /\ SetNext(cur, 1).cur.notEnd

CheckRaises == Raises("getnext") \/ (TurnsRow /\ Raises("nextrow"))

AtColumn == Describing /\ cur.col < NCols /\ ~CheckRaises

\* The code is the one a description has left: nextType closes and throws.
OldCodeRaises ==
  /\ Describing /\ cur.col < NCols /\ CheckRaises
  /\ PassColumn
  /\ Goto("unwind")

DescribeColumn ==
  /\ AtColumn
  /\ IF ListsFilled THEN PassColumn ELSE PassAndDescribe("getnext" \in CheckPoints)
  /\ DescribeAs(cur.col)

\* The builders of the DDS and of the data move the cursor for a column
\* without a type, after nextType has moved it.
PassTwice ==
  /\ cur' = SetNext(SetNext(cur, 1).cur, 1).cur
  /\ UNCHANGED <<db, driverVars, rc, ready, counted, toFetch, buf, out>>

\* nextType returns NULL: the type action of the plugin makes no object (the
\* ODBC plugin's always makes one or refuses the type), or the cursor has
\* passed the last column and getType() throws before nextType moves it.
DescribePlaceholder ==
  /\ Describing
  /\ \/ /\ "type" \in RequestFaults /\ AtColumn
        /\ IF kind = "das" THEN PassColumn ELSE PassTwice
     \/ /\ cur.col >= NCols
        /\ IF kind = "das" THEN UNCHANGED connectorVars ELSE PassColumn
  /\ DescribeAs(Dummy)

\* The type action refuses the column's SQL type, or the variable it makes does
\* not learn its name: nextType closes and throws.
UnsupportedType ==
  /\ Describing /\ cur.col < NCols
  /\ "unsupported" \in RequestFaults \/ (NamesUnknown /\ ~ListsFilled)
  /\ UNCHANGED connectorVars
  /\ Goto("unwind")

\* getColDesc throws after nextType, if its check point is active: the builder
\* does not catch it.
DescriptionFails ==
  /\ AtColumn /\ ~ListsFilled
  /\ DescriptionsUnknown /\ "getnext" \in CheckPoints
  /\ PassColumn
  /\ Goto("failed")

\* Mutant of StartOfRows: the cursor stays where the description left it.
StayThere(c) == c

\* "reset connector index position before start transfer"
StartOfRows(c) == Reset(c)

EndDescribe ==
  /\ pc = "describe" /\ Len(described) = NCols
  /\ cur' = IF kind = "das" THEN cur ELSE StartOfRows(cur)
  /\ UNCHANGED <<db, driverVars, rc, ready, counted, toFetch, buf, out>>
  /\ pc' = CASE kind = "das" -> "close" [] kind = "dds" -> "hold"
             [] kind = "data" -> "read"
  /\ owners' = IF kind = "das" THEN 0 ELSE 1
  /\ UNCHANGED <<kind, described, var, row, delivered, discarded, ended>>

\* SQLCloseAction::close at the end of sql_build_das: the check point ON_CLOSE
\* meets the code of the last description.
CloseDas ==
  /\ pc = "close"
  /\ CloseThen(Raises("close"))
  /\ Goto(IF Raises("close") THEN "failed" ELSE "done")
-----------------------------------------------------------------------------
(* SQLSequence: ptr_duplicate, read and the destructor.                    *)

\* A copy shares the connector and resets it if it is ready.  Copies are
\* made of the response before it is read: the cursor of a result set that
\* has been fetched from cannot go back.
CopySequence ==
  /\ pc \in {"hold", "read"} /\ ~out.given
  /\ owners \in 1..(MaxOwners - 1)
  /\ cur' = IF ready THEN Reset(cur) ELSE cur
  /\ UNCHANGED <<db, driverVars, rc, ready, counted, toFetch, buf, out>>
  /\ owners' = owners + 1
  /\ UNCHANGED <<kind, pc, described, var, row, delivered, discarded, ended>>

\* Mutant of ClosesOnDelete: every instance closes the connector.
ClosesAlways(instances) == instances > 0

ClosesOnDelete(instances) == instances = 1

\* One instance is destroyed; the last one closes the connector.
DestroySequence(next) ==
  /\ owners > 0
  /\ IF ClosesOnDelete(owners) THEN Close ELSE UNCHANGED connectorVars
  /\ owners' = owners - 1
  /\ pc' = IF owners = 1 THEN next ELSE pc
  /\ UNCHANGED <<kind, described, var, row, delivered, discarded, ended>>

DropCopy ==
  pc \in {"hold", "read"} /\ owners > 1 /\ DestroySequence("done")

\* A DDS response is sent without reading the sequence.
SendDds ==
  /\ pc = "hold"
  /\ Goto("release")
  /\ UNCHANGED connectorVars

Release == pc = "release" /\ DestroySequence("done")

\* The response is destroyed after read() threw.
Abandon == pc = "abandon" /\ DestroySequence("failed")

\* read() called for the next row: the rows end when the cursor says so.
StartRow ==
  /\ pc = "read" /\ ready /\ cur.notEnd
  /\ pc' = "row" /\ var' = 0 /\ row' = [c \in {} |-> Zeros]
  /\ UNCHANGED connectorVars
  /\ UNCHANGED <<kind, described, owners, delivered, discarded, ended>>

\* Mutant of NothingLeft: the end of the cursor is not looked at.
NothingLeftIfClosed == ~ready

NothingLeft == ~(ready /\ cur.notEnd)

EndOfSequence ==
  /\ pc = "read" /\ NothingLeft
  /\ pc' = "release" /\ ended' = TRUE
  /\ UNCHANGED connectorVars
  /\ UNCHANGED <<kind, described, owners, var, row, delivered, discarded>>

\* libdap asks for no more rows: a range of rows was requested.
StopReading ==
  /\ pc = "read" /\ delivered # <<>>
  /\ UNCHANGED connectorVars
  /\ Goto("release")

AtVariable == pc = "row" /\ var < NCols

\* Variables that are not sent are not read.
SkipVariable ==
  /\ AtVariable /\ var \notin Sent
  /\ var' = var + 1
  /\ UNCHANGED connectorVars
  /\ UNCHANGED <<kind, pc, described, owners, row, delivered, discarded, ended>>

\* The placeholder's read() takes nothing from the connector.
ReadPlaceholder ==
  /\ AtVariable /\ var \in Sent /\ described[var + 1] = Dummy
  /\ var' = var + 1
  /\ UNCHANGED connectorVars
  /\ UNCHANGED <<kind, pc, described, owners, row, delivered, discarded, ended>>

\* With tracing on, the debug message of read() calls cast(), which takes a
\* value from the connector, before read() calls it for the value it keeps.
TraceVariable ==
  /\ AtVariable /\ var \in Sent /\ described[var + 1] # Dummy
  /\ Traced /\ ~discarded
  /\ GetNext
  /\ discarded' = TRUE
  /\ UNCHANGED <<kind, pc, described, owners, var, row, delivered, ended>>

ReadVariable ==
  /\ AtVariable /\ var \in Sent /\ described[var + 1] # Dummy
  /\ Traced => discarded
  /\ GetNext
  /\ row' = [c \in DOMAIN row \cup {var} |->
               IF c = var THEN out'.val ELSE row[c]]
  /\ var' = var + 1
  /\ discarded' = FALSE
  /\ UNCHANGED <<kind, pc, described, owners, delivered, ended>>

\* getNext() throws: read() closes the connector and throws on.
ReadFails ==
  /\ AtVariable /\ var \in Sent /\ described[var + 1] # Dummy
  /\ ~CanGetNext
  /\ Close
  /\ Goto("abandon")

\* Bounds the rows delivered is made to remember: one more than a sequence
\* of MaxRows + MaxUncounted rows has.
MaxDelivered == MaxRows + MaxUncounted + 1

RowRead ==
  /\ pc = "row" /\ var = NCols
  /\ delivered' = IF Len(delivered) < MaxDelivered THEN Append(delivered, row)
                                                   ELSE delivered
  /\ pc' = "read"
  /\ UNCHANGED connectorVars
  /\ UNCHANGED <<kind, described, owners, var, row, discarded, ended>>
-----------------------------------------------------------------------------
Finished == pc \in {"done", "failed"}

\* The request itself runs to its end in one thread.
RequestStep ==
  \/ RefuseDas \/ StartConnect \/ Count \/ Execute \/ Unwind
  \/ RefuseResponse \/ BeginDescribe
  \/ DescribeColumn \/ DescribePlaceholder \/ UnsupportedType
  \/ OldCodeRaises \/ DescriptionFails \/ EndDescribe \/ CloseDas
  \/ SendDds \/ Release \/ Abandon
  \/ StartRow \/ EndOfSequence \/ SkipVariable \/ ReadPlaceholder
  \/ TraceVariable \/ ReadVariable \/ ReadFails \/ RowRead

\* What other parts of the server or of the world may do meanwhile.
Environment ==
  \/ ~Quiet /\ ~Finished /\ DatabaseChanges /\ UNCHANGED requestVars
  \/ CopySequence \/ DropCopy \/ StopReading

Next == RequestStep \/ Environment \/ (Finished /\ UNCHANGED vars)

Spec == RequestInit /\ [][Next]_vars

\* A request thread is not suspended for ever.
FairSpec == Spec /\ WF_vars(RequestStep)

-----------------------------------------------------------------------------

ConnectorTypeOK ==
  /\ cur \in Cursor /\ cur.col <= cur.cols /\ cur.row <= cur.rows
  /\ ready \in BOOLEAN /\ counted \in BOOLEAN
  /\ alive \in BOOLEAN /\ misused \in BOOLEAN
  /\ link \in {"null", "open", "freed"} /\ stmt \in {"null", "open", "freed"}
  /\ rc \in {"success", "nodata", "error"}
  /\ db \in [match : Nat, uncounted : Nat]
  /\ result \in Nat /\ pos \in Nat /\ toFetch \in Nat
  /\ buf \in [Columns -> Nat]
  /\ out \in [row : Nat, col : Nat, val : Nat, given : BOOLEAN]

(* Every variable has its type; the cursor stays inside the result set or  *)
(* one past its end, and a variable is described for each column at most.  *)
RequestTypeOK ==
  /\ ConnectorTypeOK
  /\ kind \in Kinds
  /\ pc \in {"start", "connected", "counted", "queried", "describe", "hold",
             "read", "row", "release", "close", "unwind", "abandon", "done", "failed"}
  /\ described \in Seq(0..NCols) /\ Len(described) <= NCols
  /\ owners \in 0..MaxOwners /\ var \in 0..NCols
  /\ DOMAIN row \subseteq Columns
  /\ discarded \in BOOLEAN /\ ended \in BOOLEAN

(* Every value getNext hands out belongs to the row of the result set the  *)
(* cursor stood on: fetching, which is driven by the count setNext         *)
(* returns, and the cursor, which is moved for the description, reset, and *)
(* moved again for the data, never drift apart.  Not claimed when the      *)
(* COUNT statement promised more rows than the result set has.             *)
ValueOfItsRow ==
  out.given /\ cur.rows <= result =>
    \/ out.val = out.row + 1
    \/ out.val = Wild /\ out.col \in Nullable

(* getNext() never reads d_buf beyond its last column: the columns of the  *)
(* cursor and the buffers are those of the same query, and setNext never   *)
(* leaves the cursor on a column that is not there.                        *)
IndexInBounds == ready /\ cur.notEnd => cur.col < NCols

\* The cursor has the shape of the result set from the query on and starts
\* from its first element until then.
CursorInv ==
  /\ pc \in {"start", "connected", "counted"} => cur.row = 0 /\ cur.col = 0
  /\ ready \/ pc \in {"queried", "describe", "hold", "read", "row"} =>
       cur.cols = NCols
  /\ IndexInBounds

\* The invariant that makes the type of the request inductive.
TypeInv == RequestTypeOK /\ CursorInv

\* The bound buffers hold the last row fetched, or the pointer to '0'.
BufferInv ==
  /\ result <= MaxRows /\ pos <= result /\ db.match \in MinRows..MaxRows
  /\ \A c \in Columns : /\ buf[c] = Wild => c \in Nullable
                        /\ ready /\ pos > 0 /\ buf[c] # Wild => buf[c] = pos

\* The driver is one row behind the cursor exactly when getNext has still to
\* fetch a row, and neither has moved before the first value.
FetchInv ==
  /\ pc \in {"start", "connected", "counted", "queried", "describe", "hold",
             "unwind"} => ~out.given
  /\ pc \in {"queried", "describe", "hold", "read", "row"} =>
       /\ cur.rows > 0
       /\ ~out.given => pos = 0 /\ toFetch = 1
  /\ pc \in {"counted"} => cur.rows > 0
  /\ pc \in {"read", "row"} /\ ready /\ cur.notEnd /\ cur.rows <= result =>
       pos + toFetch = cur.row + 1 /\ cur.row < cur.rows

\* The invariant ValueOfItsRow needs to be inductive.  It holds when no fetch
\* fails and no result set is empty.
StreamInv == TypeInv /\ BufferInv /\ FetchInv /\ ValueOfItsRow

\* Variables and columns go together: the columns are described in turn, and a
\* value is there for each variable of a row that was begun.  It holds when every
\* column has a variable, all are sent and nothing else takes values.
AlignInv ==
  /\ pc # "abandon" /\ ~discarded
  /\ pc \in {"queried", "describe", "hold", "read", "row"} => ready
  /\ pc \in {"start", "connected", "counted", "queried"} => described = <<>>
  /\ \A i \in 1..Len(described) : described[i] = i - 1
  /\ pc = "describe" /\ Len(described) < NCols => cur.col = Len(described)
  /\ pc \in {"hold", "read", "row"} => Len(described) = NCols
  /\ pc \in {"hold", "read"} /\ cur.notEnd => cur.col = 0
  /\ pc = "row" => IF var < NCols THEN cur.notEnd /\ cur.col = var
                                  ELSE cur.notEnd => cur.col = 0

\* Nothing is freed before the request's last step, and the check point of
\* close has no error to look at.
HandleInv ==
  /\ ~misused
  /\ pc \notin {"done", "failed"} => link # "freed" /\ stmt # "freed"
  /\ pc \in {"queried", "describe", "close"} => ~Raises("close")

\* The rows counted, those delivered and the cursor's: the cursor is in the row
\* after those delivered, until it has passed the last variable.
RowsDone == IF cur.notEnd THEN cur.row ELSE cur.rows

DeliveredInv ==
  /\ delivered \in Seq([Columns -> Nat])
  /\ pc = "row" => row \in [0..(var - 1) -> Nat]
  /\ db.match \in MinRows..MaxRows /\ db.uncounted \in 0..MaxUncounted
  /\ pc \in {"counted", "queried", "describe", "hold", "read", "row"} =>
       0 < cur.rows /\ cur.rows <= MaxRows + MaxUncounted
  /\ pc \in {"hold", "read", "row"} /\ cur.notEnd => cur.row < cur.rows
  /\ pc \in {"start", "connected", "counted", "queried", "describe", "hold"} =>
       delivered = <<>>
  /\ pc \in {"read", "row"} /\ ~out.given =>
       delivered = <<>> /\ (pc = "row" => var = 0)
  /\ pc = "read" => Len(delivered) = RowsDone
  /\ pc = "row" => Len(delivered) + (IF var < NCols THEN 0 ELSE 1) = RowsDone
  /\ ended => pc \in {"release", "done"} /\ Len(delivered) = cur.rows

\* What the refinement of RowStream needs beside: the count is the result's, and
\* a row in the making holds the values of its number.
ExactInv ==
  /\ pc = "counted" => cur.rows = db.match
  /\ pc \in {"queried", "describe", "hold", "read", "row"} => cur.rows = result
  /\ pc = "row" => row = [c \in 0..(var - 1) |-> Len(delivered) + 1]

(* The variable of a column receives a value of that column: read() takes  *)
(* the next value of the shared cursor, not the value of the variable's    *)
(* own _col.                                                               *)
OwnColumn ==
  [][pc = "row" /\ row' # row => out'.col = var /\ described[var + 1] = var]_vars

(* Freed handles are not given to the driver again, on any path of         *)
(* errors, copies and destructors.                                         *)
NoHandleMisuse == ~misused

(* No request ends, well or badly, with its connection still open: the     *)
(* catch clauses and the last destructor see to it.                        *)
ClosedOnExit == Finished => link # "open"

(* A sequence read to its end has as many rows as the COUNT statement      *)
(* answered, no row being lost or read twice at the turn of a row.         *)
RowsAsCounted == ended => Len(delivered) = cur.rows

(* A sequence that has been built is answered: whatever other clients do   *)
(* between the statements, however many copies libdap makes and wherever it *)
(* stops, reading it raises no error and its last copy is destroyed.       *)
ReadEndsWell == (pc \in {"hold", "read"}) ~> (pc = "done")

(* Every request comes to an end or is the request for placeholders only,  *)
(* whose read() never moves the cursor: no failure makes it run for ever.  *)
PlaceholdersOnly ==
  pc \in {"read", "row"} /\ \A v \in Sent : described[v + 1] = Dummy
EndsUnlessPlaceholders == <>(Finished \/ PlaceholdersOnly)

(* The response is the result set: see RowStream.                          *)
Stream == INSTANCE RowStream WITH MaxTotal <- MaxRows, total <- result
RowsInOrder == Stream!StreamSpec

(* "Use SQL's COUNT() function to get the number of rows that will be      *)
(* returned by the SELECT statement" (ODBCConnector.h:106).                *)
CountIsResult == ready => cur.rows = result

(* "if some fetched data is null set it to '0'" (ODBCConnector.cc:642):    *)
(* the reader of a NULL gets a value, not a wild pointer.                  *)
NullIsReadable == out.given => out.val # Wild

(* "reading all the element of this SQLSequence" (SQLSequence.h:179): a    *)
(* sequence read to its end has taken the first value of every row.        *)
ReadsAllElements ==
  [][ended' # ended => /\ Len(delivered) = result
                      /\ \A n \in 1..result : delivered[n][0] = n]_vars
=============================================================================
