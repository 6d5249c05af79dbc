# A TLA+ model of the SQL handler

The SQL handler is a module of the OPeNDAP back-end server (BES).  A dataset
file describes a SELECT on a database server; the handler answers DAS, DDS and
data requests for that file with the rows of the SELECT.  This directory holds
TLA+ modules that model its core, TLC configurations that check them on small
instances, and proofs of some of their properties for every instance.  Paths of
sources below are relative to `src/`.

    tlc -workers 2 -config MCRequest.cfg DataRequest     # one run
    tlapm DataRequestProofs.tla                          # one module of proofs

`PROJECT.json` lists the runs, the mutants that show that each property can
fail, the source lines of each definition, the hazards and the theorems.

## 1. The system

    BES  --DAS/DDS/data request-->  SQLRequestHandler::wrapper
                                       |  getContainer (cache of dataset files)
                                       |  lastChanceRunner (section by section)
                                       v
                                   SQLPlugin (ODBCPlugin) ::build_das/dds/data
                                       |  sql_build_das, sql_build_dds, sql_build_data
                                       |  connect, query, nextType, close actions --> check points
                                       v
    libdap --read()--> SQLSequence, SQLSimpleType --getNext()--> ODBCConnector --> driver, database

| component (sources) | state it keeps | operations | what makes it correct |
|---|---|---|---|
| cursor of a connector (`connector/SQLTypeConnector.h`) | column, row, size, `_not_end` | `setNext`, `setRow`, `reset` | it walks row by row and returns the rows it moved down |
| ODBC connector (`unixODBC/ODBCConnector.*`) | handles, return code, `_isReady`, `toFetchRows`, bound buffers | `connect`, `query`, `getNext`, `close` | the value handed out is the cursor's; handles are freed once |
| response builders (`handler/SQLBuild*.h`) and their actions (`handler/connector/`) | the response being built | `sql_build_das`, `_dds`, `_data`; `connect`, `query`, `nextType`, `close` | one variable per column; the connection is closed whichever way a request ends |
| sequence and variables (`DTM/`) | instances that share a connector, `_dim` of the row | copy, `read`, destructor | the rows of the result set, in order, each once; closed by the last instance only |
| base request handler (`SQLRequestHandler.*`), plugin base class (`SQLPlugin.*`) and loaders (`SQLModule.*`, `unixODBC/ODBCPluginLoader.*`) | `_theList`, `_theWrapCount`, the methods of the handler | `add_sql_handler`, `remove_sql_handler`, `add_sql_wrapper`, `remove_sql_wrapper`, `initialize`, `terminate` | a method is there exactly as long as a plugin needs it |
| runner (`SQLRequestHandler.cc`) | the current section of the container | `wrapper`, `lastChanceRunner`, `find_sql_plugin` | no section that could answer is passed over or tried twice |
| container cache (`container/SQLContainer*`) | parsed containers with the modification time of their file | `getContainer`, `look_for`, `update`, `setup`, `isUpToDate` | no request gets contents that are too old; no file is parsed for nothing |
| dataset parser (`container/SQLTextContainer.*`, `SQLTextDefinitions.h`) | part, diary, section read, texts, variables | `read` and what it calls | sections are complete, hold their own rows only, and none is lost |
| query (`container/SQLQuery.*`, `SQLAttribute.h`, `SQLConstraint.h`, `utils/StringMatch.*`) | sets of attributes and constraints | `loadAttributes`, `match`, `buildQuery`, `buildCountQuery`, `comparatorSubst`, `attrToSelect` | attributes found are those written, no constraint is lost, every comparator reaches the database as its word as long as there are few, SELECT and COUNT agree where they can |
| dynamic error matching (`DEM/`) and actions (`action/`) | check points, static lists with their iterator | `init`, `check`, `trigger`, `doActions` | a driver error ends the request; a trigger ends |
| type factories (`DTM/*Factory*`, `unixODBC/ODBCTypeFactoryComponent.*`) | maps of type actions | `getType`, `action` | every column gets the class its value fits in |
| cast actions (`DTM/SQLCastAction.h`, `action/SQLObjectAction.h`) | a pointer to the value cast last | `cast`, `setVal`, `freeValue`, copy, destructor | a string has one owner and is freed once; an integer arrives as it is held |

The hard behaviour is not in threads (a BES process handles one request at a
time) but in state that several parts move in turn:

* One cursor is moved by the description of the columns, reset, and moved again
  by the reading of the data; the fetching from the driver lags one value behind
  it (`toFetchRows`).  A step too many anywhere shifts values by a column or a row.
* The number of rows comes from a statement of its own, before the SELECT.  Other
  clients of the database write in between.
* Everything that talks to the driver can fail, with a catch clause per exception
  that has to close the connector; copies of a sequence share it.
* A check point looks at the return code that whichever call to the driver came last
  has left, perhaps steps before.
* Static state outlives requests: lists of error actions with an iterator inside,
  the check point asked last, the cache of containers, the wrap counts.
* Dataset files are edited, replaced and removed while the server runs.
* The parser keeps texts and marks over the rows and the sections of a file.
* The constraints of a query are in a `std::set` whose `operator<` is no order, and
  a loop erases and inserts elements of it under its own iterator.
* A text is matched, the match erased, and what that leaves matched again.
* Copies of a variable copy the pointer to the value cast last.

## 2. Modules

| module | models | extends / instantiates |
|---|---|---|
| `SQLTypeConnector` | the arithmetic of the cursor, as operators | |
| `CursorWalk` | a cursor on its own with a history of its moves | `SQLTypeConnector` |
| `CursorProofs` | theorems about `CursorWalk` | `CursorWalk`, TLAPS |
| `ODBCConnector` | the connector over an external driver and database, as actions | `SQLTypeConnector` |
| `RowStream` | abstract: what a data response promises | |
| `ErrorPolicy` | abstract: what a trigger promises the actions of a handler | |
| `DataRequest` | one request: builders, actions, check points, sequence, variables | `ODBCConnector`; `Stream == INSTANCE RowStream`, `Policy == INSTANCE ErrorPolicy` |
| `DataRequestProofs` | theorems about the cursor, the values, the columns, the rows and the handles of `DataRequest`, and the refinement of `RowStream` | `DataRequest`, TLAPS |
| `HandlerRegistry`, `MCRegistry` | base handler, plugins, loading and unloading | |
| `HandlerRegistryProofs` | theorems about `HandlerRegistry` | `HandlerRegistry`, TLAPS |
| `ContainerCache` | the cache of dataset files | |
| `LastChance`, `MCLastChance` | `wrapper` and the runner over the cache's container | `ContainerCache` |
| `LastChanceProofs` | theorems about `LastChance` and, through it, `ContainerCache` | `LastChance`, TLAPS |
| `DatasetFile` | `SQLTextContainer::read` over the rows of a file | |
| `DatasetRow` | the substitution of variables in one row, and its value | |
| `AttributeList`, `MCRow` | the row taken as a list of attributes: matched, erased, matched again | `DatasetRow` |
| `DatasetProofs` | theorems about `DatasetFile` and `AttributeList` | `DatasetFile`, `AttributeList`, TLAPS |
| `ErrorActions`, `MCErrors` | check points, `trigger`, `doActions` | `Policy == INSTANCE ErrorPolicy` |
| `ErrorActionsProofs` | theorems about `ErrorActions` | `ErrorActions`, TLAPS |
| `SQLQuery` | the sets of attributes and constraints, as operators | |
| `QueryBuild`, `MCQueryBuild` | the COUNT and the SELECT made of them, loop by loop | `SQLQuery` |
| `QueryProofs` | theorems about `QueryBuild` | `QueryBuild`, TLAPS |
| `CastValue` | classes of variables, their casts, and who owns the value | |
| `CastValueProofs` | theorems about `CastValue` | `CastValue`, TLAPS |

### The request: `SQLTypeConnector`, `ODBCConnector`, `DataRequest`

`cur` is the cursor: `_column_position`, `_row_position`, `_cols`, `_rows`,
`_not_end`.  `SetNext(c, increment)` returns the new cursor and the count the C++
method returns; `Minus` is subtraction of `size_t`, whose range `SizeMax` bounds,
so the wrap at the end of the rows is in the model.

`ODBCConnector` keeps what outlives a call of the connector: the handles (`link`
for environment and connection, `stmt`), `rc` (the return code the check points
look at), `ready` (`_isReady`), `toFetch` (`toFetchRows`), `buf` (`d_buf`).  A row
of the result set is its number, a buffer is the number of the row whose value it
holds, `Wild` the pointer `fetch()` stores for a NULL.  `query()` is two actions,
`QueryCount` and `QueryExec`, because the database may change between its two
statements; each has its failing counterpart.  What can fail is the set `Faults`:
among them `size`, `type`, `name` and `describe`, a driver that does not answer for the size, the type,
the name or the description of a column (`SizesUnknown`, `TypesUnknown`,
`NamesUnknown`, `DescriptionsUnknown`).  `GetNext` is the whole of
`getNext()`: fetch `toFetchRows` times, hand out the buffer of the cursor's column,
move the cursor, remember the rows to fetch next.  `Close` is `close()` and
`clean()`: it frees the handles and does not set them to NULL, and `misused`
remembers a freed handle that is given to the driver again.

`DataRequest` adds `pc`, the place in `sql_build_das`, `sql_build_dds` or
`sql_build_data` (`start connected counted queried describe close` for the
builders, `hold read row release abandon` for the response libdap holds, `unwind`
for an exception on its way through the catch clauses), `described` (the column
each variable was made for), `owners` (the instances that share the connector),
`var`, `row`, `delivered`, `ended` (what `SQLSequence::read` is doing and has done).

| source | actions |
|---|---|
| `SQLConnectAction::connect`, `SQLQueryAction::query` | `StartConnect`, `Count`, `Execute`, `Unwind` |
| `sql_build_das`, `_dds`, `_data` | `RefuseDas`, `RefuseResponse`, `BeginDescribe`, `EndDescribe`, `CloseDas` |
| `SQLNextTypeAction::nextType` and the loop around it | `DescribeColumn`, `DescribePlaceholder`, `UnsupportedType`, `OldCodeRaises`, `DescriptionFails` |
| `SQLSequence` copy, destructor | `CopySequence`, `DropCopy`, `Release`, `Abandon` |
| `SQLSequence::read` | `StartRow`, `SkipVariable`, `RowRead`, `EndOfSequence`, `ReadFails` |
| `SQLSimpleType::read`, `SQLDummySimpleType::read` | `ReadVariable`, `TraceVariable`, `ReadPlaceholder` |
| external: the database, libdap | `DatabaseChanges`, `SendDds`, `StopReading` |

The check points are inside the request: `Raises(check)` is the verdict of
`ErrorPolicy`, which `ErrorActions` is shown to implement, on `rc`, the code the last
call to the driver has left.  `connect` and `query` look at their own.  `nextType`
(`TurnsRow`, `CheckRaises`) looks at whatever is there once the cursor has moved:
the code of a description a column ago, which only an active `ON_GET_NEXT` raises
at once (`CodesLeft`), so that another check point may meet it late
(`OldCodeRaises`).  The check point of `close` comes after the handles are freed,
and an error code makes `getMsg()` ask the driver about them (`CloseThen`).
`BesIsStd` says whether the library's `BESError` is a `std::exception`: the last
catch clause of `query` does not close the connector (`ThrowBesError`).

`RowStream` is the abstract specification: the rows of a result set that is fixed
when the query is executed, in order, each once and complete, then the end.
`RowsInOrder` says that `DataRequest` implements it under the mapping
`total <- result` (`delivered` and `ended` have the same name in both).

### The registry: `HandlerRegistry`

`methods` is the table of the base handler (`native` for what its constructor
adds, `wrapper` for `SQLRequestHandler::wrapper`), `wraps` is `_theWrapCount`,
`handlers` is `_theList`.  `LoadPlugin` is the whole of
`ODBCPluginLoader::initialize`: the constructor of the plugin adds its commands,
then `add_sql_handler` (`Added`) takes the object unless its name is there, and the
check point setting is read.  `UnloadPlugin` is `terminate`: `remove_sql_handler`
(`Removed`), then the destructor of the plugin, which gives its commands back
(`RemoveHandlers`) if it still finds the list (`FindsTheList`).  `TerminateSql` and
`InitializeSql` are those of `SQLModule`; `DestroyHandler` is the destructor of the
base handler.

### The cache and the runner: `ContainerCache`, `LastChance`

`store` is the list of the volatile storage: for each file the contents
(a version number), the time they were stamped with and `_isReady`.
`LookFor` is `look_for` with the copy constructor that asks `isUpToDate`,
`BuildContainer` makes a new container, `Read`
and `Stat` are the two halves of `setup()`, `Keep` is `update()`, `Release` is
`~SQLDataHandlerInterface`.  The clock and the editors of the file are external;
an edit may carry an older time, as a file put back from an archive does.
`written` is a history variable with the time of each version; `raced` marks a
container whose file was edited between the two halves of its `setup()`.
`ReadFails` is an exception of `read()` that reaches the caller.  `buildContainer` is
declared `throw(BESInternalError)`, but `read()` refuses an incomplete section, a
variable declared by itself, and a free line or an unknown key in a section part with a
plain `BESError` (the contents in `Undeclared`); in C++11, with which `Makefile.am` builds the
handler, such an exception ends the process: `ReadTerminates`, after which `pc` is
`dead` and nothing but the world moves.  A container that is kept is read again outside
of that declaration, and its exceptions are ordinary.

`LastChance` runs on the container the cache has handed out: `sec` is
`d_actual_section`, `Found` the section `find_sql_plugin` stops at, `Try` a turn of
the loop in which its plugin has a function for the command (its answer, an
exception, and whether it had put something into
the response before are choices), `NoFunction` and `GiveUp` are the other turns,
`Leave` is the end of `wrapper`.

### The parser: `DatasetFile`, `DatasetRow`, `AttributeList`

`DatasetFile` abstracts a row of a file to what kind of row it is and to its
label: the number of `[section]` tags and the tag before it.  Texts are sets of
labels.  One action per kind of row (`FirstSectionTag`, `NextSectionTag`,
`OtherTag`, `DefineVariable`, `SectionKey`, `SelectRow`, `FromRow`, `WhereRow`,
`OtherRow`, and those that throw), each the whole of what `read()` does with it.
`complete` is the diary and survives a tag exactly as in the code; `part` is
`reading_part`, which starts with an arbitrary value because nothing sets it.

`DatasetRow` looks into one row, as a sequence of classes of characters, since
what can go wrong there is a length: `Substitute` is one turn of the loop with
`variableSubstitution`, `TakeValue` is what the regular expression of
`KEY=VALUE` leaves of the row.  A comma is one of the characters of a name, as the
brackets of the regular expressions have commas between their ranges.

`AttributeList` goes on with a row of the `[select]` part: `MatchOne` is one turn of
the loop of `StringMatch::match`, which takes the leftmost and longest match of
`_SQLH_CONT_REG_ATTR` (`Span`) and erases it with the commas at its ends
(`Erased`); `LoadAttributes` is `SQLAttribute::loadAttribute` for each.  After a malformed
element attributes may be lost (of `:,a,a` only the first `a` is found, whose match
takes the comma of the second along), so `FirstOnesFound` stops there.  Both its
properties speak of places of the list (`AttributePlaces`), so that one of two equal
attributes is not taken for the other.

### The error matching: `ErrorActions`

`Trigger` is `SQLErrorManager::trigger` up to `doActions`, which is `GetActions`,
`NoActions`, `DoNext`, `ListDone` and `Join`: ask the factory for the list of the
return code, run it, ask again unless the code is one to stop at.  A code without a
list is `NoActions`: the factory throws a `BESInternalFatalError`, which is no
`SQLInternalError`, out of `getActions`, which is declared to throw nothing else
(`DEM/SQLErrorFactory.h:90`, `unixODBC/ODBCErrorFactoryComponent.cc:94`); no catch
clause sees it, the process ends, `pc` is `dead` and no action is enabled any more.
`iterator` is
the iterator inside the static lists, kept from one trigger to the next;
`lastType` and `lastStatus` are what `SQLCheckPoint::check` remembers.

`ErrorPolicy` has none of this: a trigger of an inactive check point is answered at
once, one of an active check point by the verdict on its code, unless the code is
`Unmapped`, which is the end of the process (`Terminate`).  `KeepsPolicy` says
that `ErrorActions` implements it, `isSet` being the policy's `configured` and a
`pc` that is not idle its `pending`; the steps in between are stutters.

### The query: `SQLQuery`, `QueryBuild`

A `std::set` is the sequence of its elements.  An insertion descends the tree to a
gap; since `SQLConstraint::operator<` is true of a constraint and itself, more than
one gap may fit, and which one is found depends on the shape of the tree, which is
left open: `Gaps` is the set of all of them.  A turn of `loadConstraints` is the action
`LoadConstraint`, in the three sets that are loaded: the section's when it is read
(`pc` is `load`), what `buildCountQuery` takes for the request's constraints, which is
its own text matched again (`own`, `Source`), and the request's (`ask`).  The four
loops of `comparatorSubst` (`count`, `recount`, `select`, `fly`) have an action per
turn too: `Pass` is `wi++`, `Replace` is `erase(wi)`, `insert(c)`, `wi++`.  The
increment of an erased iterator is undefined behaviour; the outcomes modelled are
that the new element reuses the memory, that the freed node still leads to what
came after it, and that the loop breaks down (`BreakDown`).  `StartCount`, `EndCount`,
`StartSelect` and `EndSelect` are the builders between their loops.

### The values: `CastValue`

`CType` is `ODBCConnector::getCType`, `DapType` the map of the type factory.  `val`
is the pointer of a variable's cast action: `Null`, the connector's buffer, or a
block of `heap`, the string `cast_string` has allocated.  `Read` is
`SQLSimpleType::read` with the cast of its debug message when `Traced`, `ReadFails`
the same when the connector throws at either cast, `Duplicate` the copy
constructors, `Destroy` the destructors.  `Converted` is what `val2buf` makes of
the bytes the driver has written and of those behind them.

## 3. Runs

The bounds are in the `.cfg` files; each module says what its constants mean.

| run | config | asks | distinct states |
|---|---|---|---|
| `cursor` | `MCCursor.cfg` | Does the cursor stand where a row-major walk stands, return the rows it passed, after any mix of increments and resets? | 704 |
| `request` | `MCRequest.cfg` | Over a database at rest: is the response the result set, is the connection closed, once, by every catch clause and by the last instance of the sequence, does every variable get its own column? | 377 |
| `request_shifting` | `MCRequestShifting.cfg` | The same with other clients writing between COUNT and SELECT, a COUNT of more rows, and NULLs: are there as many rows as counted, and every value of its row if enough rows are there; does reading a sequence that has been built always end well? | 12687 |
| `request_degraded` | `MCRequestDegraded.cfg` | With every failure there is, no check points, tracing, placeholders, empty results and a projection: do buffer indexes stay in bounds, does the request end? | 9144 |
| `registry` | `MCRegistry.cfg` | Do counts and methods follow the plugins in any order of loading and unloading, and does the base handler keep its own methods as long as the code lets it? | 144 |
| `last_chance` | `MCLastChance.cfg` | Are containers fresh and kept; is each section that can answer tried once and in order; is every request that got its container answered or refused? | 86240 |
| `dataset` | `MCDataset.cfg` | Is every stored section complete, made of its own rows, and none lost, for every order of rows and tags? | 663216 |
| `dataset_row` | `MCRow.cfg` | Do the two loops end that search a text they have changed; is a row with short rests substituted to the letter; are the attributes found those written, up to the first malformed one? | 200546 |
| `errors` | `MCErrors.cfg` | Are the triggers those of `ErrorPolicy`: only active check points run actions, every driver error is fatal, a code without a list ends the process, every other trigger is answered? | 13523 |
| `query` | `MCQueryBuild.cfg` | Does the SELECT have every constraint of the section and of the request, the right columns and, with few constraints, the database's word for each comparator; does the COUNT agree where it can; do the loops end? | 1383696 |
| `cast` | `MCCast.cfg` | Does a string have one owner that frees it once, over copies and failing reads; do integers arrive? | 107566 |
| `request_null` | `MCRequestNull.cfg` | violated: a NULL is handed out as a value | |

### Why the bounds are enough

* `cursor`: up to 4 rows of up to 4 columns, no rows included, and increments up to
  10: inside a row, to the next row, over two rows and more, beyond the end from
  every element; `SizeMax` is far above every sum, so that only the subtraction wraps.
* `request`: three columns have a first, a middle and a last one; three rows have
  a first, a middle and a last turn of the row.  Two instances of the sequence
  have one destruction that closes and one that does not.
* `request_shifting`: the database holds one to three matching rows at any moment
  and COUNT counts up to two more, so the count is below, equal to and above the
  rows of the SELECT.
* `request_degraded`: the middle column is not sent and may be NULL; `MinRows = 0`
  adds the empty result set.
* `registry`: three plugins, of which two handle the same commands and one a part
  of them: counts from 0 to 3, and a command that loses its users one by one.
* `last_chance`: four versions of one file (files are independent of each other),
  the second refused by the parser with an error `buildContainer` does not declare; times 0 to 3 with a difference of 2 contain
  differences below, at and above the limit; a file may be edited while it is read.
  The sections cover a plugin used
  twice, an unknown api, the api `sql`, a plugin without the command, and a file
  nobody can answer.
* `dataset`: the code keeps nothing of a section but the diary, the texts and the
  section itself, all of which two sections in a row show; the number of rows is
  not bounded.
* `dataset_row`: five characters hold two references, one with text on both sides
  that is longer than the variable, and lists of three attributes, of attributes
  with an alias, with empty and with malformed elements; a value may be a list.
* `query`: a section with an alias of a name that is there already, or with `*`; up to
  two constraints of the section and three of the request: with two, two elements are
  replaced in one loop and an order that is none shows; with three, and one that is
  greater than the other two, an element that is inserted again moves behind others,
  and the loop passes over them.  The comparators are kept, replaced by DAP's
  substitute, or by the section's.
* `cast`: three variables are the one of a sequence, its copy and the copy of that,
  with a block more than there are variables; a byte to the base 4 has both signs and a digit
  that is neither the lowest nor the highest; every SQL type the code names and one
  it does not.
* `errors`: all return codes the lists distinguish and one they do not know, on which
  the process ends; no,
  some and all of the check points.

`CHECK_DEADLOCK FALSE` is given only where a model ends: reading a file or a row,
building the statements, the life of the variables of one column, a process that has
terminated.

### Fairness

A request is handled by one thread of the server, which the operating system does
not suspend for ever and which takes no lock another thread holds.  That is weak
fairness of the steps of that thread, and all that is assumed: `RequestStep`,
`CacheStep`, `Failed`, `RunStep`, `ListNext`, `DoActions`, `Step` of `QueryBuild` (a loop
that breaks down is not owed).  Nothing is fair about
the world: other clients, editors, the clock, new requests, copies made by libdap
and a reader that asks for no more rows are under no fairness.  Loops in the
driver are not in the model: a driver call returns or fails.

`EndsUnlessPlaceholders` names the one way in which a request does not end: a
projection of columns without a type.  The placeholder's `read()` moves no cursor,
so `SQLSequence::read` says for ever that there are more rows.

## 4. Proofs

`DataRequestProofs` proves, with TLAPS, for every number of columns and rows, every
set of faults and every setting of the constants that satisfies the assumptions
`SizeAssumption`, `ConnectorAssumption` and `RequestAssumption`:

* `TypeInvariant` - `Spec => []TypeInv`.
* `TypeCorrect` - `Spec => []RequestTypeOK`.
* `IndexAlwaysInBounds` - `Spec => []IndexInBounds`: `getNext` never reads `d_buf`
  beyond its last column.

`RequestTypeOK` and `IndexInBounds` are not inductive.  The type says that the
cursor's column is a number of a column, which a cursor sized by one query and
moved under another would break; `IndexInBounds` says nothing of the time before
the query is ready.  `TypeInv` adds `CursorInv`: until the query is executed the
cursor is at its first element, and from then on, whatever the builders do, its
rows have `NCols` columns.  The step that matters is that `SetNext(c, 1)` of a
cursor on a column either stays on a column or clears the end flag; it is a lemma
about `SetNext`, which the proof of each action that moves the cursor cites.
The only assumption about `size_t` is that it can count the columns of two rows
(`2 * NCols < SizeMax`): `setNext(1)` computes no larger column.

It also proves `ValueCorrect`: under `NoFetchFault` (no fetch fails) and
`NoEmptyResult` (the result set and the count have at least one row),
`Spec => []ValueOfItsRow`: every value handed out is of the row the cursor stood
on, for any number of writes of other clients between the two statements, unless
fewer rows are there than were counted.  The invariant is `StreamInv`: `TypeInv`,
`BufferInv` (the buffers hold the row fetched last) and `FetchInv`, whose last
conjunct is the heart of it: while rows are read, `pos + toFetch = cur.row + 1`,
the rows fetched and those still to be fetched before the next value are those up
to the cursor's.  Both extra assumptions are needed: with a failing fetch the
buffers keep the row before, and the cursor of an empty result set is not at its
end, so that a row is read that is not there.  TLC checks `StreamInv` on the
instances of `request` and `request_shifting`.

The second half of the module goes on from there, for any number of columns, rows and copies of the
sequence and any of the remaining faults:

| theorem | property | assumes of the configuration |
|---|---|---|
| `EveryValueInItsColumn` | `Spec => OwnColumn` | `AllColumns` |
| `RowsCounted` | `Spec => []RowsAsCounted` | `AllColumns`, `NoEmptyResult` |
| `HandlesUsedWell` | `Spec => []NoHandleMisuse` | `AllColumns`, `CloseIsQuiet` |
| `ClosedAlways` | `Spec => []ClosedOnExit` | `ErrorsClose` |
| `ImplementsRowStream` | `Spec => RowsInOrder` | `AllColumns`, `NoEmptyResult`, `NoFetchFault`, `NoNulls`, `CountIsExact` |

Each assumption is a case the code does not provide for, and the instance of
`request` satisfies all of them.  `AllColumns`: every column has a type, the request
projects none away, and no debug message takes a value - a column left out shifts
those after it.  `CloseIsQuiet`: where descriptions may fail and the check point of
`close` is set, that of `getnext` is set too and raises their error before `close`
meets it.  `ErrorsClose`: a `BESError` is a `std::exception`, the response is of the
right class, and no check point raises the error of a description where nobody closes.
`CountIsExact`: COUNT counts what the SELECT returns.

The invariants are needed one on top of the other.  `AlignInv` ties three counters that
different parts of the code move: the column the cursor is on, the variable that is
read and the column that variable was described for.  `HandleInv` says that no handle
is freed before the last step of a request, and that no error is left for the check
point of `close`; that a read never throws, which would close the connector under
the sequence, follows from `AlignInv` (`NoDetours`).  `DeliveredInv` counts: the rows
delivered are those the cursor has passed.  `ExactInv` adds what only a database at rest
has: the count is the size of the result set, and the row in the making holds the values
of its number.  In the last theorem every step of the request maps to a step of
`RowStream` or to a stutter (`StreamStep`): `Execute` to `Stream!Execute`, `RowRead` to
`Stream!Deliver`, since the row is `[c \in Columns |-> n]` with `n` the next number,
and `EndOfSequence` to `Stream!End`.

`CursorProofs` proves of the cursor alone, for any result set and any sequence of
increments and resets, as long as a position stays below `SizeMax`
(`NoWrap == 2 * MaxCols < SizeMax /\ MaxIncrement < SizeMax`):

* `WalksRowByRow` - `Spec => []RowMajor`: the cursor stands where a walk over the
  elements, row by row, stands.
* `CountsRows` - `Spec => SkippedRows`: `setNext` returns the rows it moved down.

`WalkInv` adds `InRows` to the type and `RowMajor`: a cursor that is not at its end is
in one of the rows, or in the first row of an empty result set.  Without it `setNext`
could start in a row beyond the last, where the subtraction of `size_t` that finds
the rows left would wrap.  The lemmas are about that arithmetic: `MinusExact`, that the
subtraction does not wrap when there is enough to take from, and `WholeRows`, that
quotient and remainder take an increment apart.

`LastChanceProofs` proves, for any set of files, contents, sections, plugins and times:

* `CacheTypeCorrect` - `Spec => []CacheTypeOK`, and `RunTypeCorrect` -
  `Spec => []RunTypeOK`.
* `HandedOutFresh` - `Spec => FreshOnHandOut`: a container that is handed out has
  contents that are recent or were just read, unless the file was changed between
  the two halves of its setup.
* `TriedOnceEach` - `Spec => []EachTriedOnce`: a request is refused only when each section
  whose plugin handles the command was tried; none is tried twice.

What is handed out was put into the store requests ago.  `CacheInv` says what makes
it right then: `Stamped`, that contents which are ready carry the time they were
given, unless they are marked as raced; and the same of the container in the making,
whose two halves see the same version unless an edit comes between.  `RunInv` says
that the cursor over the sections has passed one that handles the command only when
its function was called.

`CastValueProofs` proves, from `CastAssumption` alone, for any number of variables
and of blocks and any even base of a byte:

* `OneOwnerAlways` - `Spec => []OneOwner`: a string the text cast has allocated
  belongs to exactly one variable.
* `FreedOnceAlways` - `Spec => []FreedOnce`: no string is deleted twice.
* `CastTypeCorrect` - `Spec => []CastTypeOK`.
* `IntegersArriveAlways` - `Spec => []IntegersArrive`: SMALLINT and INTEGER values arrive
  as the database holds them, whatever the buffer has behind their bytes.

`OneOwner` is not inductive, as copying a variable that holds a string breaks it.
The invariant `CastInv` adds `IdleInv`: a variable that owns its string holds none
between two reads, and after a read that has thrown at most one holds one while
nothing is copied any more.  The lemmas `CastOwns` and `FreeValueFrees` say what a
cast and `freeValue()` do to the only string there is.  The other two need
`ValueInv`, that a value which arrived is what the class makes of the bytes of its type.
`Remainder` and `SignedOfHeld` are why that is right where the class is as wide as the
type: the bytes behind are a multiple of the power the class takes the remainder by,
and taking the sign undoes what writing a negative number to bytes does.

`ErrorActionsProofs` proves, for any codes, lists of actions and settings with
`ListsDecide`:

* `ImplementsPolicy` - `Spec => Policy!Spec`: the safety part of `KeepsPolicy`.
* `ErrorTypeCorrect` - `Spec => []ErrorActionsTypeOK`.

The policy's answer is decided by the code alone; `doActions` finds it by running a
list that other triggers have used and left anywhere.  `PolicyInv` says why that is
the same.  `StatusInv`: the status `check()` remembers is that of the type it
remembers, so that a trigger asks about its own check point.  `AskedInv`: only
active check points run actions.  `PlaceInv`: a list of an error is at a place
before what throws, which needs the list to begin anew (`Rewound`), and only a code
to stop at comes to the end of its list.  The assumption `ListsDecide`, that the
list of a code to stop at throws nothing and that of any other code throws a fatal error
first of all, is what
the ODBC plugin's lists satisfy and those of the plugin template do not (see
`RecoverableReachesCaller` below).  It says nothing of codes without a list: that these,
and only these, end the process, in the policy as in the code, is the lemma `ProcessEnds`
and the last two conjuncts of `ErrorActionsTypeOK`.

`HandlerRegistryProofs` proves, for any number of plugins and commands and any order
of loading, unloading and terminating, unless the configuration names a plugin
twice (`~Twice`):

* `WrapsCounted` - `Spec => []WrapsAreUsers`.
* `MethodsFollowUsers` - `Spec => []WrappedIfHandled`.
* `NativeGoesLast` - `Spec => NativeUntilLastLeaves`.

Neither of the first two is inductive without the other: `remove_sql_wrapper` counts
down only the commands the base handler has a method for, so that the counts are
right only if every command in use has one; and the method of a command goes when
its count comes to zero, which is right only if the count is its users.
`RegistryInv` is their conjunction with the type and the shape of the tables.  The
lemma `UsersCounted` relates the count of a command to its users being none or one;
a load adds one user to each command of the plugin, an unload takes one away.
`~Twice` is needed: the object `add_sql_handler` refuses stays counted.

`DatasetProofs` proves of `DatasetFile`, from `DatasetFileAssumption` alone, for files of any
length, with any tags, known to the parser or not, and any rows before the first one:

* `SectionsAreComplete` - `Spec => []SectionsHaveRequired`.
* `RowsStayInSection` - `Spec => []RowsOfOwnSection`.
* `SectionsAreKept` - `Spec => []NoSectionLost`.

The three speak of what is stored; what is stored at a tag was collected long before,
in the section being read, in two members of the container that outlive it, and in
the diary.  `FileInv` says of these what makes them right: `SectionInv`, that what is
collected is of the current section and in its place, and `DiaryInv`, that a mark in
the diary means that what it marks was read, and that a text is there if and only if
its mark is - without which a text would stay for the next section, since `Kept`
clears only what is marked.  `PartInv` relates `reading_part` to the last tag, as far
as it is known, and `LengthInv` the sections stored to the tags read.  The lemma
`SectionStored` is what a tag and the end of the file have in common.  The theorems
cover what the run leaves out (`RowsBefore = FALSE`, known tags only): TLC checks
`FileInv` with both as well, for one section.

Of `AttributeList` it proves, from `DatasetRowAssumption` alone, for rows of any
length, any names and any values of variables:

* `AttributesOfTheList` - `ListSpec => []NothingInvented`.
* `AttributesAllFound` - `ListSpec => []FirstOnesFound`.

Each match erases a piece in the middle of the text, so that the text is soon none
the list has anywhere.  `SplitInv` says what is true of it all the same: it is a piece
in which nothing matches, then the list from one of its commas on (`CutAt`).  A match
therefore ends beyond the piece and has its attribute beyond it (`MatchedBeyond`),
where the text is the list's, and is an element there (`MatchedPlace`); what it leaves
before it holds no match again, for such a match would have been found first
(`MatchedLeft`).  That nothing is passed over until something malformed comes is the
other half: a piece that holds nothing else than characters of attributes and commas
ends with a comma (`LooseEnd`), so that an attribute that follows it is one in the text
too (`FirstOneMatches`), and the match that goes past it is its own
(`FirstOneMatched`).

`QueryProofs` proves, from `QueryAssumption` alone, for any sections and requests, of
any length, and any map of the section's `[other]` part:

* `QueryConstraintsKept` - `Spec => []ConstraintsKept`.
* `QuerySelectHasAll` - `Spec => []SelectHasAll`.
* `QueryWordsOfDatabase` - `Spec => []WordsOfDatabase`.
* `QueryColumnsOfSection` - `Spec => []ColumnsOfSection`.
* `QueryCountAgrees` - `Spec => []CountAgrees`.

The order of the sets is none, so nothing can be said of where an element is; what is
said is how often it is there.  `KeptInv` has it that each set holds (`Holds`) the
prefix of its list that is loaded so far, and all of it from then on: for every class
of constraints as many places in the one as in the other.  That an element which is
erased and inserted again is not taken for one that is there (`AlwaysInserted`) is
where the broken order helps: of two constraints one is always less.  The lemmas
`CountInserted`, `LoadedOne` and `ReplacedOne` count the places before and after an
insertion at any gap.  The other invariants stand on it:

* `TextInv`: the text is that of the where set, to which the request's predicates are
  joined.  `JoinedOn` says that joining in two loops is joining at once, `JoinedWell`
  that the result has a predicate at each odd place and an AND at each even one.
* `TreatedInv`: what lies before the iterator is treated (`Treated`).  It is not
  inductive for three constraints, of which one may be inserted behind others; with
  two it needs `Ordered`, that the first of them is less than the second, and
  otherwise that at most one constraint needs a substitute.
* `ColumnsInv`: the columns are those of `AttrToSelect`; `ByPositionIs` says that the
  set ordered by position has the asked positions in their order, each once, from
  `NthIs`, what the k-th of a finite set of numbers is.
* `CountInv`: while the COUNT is built, its text has the predicate of the one
  constraint (`Sent`), or has lost it to the constraint that is loaded from it, and
  what that is written as is the same again (`PredicateAgain`, `SubstitutedAgain`).
  The second needs `WordsAreFinal`: if a section replaces the word that stands for a
  comparator (`<>` by `==`), the COUNT, which substitutes twice, asks for `==` where the
  SELECT has `<>`.

Only model-checked, since it is out of the prover's reach:

* Every liveness property - `ReadEndsWell`, `EndsUnlessPlaceholders`, `Answered`,
  `CacheSettles`, `RowEnds`, `EndsIfFew` - and the fairness part of `KeepsPolicy`.
* `ShortRestsKept` of `MCRow`: it compares a row with `FullySubstituted`, which is
  recursive.

`NullIsReadable` is refuted (section 5).  Everything else a run checks is a theorem.

## 5. Known divergences

The run `request_null` shows that the code does not do what a comment says:
`fetch()` replaces the pointer to the bound memory of a NULL column with the
character constant `'0'` (`unixODBC/ODBCConnector.cc:647`).

Further disagreements have a property in their module that no run checks; TLC
refutes each with the constants given:

| property (module) | constants | what the code does |
|---|---|---|
| `NotEndMeansMore`, `EndReturnsRows` (`CursorWalk`) | `MCCursor.cfg` | after `reset()` an empty result set with columns is not at its end (`connector/SQLTypeConnector.h:225`); `setNext` at the end returns other counts than `getRows()` (`:286`) |
| `CountIsResult` (`DataRequest`) | `MaxUncounted = 1` | `buildCountQuery` leaves the request's constraint out (`container/SQLTextContainer.cc:371`) |
| `ReadsAllElements` (`DataRequest`) | `MCRequest.cfg` with `Traced = TRUE` | a debug message takes a value from the connector (`DTM/SQLSimpleType.h:189`) |
| `WrapsAreUsers` (`HandlerRegistry`) | `Twice = TRUE` | a plugin object that is not added to the list keeps its commands counted (`SQLPlugin.cc:31`) |
| `NoHandleMisuse` (`DataRequest`) | `MCRequest.cfg` with `"close"` among `CheckPoints` | the check point of `close` meets the code of a failed description after the handles are freed, and `getMsg()` asks the driver about them (`handler/connector/SQLCloseAction.h:151`) |
| `ClosedOnExit` (`DataRequest`) | `MCRequest.cfg` with `BesIsStd = FALSE` | what `getRowCount` and the binding throw ends in the catch clause of `query` that does not close (`handler/connector/SQLQueryAction.h:187`) |
| `ClosedOnExit` (`DataRequest`) | `MCRequest.cfg` with `"response"` among `RequestFaults` | `sql_build_data` throws when the response object is not a `BESDataDDSResponse`, between the query and the making of the sequence, and nothing closes the connector (`handler/SQLBuildDATA.h:304`) |
| `NativeStays` (`HandlerRegistry`) | `MCRegistry.cfg` | the last plugin takes the base handler's own `version` and `help` with it (`SQLRequestHandler.cc:267`) |
| `LoadReadsConfig` (`HandlerRegistry`) | `MCRegistry.cfg` | the setting is read once (`DEM/SQLCheckPoint.cc:52`) |
| `NoDanglingHandler` (`HandlerRegistry`) | `MCRegistry.cfg` | `terminate` leaves the singleton's pointer (`SQLModule.cc:149`) |
| `SameTimestamp` (`ContainerCache`) | `MCLastChance.cfg` | 10 seconds count as the same time (`container/SQLContainer.cc:64`) |
| `StampOfContents` (`ContainerCache`) | `MCLastChance.cfg` | the time of the file is taken after its contents (`container/SQLContainer.h:252`) |
| `SetupFailureIsThrown` (`ContainerCache`) | `MCLastChance.cfg` | a plain `BESError` of `read()` leaves `buildContainer`, declared `throw(BESInternalError)`, and the process ends (`container/SQLContainerFactory.cc:156`, `container/SQLTextContainer.cc:786`, `:820`, `:909`, `:1045`); the header says a `BESInternalError` is thrown (`container/SQLContainerFactory.h:140`) |
| `ServerKeepsContainer` (`ContainerCache`) | `Direct = TRUE` | a container of the server is deleted by the request (`container/SQLContainerFactory.cc:66`) |
| `OneSource` (`LastChance`) | `MCLastChance.cfg` | a failed section leaves its part of the response (`SQLRequestHandler.cc:383`) |
| `RowsOfOwnPart` (`DatasetFile`) | `"WHERE"` among `Tags` | an unknown tag leaves the part before it open (`container/SQLTextContainer.cc:681`) |
| `NothingBeforeTags` (`DatasetFile`) | `RowsBefore = TRUE` | `reading_part` is read before it is set (`container/SQLTextContainer.cc:544`) |
| `SubstitutedEverywhere` (`DatasetRow`) | `MCRow.cfg` | after a substitution only as many characters of the rest of the row are kept as the reference had (`container/SQLTextContainer.cc:853`) |
| `ValueIsWhole` (`DatasetRow`) | `MCRow.cfg` | a value ends at its first colon (`container/SQLTextDefinitions.h:147`) |
| `UnmappedIsThrown` (`ErrorActions`) | `MCErrors.cfg` | the comment says that a `BESError` is thrown for a code without a list (`action/SQLActionManager.h:243`); it is thrown out of `getActions`, declared `throw(SQLInternalError)` (`DEM/SQLErrorFactory.h:90`), and the process ends (`unixODBC/ODBCErrorFactoryComponent.cc:94`) |
| `RecoverableReachesCaller` (`ErrorActions`) | `ActionsOf <- TemplateActions`, `Stops <- TemplateStops`, without the assumption `MCListsDecide`, which they do not satisfy | `doActions` catches the `SQLInternalError` of an action and runs the list again, for ever (`action/SQLActionManager.h:184`) |
| `DocumentedAreAccepted` (`ErrorActions`) | `Settings <- MCDocumented` | the documented check point 6 is refused (`DEM/SQLCheckPoint.cc:68`) |
| `CountIsStatement` (`QueryBuild`) | `MCQueryBuild.cfg` | the COUNT loads its constraints from its own text and takes them out of it, but leaves the ANDs between them; one on a name the section does not select loses its column (`container/SQLTextContainer.cc:371`) |
| `SelectIsStatement` (`QueryBuild`) | `MCQueryBuild.cfg` | a constraint of the request on a name the section does not select is written without a column |
| `AllSubstituted` (`QueryBuild`) | `MCQueryBuild.cfg` | the comments say what is sent "to standard SQL"; an element that is inserted again behind others takes the iterator past them, and their comparator of DAP stays (`container/SQLTextContainer.cc:93`) |
| `SubstitutionEnds` (`QueryBuild`) | `MCQueryBuild.cfg` | two elements that are replaced may be met in turn for ever (`container/SQLTextContainer.cc:83`) |
| `NoConversionNeeded` (`CastValue`) | `MCCast.cfg` | a class takes more or fewer bytes than the driver writes (`unixODBC/ODBCTypeFactoryComponent.cc:151`) |
| `NoColumnRefused` (`CastValue`) | `MCCast.cfg` | the class of a `WCHAR` column is unknown to the factory |

## 6. What is not modelled

* The text of constraints, and that of attributes in the `QueryBuild` model: parsing
  one is abstracted to its result.  `AttributeList` parses lists of attributes, but
  does not tell words apart.
* The tables of types, sizes, names and descriptions the connector fills on first
  use: abstracted to whether the driver answers.
* Return codes in `DataRequest` for which the error factory has no list
  (`SQL_STILL_EXECUTING`, `SQL_NEED_DATA`): they belong to asynchronous calls and to
  parameters of a statement, which the connector does not use; `ErrorActions` has them.
* Types in `DataRequest`: a type is there, is not, or is refused; their map is
  `CastValue`'s.
* The attribute tables of a DAS and the descriptions of columns: text.
* The mutex around the lazy singletons: modules are loaded by one thread.
* Dynamic action lists and factories (`action/SQLDynamic*`, `SQLObjectActionFactory.h`):
  no plugin uses them.  `utils/` but for `StringMatch`: wrappers of standard
  containers, casts and asserts.
* `version`, `help` and `dump` of the handlers: text.
* The SQLite plugin, which has no implementation, and the templates except their
  error lists; build files, tests and data.
* Wording of messages, debug output (except where it changes state: `Traced`).

## 7. Plan

Done, in this order: the cursor, the connector and the request (with the abstract
row stream), the registry, the cache, the runner over the cache, the parser, the
error matching, the query, the values; the check points inside the request and the
abstract policy of the error matching; the lists of attributes; edits of a file
while it is read.  Proved: the cursor; the type, the bounds, the values, the columns,
the rows and the handles of the request and its refinement of the row stream; the
ownership and the integers of the values; the policy of the error matching; the
registry; the cache and the runner; the parser with its lists of attributes; the query.

What remains, most important first:

1. `CastValue` composed with `DataRequest`: the value of a row through the cast, and
   `IntegersArrive` for the variables of a delivered row.
2. What a request delivers when the database moves: `RowsInOrder` without `CountIsExact`,
   as a stream that promises only the rows up to the smaller of the two counts.
3. The parsing of a constraint from its text, with the words a comparator is made of.
