------------------------------ MODULE CastValue ------------------------------
(***************************************************************************)
(* The variables of a sequence and their values: the class of a variable   *)
(* is chosen from the type of its column (ODBCConnector::getCType and      *)
(* ODBCTypeFactoryComponent::action), and its SQLCastAction keeps a        *)
(* pointer to what was cast last.  For text that is a string allocated by  *)
(* cast_string, which the action owns (reuse is false); for any other      *)
(* class it points into the buffer of the connector.  Copying a variable   *)
(* copies the pointer: read() has to release the string before the next    *)
(* copy is made, whatever is read, copied and destroyed in between and     *)
(* wherever a read fails.                                                  *)
(* A byte is a digit to the base Byte, the low one first; the driver, the  *)
(* buffer behind what it writes, and the copying of variables by libdap    *)
(* are external.                                                           *)
(***************************************************************************)
EXTENDS Integers, FiniteSets

CONSTANTS
  Variables,  \* the C++ objects that exist at one time, at most
  Blocks,     \* blocks of the heap
  Byte,       \* values of a byte
  Traced,     \* the debug context of the module is on
  Null, Buffer, Nothing

ASSUME CastAssumption ==
  /\ Byte \in Nat \ {0} /\ Byte % 2 = 0 /\ Traced \in BOOLEAN
  /\ Cardinality(Blocks) > Cardinality(Variables)
  /\ Null # Buffer /\ {Null, Buffer} \cap Blocks = {}
  /\ Nothing \notin Int

VARIABLES
  column,  \* input: SQL type of the column
  stage,   \* "type", "use", "refused", "failed", "done"
  live,    \* variables that exist
  val,     \* _val of their cast actions
  heap,    \* blocks allocated
  twice,   \* a block that was not allocated has been deleted
  readP,   \* variables that are read
  given,   \* what the database holds at a variable's last read
  got      \* the value the variable has from it

store == <<val, heap, twice>>
vars == <<column, stage, live, val, heap, twice, readP, given, got>>

-----------------------------------------------------------------------------
(* The classes.                                                            *)

SqlTypes == {"CHAR", "WCHAR", "NUMERIC", "BIT", "TINYINT", "SMALLINT",
             "INTEGER", "BIGINT", "REAL", "DOUBLE", "BINARY", "TYPE_DATE",
             "TYPE_TIME", "TYPE_TIMESTAMP", "GUID"}

\* getCType(), with CHAR for all it does not name.
CType(sql) ==
  CASE sql \in {"WCHAR", "BIT", "TINYINT", "DOUBLE", "BINARY", "TYPE_DATE",
                "TYPE_TIME"} -> sql
    [] sql = "SMALLINT"               -> "SHORT"
    [] sql \in {"NUMERIC", "INTEGER"} -> "LONG"
    [] sql = "BIGINT"                 -> "SBIGINT"
    [] sql = "REAL"                   -> "FLOAT"
    [] OTHER                          -> "CHAR"

\* Mutant of DapType: the class of a long is the one of a short.
DapTypeShort(c) == IF c \in {"LONG", "SHORT"} THEN "Int16" ELSE "Str"

\* action(): the class of the variable.  "Str" reads the string cast_string
\* makes, "RawStr" is a Str that is given the buffer as it is.
DapType(c) ==
  CASE c = "CHAR"                                 -> "Str"
    [] c \in {"LONG", "SBIGINT"}                  -> "Int32"
    [] c \in {"SHORT", "TINYINT", "BIT", "BINARY"} -> "Int16"
    [] c = "FLOAT"                                -> "Float32"
    [] c = "DOUBLE"                               -> "Float64"
    [] c \in {"TYPE_DATE", "TYPE_TIME"}           -> "RawStr"
    [] OTHER                                      -> "unsupported"

Class == DapType(CType(column))
Reuse == Class # "Str"

-----------------------------------------------------------------------------
(* Bytes.                                                                  *)

\* What the driver writes for the integer types.
Written == [BIT |-> 1, TINYINT |-> 1, SHORT |-> 2, LONG |-> 4, SBIGINT |-> 8]
Taken == [Int16 |-> 2, Int32 |-> 4]

Integral == CType(column) \in DOMAIN Written /\ Class \in DOMAIN Taken

\* The values of n bytes.
Power(n) == LET two == Byte * Byte   four == two * two
            IN  CASE n = 1 -> Byte [] n = 2 -> two
                  [] n = 4 -> four [] n = 8 -> four * four

Signed(n, bytes) == IF n >= Power(bytes) \div 2 THEN n - Power(bytes) ELSE n

\* Values at the limits of an integer of so many bytes, and about 0.
Limits(bytes) == {-(Power(bytes) \div 2), -1, 0, 1, Power(bytes) \div 2 - 1}

Held == IF column = "BIT" THEN {0, 1}
        ELSE IF Integral THEN Limits(Written[CType(column)]) ELSE {0}

\* val2buf(): the bytes of the class from the start of the buffer, where
\* behind is what follows the bytes the driver wrote.
Converted(n, behind) ==
  IF ~Integral THEN n
  ELSE LET written == Written[CType(column)]
       IN  Signed(((n % Power(written)) + behind * Power(written))
                    % Power(Taken[Class]), Taken[Class])

-----------------------------------------------------------------------------
(* SQLObjectAction, the cast action's value.  The operators take and       *)
(* return the record of the store.                                         *)

Store == [val |-> val, heap |-> heap, twice |-> twice]
Becomes(s) == val' = s.val /\ heap' = s.heap /\ twice' = s.twice

Delete(s, block) == [s EXCEPT !.heap = @ \ {block},
                              !.twice = @ \/ block \notin s.heap]

\* Mutant of SetVal: the value it held is forgotten.
SetValForgets(s, v, block) == [s EXCEPT !.val[v] = block]

SetVal(s, v, block) ==
  LET t == IF s.val[v] # Null /\ ~Reuse THEN Delete(s, s.val[v]) ELSE s
  IN  [t EXCEPT !.val[v] = block]

\* Mutant of FreeValue: the pointer is not reset.
FreeValueDangling(s, v) ==
  IF s.val[v] # Null THEN Delete(s, s.val[v]) ELSE s

FreeValue(s, v) ==
  IF s.val[v] # Null THEN [Delete(s, s.val[v]) EXCEPT !.val[v] = Null] ELSE s

\* SQLBaseType::cast(): the results of one cast.
Casts(s, v) ==
  IF Reuse THEN {SetVal(s, v, Buffer)}
  ELSE {SetVal([s EXCEPT !.heap = @ \cup {b}], v, b) : b \in Blocks \ s.heap}

\* Mutant of Released: the string is left to the next cast.
ReleasedLater(s, v) == s

\* read(), once the value is in the variable.
Released(s, v) == IF Reuse THEN s ELSE FreeValue(s, v)

-----------------------------------------------------------------------------
Init ==
  /\ column \in SqlTypes
  /\ stage = "type" /\ live = {}
  /\ val = [v \in Variables |-> Null] /\ heap = {} /\ twice = FALSE
  /\ readP = {} /\ given = [v \in Variables |-> Nothing]
  /\ got = [v \in Variables |-> Nothing]

\* The factory makes the variable of the column, or refuses its type.
Create ==
  /\ stage = "type"
  /\ IF Class = "unsupported"
       THEN stage' = "refused" /\ UNCHANGED live
       ELSE stage' = "use" /\ \E v \in Variables : live' = {v}
  /\ UNCHANGED <<column, store, readP, given, got>>

\* ptr_duplicate(): for a copy of the sequence, or the value of a row.
Duplicate(v, w) ==
  /\ stage = "use" /\ v \in live /\ w \in Variables \ live
  /\ live' = live \cup {w}
  /\ val' = [val EXCEPT ![w] = val[v]]
  /\ readP' = IF v \in readP THEN readP \cup {w} ELSE readP
  /\ given' = [given EXCEPT ![w] = given[v]]
  /\ got' = [got EXCEPT ![w] = got[v]]
  /\ UNCHANGED <<column, stage, heap, twice>>

\* What the store is when read() comes to take the value: the debug message
\* has cast once before.
Traces(s, v) == IF Traced THEN Casts(s, v) ELSE {s}

\* read() of a variable that is not yet read.
Read(v) ==
  /\ stage = "use" /\ v \in live \ readP
  /\ \E s \in Traces(Store, v) : \E t \in Casts(s, v) : Becomes(Released(t, v))
  /\ readP' = readP \cup {v}
  /\ \E n \in Held, behind \in 0..Byte - 1 :
       /\ given' = [given EXCEPT ![v] = n]
       /\ got' = [got EXCEPT ![v] = Converted(n, behind)]
  /\ UNCHANGED <<column, stage, live>>

\* The connector throws at the first cast or at the second; the error goes
\* through the sequence and the response is given up.
ReadFails(v) ==
  /\ stage = "use" /\ v \in live \ readP
  /\ \E s \in {Store} \cup Traces(Store, v) : Becomes(s)
  /\ stage' = "failed"
  /\ UNCHANGED <<column, live, readP, given, got>>

\* set_read_p(false), before the next row is read.
NextRow(v) ==
  /\ stage = "use" /\ v \in readP
  /\ readP' = readP \ {v}
  /\ UNCHANGED <<column, stage, live, store, given, got>>

\* The destructor; the response is gone with the last variable.
Destroy(v) ==
  /\ v \in live
  /\ Becomes(LET s == IF Reuse THEN Store ELSE FreeValue(Store, v)
             IN  [s EXCEPT !.val[v] = Null])
  /\ live' = live \ {v}
  /\ stage' = IF live' = {} THEN "done" ELSE stage
  /\ readP' = readP \ {v}
  /\ given' = [given EXCEPT ![v] = Nothing]
  /\ got' = [got EXCEPT ![v] = Nothing]
  /\ UNCHANGED column

Next ==
  \/ Create
  \/ \E v \in Variables :
       \/ Read(v) \/ ReadFails(v) \/ NextRow(v) \/ Destroy(v)
       \/ \E w \in Variables : Duplicate(v, w)

Spec == Init /\ [][Next]_vars

-----------------------------------------------------------------------------
(* Properties.                                                             *)

\* Variables that do not exist hold nothing; one that is read has a value, and
\* what is pointed at is the buffer, or a string that is there (SQLObjectAction).
CastTypeOK ==
  /\ readP \subseteq live /\ live \subseteq Variables /\ heap \subseteq Blocks
  /\ \A v \in readP : got[v] # Nothing
  /\ \A v \in Variables : /\ v \notin live => val[v] = Null
                          /\ val[v] \in {Null} \cup (IF Reuse THEN {Buffer} ELSE heap)

\* A string belongs to exactly one variable: no two variables, copies of one
\* another or not, hold the same string although the copy constructors copy the
\* pointer, and none is left without a variable that frees it, whichever cast
\* of a read has thrown.
OneOwner ==
  /\ ~Reuse => \A v \in live : val[v] # Null =>
                 \A w \in live \ {v} : val[w] # val[v]
  /\ heap \subseteq {val[v] : v \in live}

\* No string is deleted twice, by read(), setVal() or the destructors of the
\* copies, on the paths where a traced read or a read throws included.
FreedOnce == ~twice

\* Integer columns whose class takes as many bytes as the driver writes arrive
\* as the database holds them, at both limits and below 0, in copies as well.
IntegersArrive ==
  column \in {"SMALLINT", "INTEGER"} => \A v \in live : got[v] = given[v]

\* The note over cast_func: fields are bound directly to variables, so that no
\* conversion is needed.  It takes that every integer arrives as it is held.
NoConversionNeeded == Integral => \A v \in live : got[v] = given[v]

\* Every column a table may have can be read.
NoColumnRefused == stage # "refused"
=============================================================================
