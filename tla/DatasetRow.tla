------------------------------ MODULE DatasetRow ------------------------------
(***************************************************************************)
(* What SQLTextContainer::read does to one row of a part: as long as a     *)
(* $NAME$ is found in it, variableSubstitution replaces the first one,     *)
(* then the part takes the row.  Of a KEY=VALUE row of the [section] part  *)
(* row is what follows the "=", and addKeyValue takes a value from it; the *)
(* [select] part takes the whole row (see AttributeList).  A row is a      *)
(* sequence of classes of characters: "$", "a" for those of a word, the    *)
(* comma, the space, and ":" for the others.                               *)
(***************************************************************************)
EXTENDS Naturals, Sequences, SequencesExt, FiniteSets, FiniteSetsExt

CONSTANTS
  MaxLength,   \* bounds the row in the file
  Names,       \* names of variables
  Values       \* what a definition may give a variable

Classes == {"$", "a", "comma", "space", ":"}

\* The brackets of the regular expressions have commas between their ranges, so
\* that a comma is one of the characters of a name.
NameClasses == {"a", "comma"}
ValueClasses == {"a", "comma", "space"}

(* _SQLH_DATASET_REG_DEFVAR finds at least one character in a value.       *)
ASSUME DatasetRowAssumption ==
  /\ MaxLength \in Nat
  /\ \A v \in Values : v \in Seq(ValueClasses) \ {<<>>}
  /\ \A n \in Names : n \in Seq(NameClasses)

VARIABLES
  variables, \* the variables defined: name -> value
  reading,   \* the part it stands in: "section", "select"
  given,     \* the row in the file
  row,       \* the row so far
  outcome,   \* "substituting", "taken", "freeform", "thrown"
  value      \* the value addKeyValue takes

rowVars == <<variables, reading, given, row, outcome, value>>

RowInit ==
  /\ \E defined \in SUBSET Names : variables \in [defined -> Values]
  /\ reading \in {"section", "select"}
  /\ given \in SeqOf(Classes, MaxLength)
  /\ reading = "select" => given # <<>>
  /\ row = given /\ outcome = "substituting" /\ value = <<>>

-----------------------------------------------------------------------------
(* The match of _SQLH_DATASET_REG_VAR: a "$", characters of names, a "$".  *)

RefersAt(r, i, j) ==
  /\ i < j /\ r[i] = "$" /\ r[j] = "$"
  /\ \A k \in (i + 1)..(j - 1) : r[k] \in NameClasses

Starts(r) == {i \in DOMAIN r : \E j \in DOMAIN r : RefersAt(r, i, j)}

StartOf(r) == Min(Starts(r))
EndOf(r) == Min({j \in DOMAIN r : RefersAt(r, StartOf(r), j)})
NameIn(r) == SubSeq(r, StartOf(r) + 1, EndOf(r) - 1)

\* Mutant of TailKept: one character less is kept.
TailKeptLess(r) ==
  LET rest == SubSeq(r, EndOf(r) + 1, Len(r))
      width == EndOf(r) - StartOf(r)
  IN  SubSeq(rest, 1, IF Len(rest) < width THEN Len(rest) ELSE width)

\* What substr(rm_eo, rm_eo - rm_so) keeps of the text after the variable:
\* no more characters than the variable has.
TailKept(r) ==
  LET rest == SubSeq(r, EndOf(r) + 1, Len(r))
      width == EndOf(r) - StartOf(r) + 1
  IN  SubSeq(rest, 1, IF Len(rest) < width THEN Len(rest) ELSE width)

\* Mutant of Replaced: the new text is not assigned to the row.
NotReplaced(r) == r

Replaced(r) == SubSeq(r, 1, StartOf(r) - 1) \o variables[NameIn(r)] \o TailKept(r)

Substitute ==
  /\ outcome = "substituting" /\ Starts(row) # {}
  /\ NameIn(row) \in DOMAIN variables
  /\ row' = Replaced(row)
  /\ UNCHANGED <<variables, reading, given, outcome, value>>

\* The variable is not defined: read() throws.
Undefined ==
  /\ outcome = "substituting" /\ Starts(row) # {}
  /\ NameIn(row) \notin DOMAIN variables
  /\ outcome' = "thrown"
  /\ UNCHANGED <<variables, reading, given, row, value>>

(* What _SQLH_DATASET_REG_KEY_VAL takes for the value: the characters of   *)
(* its class the row begins with, without the spaces before them.  If      *)
(* there is none the row is free form.                                     *)
Opening(r) == SelectInSeq(r, LAMBDA c : c \notin ValueClasses)
BeginsWith(r) == IF Opening(r) = 0 THEN r ELSE SubSeq(r, 1, Opening(r) - 1)

\* Without its leading spaces, but never empty.
WithoutSpaces(t) ==
  IF \E i \in DOMAIN t : t[i] # "space"
    THEN SubSeq(t, SelectInSeq(t, LAMBDA c : c # "space"), Len(t))
    ELSE SubSeq(t, 1, 1)

TakeValue ==
  /\ reading = "section" /\ outcome = "substituting" /\ Starts(row) = {}
  /\ IF BeginsWith(row) = <<>>
       THEN outcome' = "freeform" /\ UNCHANGED value
       ELSE outcome' = "taken" /\ value' = WithoutSpaces(BeginsWith(row))
  /\ UNCHANGED <<variables, reading, given, row>>

RowNext == Substitute \/ Undefined \/ TakeValue

-----------------------------------------------------------------------------
Dollars(r) == {i \in DOMAIN r : r[i] = "$"}

\* The row with the value of its first variable in the place of it.
WithValue(r) ==
  SubSeq(r, 1, StartOf(r) - 1) \o variables[NameIn(r)] \o SubSeq(r, EndOf(r) + 1, Len(r))

(* "substitute $NAME$ everywhere on this row" (SQLTextContainer.cc:584):   *)
(* a row with one variable is the text before it, the value, and the text  *)
(* after it, however long.                                                 *)
OneReference(r) == Cardinality(Dollars(r)) = 2 /\ Starts(r) # {}
SubstitutedEverywhere ==
  outcome = "taken" /\ OneReference(given) => row = WithValue(given)

(* "VALUE can contain: [...] - :" (data/test_full.sql:56): a row without   *)
(* variables has its whole text for its value.                             *)
ValueIsWhole == outcome = "taken" /\ Dollars(given) = {} => value = WithoutSpaces(given)
=============================================================================
