----------------------------- MODULE AttributeList -----------------------------
(***************************************************************************)
(* SQLQuery::loadAttributes on a [select] part of one row.                 *)
(* StringMatch::match finds the first attribute of the text that           *)
(* _SQLH_CONT_REG_ATTR describes, erases it with the commas around it, and *)
(* looks again in what that leaves, until there is none; then every        *)
(* attribute found is parsed by SQLAttribute.  An element of the list is   *)
(* what stands between two commas.  Words are not told apart: the keyword  *)
(* AS does not occur, and the "*" is one of the other characters.          *)
(***************************************************************************)
EXTENDS DatasetRow

VARIABLES
  phase, \* "row", "matching", "loaded", "thrown"
  list,  \* the text loadAttributes was given
  text,  \* what match() has left of it
  found  \* the attributes matched so far

listVars == <<phase, list, text, found>>
allVars == <<rowVars, listVars>>

ListInit ==
  /\ RowInit
  /\ phase = "row" /\ list = <<>> /\ text = <<>> /\ found = <<>>

(* addFreeForm and addKeyValue append the row to the text of the part.     *)
TakeList ==
  /\ reading = "select" /\ outcome = "substituting" /\ Starts(row) = {}
  /\ outcome' = "taken" /\ phase' = "matching"
  /\ list' = <<"space">> \o row /\ text' = list'
  /\ UNCHANGED <<variables, reading, given, row, value, found>>

-----------------------------------------------------------------------------
(* _SQLH_CONT_REG_ATTR                                                     *)

Attribute(t) == t \in Seq({"a", "space"}) \ {<<>>}

\* What the expression takes from i to j for the attribute: the commas it
\* begins and ends with are left out.
Inner(t, i, j) ==
  SubSeq(t, IF t[i] = "comma" THEN i + 1 ELSE i, IF t[j] = "comma" THEN j - 1 ELSE j)

Matches(t, i, j) ==
  /\ i <= j
  /\ i = 1 \/ t[i] = "comma"
  /\ j = Len(t) \/ t[j] = "comma"
  /\ Attribute(Inner(t, i, j))

Spans(t) == {s \in (DOMAIN t) \X (DOMAIN t) : Matches(t, s[1], s[2])}

\* The leftmost match, and the longest there.
Span(t) ==
  CHOOSE s \in Spans(t) : \A r \in Spans(t) :
    s[1] < r[1] \/ (s[1] = r[1] /\ s[2] >= r[2])

-----------------------------------------------------------------------------
(* StringMatch::match                                                      *)

\* Mutant of Erased: the last character of the match stays.
ErasedOneLess(t, s) == SubSeq(t, 1, s[1] - 1) \o SubSeq(t, s[2], Len(t))

\* Mutant of Erased: the character after the match goes with it.
ErasedOneMore(t, s) == SubSeq(t, 1, s[1] - 1) \o SubSeq(t, s[2] + 2, Len(t))

\* "delete matching string (entire string)"
Erased(t, s) == SubSeq(t, 1, s[1] - 1) \o SubSeq(t, s[2] + 1, Len(t))

MatchOne ==
  /\ phase = "matching" /\ Spans(text) # {}
  /\ found' = Append(found, WithoutSpaces(Inner(text, Span(text)[1], Span(text)[2])))
  /\ text' = Erased(text, Span(text))
  /\ UNCHANGED <<rowVars, phase, list>>

\* Where a word begins.
Words(t) == {i \in DOMAIN t : t[i] = "a" /\ (i = 1 \/ t[i - 1] = "space")}

\* match() finds _SQLH_REG_ATTR once or not at all, its alternatives being
\* anchored at both ends: an attribute has a name, or a name and an alias.
MatchCount(t) == IF Cardinality(Words(t)) \in {1, 2} THEN 1 ELSE 0

\* loadAttribute throws for what is not one attribute.
LoadAttributes ==
  /\ phase = "matching" /\ Spans(text) = {}
  /\ phase' = IF \A n \in DOMAIN found : MatchCount(found[n]) = 1
                THEN "loaded" ELSE "thrown"
  /\ UNCHANGED <<rowVars, list, text, found>>

ListNext ==
  \/ RowNext /\ UNCHANGED listVars
  \/ TakeList \/ MatchOne \/ LoadAttributes

ListSpec == ListInit /\ [][ListNext]_allVars /\ WF_allVars(ListNext)

-----------------------------------------------------------------------------
(* A row is dealt with: values hold no variables, no new one arises where  *)
(* a value meets the text around it, and no match is empty, so that both   *)
(* loops that look again in what they have changed come to an end.         *)
RowEnds ==
  <>(IF reading = "section" THEN outcome # "substituting"
                            ELSE outcome = "thrown" \/ phase \in {"loaded", "thrown"})

\* The places of attributes in a list, as pairs of their first and their last
\* character: a comma or an end on both sides and none between.
AttributePlaces(t) ==
  {s \in (DOMAIN t) \X (DOMAIN t) :
     /\ s[1] = 1 \/ t[s[1] - 1] = "comma"
     /\ s[2] = Len(t) \/ t[s[2] + 1] = "comma"
     /\ Attribute(SubSeq(t, s[1], s[2]))}

\* The attributes found stand at these places of the list, in this order.
FoundAt(places) ==
  /\ \A m, n \in DOMAIN found : m < n => places[m][2] < places[n][1]
  /\ \A n \in DOMAIN found :
       found[n] = WithoutSpaces(SubSeq(list, places[n][1], places[n][2]))

(* What is found are elements of the list in their order, whatever else    *)
(* stands in it: the text an erased match joins is never taken for an      *)
(* attribute of its own.                                                   *)
NothingInvented ==
  \E places \in [DOMAIN found -> AttributePlaces(list)] : FoundAt(places)

\* Those with no malformed element before them.
FirstOnes(t) ==
  {s \in AttributePlaces(t) : \A m \in 1..s[2] : t[m] \in {"a", "space", "comma"}}

(* Attributes up to the first element that is malformed are all found: the *)
(* comma two neighbours share serves both, although the match of the first *)
(* erases it.  (After a malformed element they need not be.)               *)
FirstOnesFound ==
  phase \in {"loaded", "thrown"} =>
    \E places \in [DOMAIN found -> AttributePlaces(list)] :
      FoundAt(places) /\ FirstOnes(list) \subseteq {places[n] : n \in DOMAIN found}
=============================================================================
