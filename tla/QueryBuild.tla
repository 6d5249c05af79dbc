------------------------------ MODULE QueryBuild ------------------------------
(***************************************************************************)
(* SQLTextContainer builds the two statements of a request from the        *)
(* dataset section and the constraint of the request: buildCountQuery()    *)
(* first, buildQuery() after it, on the same where set, which was loaded   *)
(* when the section was read.  Each runs comparatorSubst() over the set it *)
(* is about to print, a loop that erases an element, inserts its copy with *)
(* the substitute set, and then increments the iterator of the erased      *)
(* element.  The step of a loop, also of one that loads a set, is an       *)
(* action; assembling the text between two loops is one.                   *)
(* A statement's predicates are a sequence of tokens: And, or a record of  *)
(* a column, a comparator and a value.                                     *)
(***************************************************************************)
EXTENDS SQLQuery, Integers

CONSTANTS
  Selects,      \* attributes a section may have, in the order of its text
  Universe,     \* constraints the section and the request are drawn from
  Asks,         \* sequences of names a request may ask for
  MaxWhere,     \* bound: constraints of the section
  MaxRequested, \* bound: constraints of the request
  Others        \* maps of the section's [other] part: comparator -> comparator

\* A comparator or a word for one is never empty: the expressions that match
\* them ask for a character, and getOther() adds spaces.
ASSUME QueryAssumption ==
  /\ \A s \in Selects : s \in Seq([name : Nat, column : Nat]) \ {<<>>}
  /\ Universe \subseteq [attr : Nat, comp : ToSet(Comparators), val : Nat,
                         subst : {""}]
  /\ \A a \in Asks : a \in Seq(Nat)
  /\ MaxWhere \in Nat /\ MaxRequested \in Nat
  /\ \A o \in Others : o \in [DOMAIN o -> STRING \ {""}]

VARIABLES
  section,    \* input: [select, constraints] of the dataset section
  request,    \* input: [asked, constraints] of the request
  other,      \* input: the map getOther() looks comparators up in
  pc,         \* the loop that runs: "load", "own", "ask" load a set, "count",
              \* "recount", "select", "fly" substitute its comparators; or
              \* "done", or "failed" when a loop has broken down
  where,      \* q.getWhere()
  inConstr,   \* in_constr of the builder that is running
  at,         \* index of wi in the set, or of what is loaded next, from 1
  text,       \* buf, respectively constraints, of the builder
  counting,   \* predicates of the COUNT statement
  selecting,  \* predicates of the SELECT statement
  columns     \* columns of the SELECT statement

inputs == <<section, request, other>>
vars == <<inputs, pc, where, inConstr, at, text, counting, selecting, columns>>

NoName == -1
And == [attr |-> NoName, comp |-> "", val |-> 0]

Init ==
  /\ section \in [select : Selects, constraints : BoundedSeq(Universe, MaxWhere)]
  /\ request \in [asked : Asks, constraints : BoundedSeq(Universe, MaxRequested)]
  /\ other \in Others
  /\ pc = "load" /\ at = 1 /\ where = <<>> /\ inConstr = <<>>
  /\ text = <<>> /\ counting = <<>> /\ selecting = <<>> /\ columns = <<>>

Select == section.select

-----------------------------------------------------------------------------
(* comparatorSubst().                                                      *)

Standard == [c \in {"!=", "~="} |-> IF c = "!=" THEN "<>" ELSE "LIKE"]

\* Mutant of Substitutes: what DAP defines comes before the section's map.
StandardFirst == Standard @@ other

\* What a comparator is replaced by; the section's map comes first.
Substitutes == [c \in DOMAIN other \cup DOMAIN Standard |->
                  IF c \in DOMAIN other THEN other[c] ELSE Standard[c]]

NeedsSubstitute(c) == c.comp \in DOMAIN Substitutes

\* The set the loop runs over.
OnWhere == pc \in {"load", "count", "select"}
Set == IF OnWhere THEN where ELSE inConstr

SetOfLoop(s) == IF OnWhere THEN where' = s /\ UNCHANGED inConstr
                           ELSE inConstr' = s /\ UNCHANGED where

InLoop == pc \in {"count", "recount", "select", "fly"} /\ at <= Len(Set)

\* An element whose comparator stays: wi++.
Pass == /\ InLoop /\ ~NeedsSubstitute(Set[at])
        /\ at' = at + 1
        /\ UNCHANGED <<inputs, pc, where, inConstr, text, counting, selecting,
                       columns>>

\* Mutant of Increments: the loop goes on with what insert() returned.
OnNew(old, new) == {new}

\* Where wi++ leads from the node that was erased: on from the new element
\* when it was given the memory of the old one, else along the links the freed
\* node still has, to what came after it.
Increments(old, new) == {new + 1, IF new <= old THEN old + 1 ELSE old}

\* setSubstitute(): the comparator stays.
Substituted(c) == [c EXCEPT !.subst = Substitutes[c.comp]]

\* An element whose comparator is replaced: erase(wi), insert(c), wi++.
Replace ==
  /\ InLoop /\ NeedsSubstitute(Set[at])
  /\ LET c == Substituted(Set[at])
         rest == RemoveAt(Set, at)
     IN  \E p \in Gaps(rest, c) :
           /\ SetOfLoop(Inserted(rest, c, p))
           /\ at' \in Increments(at, p)
  /\ UNCHANGED <<inputs, pc, text, counting, selecting, columns>>

\* The freed memory holds something else: the increment leads out of the set,
\* and the loop ends in an exception or a crash.
BreakDown ==
  /\ InLoop /\ NeedsSubstitute(Set[at])
  /\ pc' = "failed"
  /\ UNCHANGED <<inputs, where, inConstr, at, text, counting, selecting, columns>>

-----------------------------------------------------------------------------
(* The text of the predicates.                                             *)

Written(c) == IF c.subst = "" THEN c.comp ELSE c.subst

\* toString(), with the column of the section's text.
Predicate(c) == [attr |-> c.attr, comp |-> Written(c), val |-> c.val]

\* A constraint with the column its attribute name stands for in the section;
\* nothing is written for a name the section does not select.
ByName(c) ==
  [Predicate(c) EXCEPT !.attr =
     IF c.attr \in Names(Select) THEN Select[PositionOf(Select, c.attr)].column
                                 ELSE NoName]

\* Mutant of Joined: AND is written after every predicate.
JoinedAfter(t, predicates) ==
  t \o [i \in 1..2 * Len(predicates) |->
          IF i % 2 = 0 THEN And ELSE predicates[(i + 1) \div 2]]

\* The predicates appended to a text, AND before each but a first.
Joined(t, predicates) ==
  LET each == [i \in 1..2 * Len(predicates) |->
                 IF i % 2 = 1 THEN And ELSE predicates[i \div 2]]
  IN  IF t = <<>> /\ predicates # <<>> THEN Tail(each) ELSE t \o each

Image(Op(_), s) == [i \in DOMAIN s |-> Op(s[i])]

WhereText == Joined(<<>>, Image(Predicate, where))

\* Where the constraint expression matches in a text.
Matched(t) == {i \in DOMAIN t : t[i] # And /\ t[i].comp \in ToSet(Comparators)}

AsConstraint(token) == Constraint(token.attr, token.comp, token.val)

\* Mutant of Erased: the text is left as it is.
NotErased(t) == t

\* The text after match(), which erases what the expression matches.
Erased(t) == Picked(t, DOMAIN t \ Matched(t))

\* What match() returns of a text: the groups of each match, in order.
Found(t) == Image(AsConstraint, Picked(t, Matched(t)))

-----------------------------------------------------------------------------
(* The loading of a set, and the builders between their loops.             *)

\* What is loaded; buildCountQuery() takes the constraints it finds in its own
\* text for those of the request.
Source == CASE pc = "load" -> section.constraints
            [] pc = "own"  -> Found(WhereText)
            [] pc = "ask"  -> request.constraints
            [] OTHER       -> <<>>

Loading == pc \in {"load", "own", "ask"}
AfterLoad == [load |-> "count", own |-> "recount", ask |-> "fly"]

\* loadConstraints(): a turn of its loop, and its end.
LoadConstraint ==
  /\ Loading /\ at <= Len(Source)
  /\ \E p \in Gaps(Set, Source[at]) : SetOfLoop(Inserted(Set, Source[at], p))
  /\ at' = at + 1
  /\ UNCHANGED <<inputs, pc, text, counting, selecting, columns>>

EndLoad ==
  /\ Loading /\ at > Len(Source)
  /\ pc' = AfterLoad[pc] /\ at' = 1
  /\ UNCHANGED <<inputs, where, inConstr, text, counting, selecting, columns>>

\* buildCountQuery() after its first loop.
StartCount ==
  /\ pc = "count" /\ at > Len(where)
  /\ IF where = <<>>
       THEN pc' = "select" /\ UNCHANGED text
       ELSE pc' = "own" /\ text' = Erased(WhereText)
  /\ inConstr' = <<>> /\ at' = 1
  /\ UNCHANGED <<inputs, where, counting, selecting, columns>>

EndCount ==
  /\ pc = "recount" /\ at > Len(inConstr)
  /\ counting' = Joined(text, Image(ByName, inConstr))
  /\ pc' = "select" /\ at' = 1
  /\ UNCHANGED <<inputs, where, inConstr, text, selecting, columns>>

\* buildQuery() after its first loop.
StartSelect ==
  /\ pc = "select" /\ at > Len(where)
  /\ columns' = AttrToSelect(Select, request.asked)
  /\ text' = WhereText
  /\ pc' = "ask" /\ inConstr' = <<>> /\ at' = 1
  /\ UNCHANGED <<inputs, where, counting, selecting>>

EndSelect ==
  /\ pc = "fly" /\ at > Len(inConstr)
  /\ selecting' = Joined(text, Image(ByName, inConstr))
  /\ pc' = "done"
  /\ UNCHANGED <<inputs, where, inConstr, at, text, counting, columns>>

Step == \/ LoadConstraint \/ EndLoad \/ Pass \/ Replace
        \/ StartCount \/ EndCount \/ StartSelect \/ EndSelect

Next == Step \/ BreakDown

\* A single thread runs the builders; that a loop breaks down is not owed.
Spec == Init /\ [][Next]_vars /\ WF_vars(Step)

-----------------------------------------------------------------------------
(* Properties.                                                             *)

\* A constraint of a set: as it was loaded, or with its substitute.
Elements ==
  [attr : Nat, comp : ToSet(Comparators), val : Nat,
   subst : {""} \cup {Substitutes[c] : c \in DOMAIN Substitutes}]

Loaded(c) == \/ c.subst = ""
             \/ NeedsSubstitute(c) /\ c.subst = Substitutes[c.comp]

\* The sets hold constraints with the substitute of their comparator or none,
\* and the iterator of a loop is on an element or at end()
\* (SQLTextContainer::comparatorSubst).
TypeOK ==
  /\ pc \in {"load", "count", "own", "recount", "select", "ask", "fly",
             "done", "failed"}
  /\ where \in Seq(Elements) /\ \A i \in DOMAIN where : Loaded(where[i])
  /\ inConstr \in Seq(Elements) /\ \A i \in DOMAIN inConstr : Loaded(inConstr[i])
  /\ pc \notin {"done", "failed"} =>
       at \in 1..Len(IF Loading THEN Source ELSE Set) + 1

Base(c) == [c EXCEPT !.subst = ""]

\* The places in a set, or in a list of constraints, of those in C.
Places(s, C) == {i \in DOMAIN s : Base(s[i]) \in C}

\* Each constraint is there as often as it is there.
SameConstraints(s, t) ==
  \A c \in Universe : Cardinality(Places(s, {c})) = Cardinality(Places(t, {c}))

\* An element that is erased and inserted again is never taken for one the set
\* already holds: although operator< is no order, the sets hold what the
\* section and the request state, each as often as they state it.
ConstraintsKept ==
  /\ pc # "load" => SameConstraints(where, section.constraints)
  /\ pc \in {"fly", "done"} => SameConstraints(inConstr, request.constraints)

\* The predicates of a text that is well joined.
Predicates(t) == [i \in 1..(Len(t) + 1) \div 2 |-> t[2 * i - 1]]

WellJoined(t) == /\ t # <<>> => Len(t) % 2 = 1
                 /\ \A i \in DOMAIN t : (t[i] = And) <=> (i % 2 = 0)

\* The SELECT statement has every constraint of the section and of the request
\* as a predicate, those of the section first, joined by AND (buildQuery()).
SelectHasAll ==
  pc = "done" =>
    /\ WellJoined(selecting)
    /\ Predicates(selecting) = Image(Predicate, where) \o Image(ByName, inConstr)
    /\ Len(where) = Len(section.constraints)
    /\ Len(inConstr) = Len(request.constraints)

Substitutable(s) == Places(s, {c \in Universe : NeedsSubstitute(c)})

\* Of two neighbours the set never has the greater first; a third constraint
\* between them is enough for that.
Few(s) == Cardinality(Substitutable(s)) <= 1 \/ Len(s) <= 2

\* The word for a comparator in the section's SQL: its own (getOther()), else
\* that of the standard for a comparator of DAP.
Word(comp) == CASE comp \in DOMAIN other -> other[comp]
                [] comp \notin DOMAIN other /\ comp = "!=" -> "<>"
                [] comp \notin DOMAIN other /\ comp = "~=" -> "LIKE"
                [] OTHER -> comp

\* Each predicate of the SELECT statement has the word for its comparator.
ForDatabase ==
  LET p == Predicates(selecting)
      c == where \o inConstr
  IN  \A i \in DOMAIN p : p[i].comp = Word(c[i].comp)

\* With few constraints every comparator reaches the database as its word,
\* although the loops leave the comparator of what they have treated as it was
\* and may meet elements twice (comparatorSubst()).
WordsOfDatabase ==
  pc = "done" /\ Few(section.constraints) /\ Few(request.constraints) =>
    ForDatabase

\* The columns of the SELECT are columns of the section in the order of its
\* text, each once and never none; all a request asks for by a known name are
\* among them.  The response is built with the types of these positions.
ColumnsOfSection ==
  pc = "done" =>
    LET known == ToSet(request.asked) \cap Names(Select)
    IN  /\ columns # <<>>
        /\ Star \notin Names(Select) =>
             /\ \A i, j \in DOMAIN columns :
                  i < j => PositionOf(Select, columns[i].name)
                             < PositionOf(Select, columns[j].name)
             /\ ToSet(columns) \subseteq ToSet(Select)
             /\ known # {} => Names(columns) = known

\* No word that stands for a comparator is replaced by another in its turn.
WordsAreFinal ==
  \A w \in {Substitutes[c] : c \in DOMAIN Substitutes} \cap DOMAIN Substitutes :
    Substitutes[w] = w

\* The case in which the constraints buildCountQuery() loads from its own text
\* are the section's: the request has none and the section at most one, on a
\* column it selects by its name.
PlainCount ==
  /\ request.constraints = <<>> /\ Len(section.constraints) <= 1
  /\ \A i \in DOMAIN section.constraints :
       LET a == section.constraints[i].attr
       IN  a \in Names(Select) /\ Select[PositionOf(Select, a)].column = a
  /\ WordsAreFinal

\* The COUNT statement counts the rows the SELECT returns in that case: although
\* it loads its own text as if it were the request's, and substitutes the
\* comparators twice, it has the predicate of the SELECT once.
CountAgrees == pc = "done" /\ PlainCount => counting = selecting

\* What the comments of comparatorSubst() say of its substitutes, that they are
\* what is sent "to standard SQL".  It takes a loop that meets every element: one
\* that is inserted again behind others takes the iterator past them.
AllSubstituted == pc = "done" => ForDatabase

\* What the comment of ODBCConnector::getRowCount says of the statement it
\* runs: the number of rows that will be returned by the SELECT.  It takes an
\* expression a database can parse.
CountIsStatement ==
  pc = "done" => /\ WellJoined(counting)
                 /\ \A i \in DOMAIN counting :
                      counting[i] # And => counting[i].attr # NoName

\* What the comment in buildQuery() says of its text: a valid WHERE predicate.
SelectIsStatement ==
  pc = "done" => \A i \in DOMAIN selecting :
                   selecting[i] # And => selecting[i].attr # NoName

Ended == pc \in {"done", "failed"}

\* The builders come to an end when no set has two constraints whose
\* comparator is replaced (comparatorSubst, the loop over one of them).
EndsIfFew ==
  Cardinality(Substitutable(section.constraints)) <= 1
    /\ Cardinality(Substitutable(request.constraints)) <= 1 => <>Ended

\* The loop is one "for each constraint": it ends.
SubstitutionEnds == <>Ended
=============================================================================
