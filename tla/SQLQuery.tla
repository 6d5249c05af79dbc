------------------------------- MODULE SQLQuery -------------------------------
(***************************************************************************)
(* The query object of a dataset section, container/SQLQuery.*: the        *)
(* std::sets that hold its attributes and its constraints, the loading of  *)
(* both from text, and the choice of the columns of a request.             *)
(* A name, the text of a column and a value are natural numbers ordered as *)
(* the strings are; the whitespace and the prefix of a name are left out.  *)
(***************************************************************************)
EXTENDS Naturals, Sequences, FiniteSets, SequencesExt

\* The k-th of a set of places of a sequence, and what stands at them, in order.
Nth(places, k) ==
  CHOOSE i \in places : Cardinality({j \in places : j <= i}) = k

Picked(s, places) == [k \in 1..Cardinality(places) |-> s[Nth(places, k)]]

\* The comparators in the order of string::compare.  " LIKE " is what the
\* substitution writes; the constraint expression does not match it.
Comparators == <<"!=", "<", "<=", "<>", "=", ">", ">=", "~=">>

Rank(comparator) ==
  CHOOSE i \in DOMAIN Comparators : Comparators[i] = comparator

\* A constraint just loaded has no substitute.
Constraint(attr, comp, val) ==
  [attr |-> attr, comp |-> comp, val |-> val, subst |-> ""]

\* Mutant of Less: every one of the three decides, as the name says.
LessStrict(a, b) == \/ a.attr < b.attr
                    \/ a.attr = b.attr /\ Rank(a.comp) < Rank(b.comp)
                    \/ a.attr = b.attr /\ a.comp = b.comp /\ a.val < b.val

\* SQLConstraint::operator<, true of a constraint and itself.
Less(a, b) == ~(a.attr > b.attr /\ Rank(a.comp) > Rank(b.comp) /\ a.val > b.val)

(***************************************************************************)
(* A std::set is the sequence of its elements from begin() to end().  An   *)
(* insertion descends the tree to a gap between two neighbours, going left *)
(* where the key is less; as Less is no order there may be several such    *)
(* gaps, and which one is found depends on the shape of the tree, which is *)
(* left open.  The set keeps the element it has when its neighbour is not  *)
(* less than the key.                                                      *)
(***************************************************************************)
Gaps(set, key) ==
  {p \in 1..Len(set) + 1 : /\ p > 1 => ~Less(key, set[p - 1])
                           /\ p <= Len(set) => Less(key, set[p])}

Inserted(set, key, p) ==
  IF p = 1 \/ Less(set[p - 1], key) THEN InsertAt(set, p, key) ELSE set

(***************************************************************************)
(* Attributes are records of a name and the text of the column (the full   *)
(* name); a set of them is ordered by name, and of two attributes of one   *)
(* name it keeps the first.  Their position is their place in the text.    *)
(***************************************************************************)
Star == 0

\* SQLAttribute: the name, which an alias may give, and the column.
Attribute(name, column) == [name |-> name, column |-> column]

Names(attributes) == {attributes[i].name : i \in DOMAIN attributes}

PositionOf(attributes, name) ==
  CHOOSE i \in DOMAIN attributes :
    /\ attributes[i].name = name
    /\ \A j \in 1..i - 1 : attributes[j].name # name

\* The set ordered by position that holds the attributes of these names.
ByPosition(attributes, names) ==
  Picked(attributes, {PositionOf(attributes, n) : n \in names})

\* An attribute as it is loaded from a request: its column is its name.
Requested(names) == [i \in DOMAIN names |-> Attribute(names[i], names[i])]

\* Mutant of AttrToSelect: there is no fallback on the dataset's list.
OnlyKnown(select, asked) ==
  ByPosition(select, Names(select) \cap Names(Requested(asked)))

\* attrToSelect(): the dataset's copies of what is asked for, in the order of
\* the dataset; with a "*" what is asked for as it stands; all of the dataset
\* when that leaves nothing.
AttrToSelect(select, asked) ==
  LET request == Requested(asked)
      known   == Names(select) \cap Names(request)
  IN  IF Star \in Names(select)
        THEN IF asked # <<>> THEN ByPosition(request, Names(request))
                             ELSE ByPosition(select, Names(select))
        ELSE ByPosition(select, IF known # {} THEN known ELSE Names(select))
=============================================================================
