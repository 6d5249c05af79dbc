-------------------------------- MODULE MCRow --------------------------------
(***************************************************************************)
(* AttributeList for TLC: every row of up to MaxLength characters, with an *)
(* empty and a short name, and a value that is a word and one that is a    *)
(* list.  ShortRestsKept stands here, as what it compares a row with is    *)
(* recursive.                                                              *)
(***************************************************************************)
EXTENDS AttributeList

MCNames == {<<>>, <<"a">>}
MCValues == {<<"a">>, <<"a", "comma", "a">>}

RECURSIVE FullySubstituted(_)
FullySubstituted(r) == IF Starts(r) = {} THEN r ELSE FullySubstituted(WithValue(r))

\* Every variable is defined, and what follows it is not longer than it.
RECURSIVE RestsFit(_)
RestsFit(r) ==
  Starts(r) # {} =>
    /\ NameIn(r) \in DOMAIN variables
    /\ Len(r) - EndOf(r) <= EndOf(r) - StartOf(r) + 1
    /\ RestsFit(WithValue(r))

(* A row in which every variable is followed by no more text than the      *)
(* variable has is taken with all of them substituted, one after the       *)
(* other, and nothing else of it changed: no rest is cut short, no value   *)
(* runs into a variable after it.                                          *)
ShortRestsKept ==
  outcome # "substituting" /\ RestsFit(given) => row = FullySubstituted(given)
=============================================================================
