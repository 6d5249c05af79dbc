----------------------------- MODULE MCQueryBuild -----------------------------
(***************************************************************************)
(* QueryBuild for TLC: a section with the attributes "d as b, a, a as b"   *)
(* (names 2 and 1, columns 4 and 1) or with "*", constraints on both names *)
(* and on the column d, whose comparators are kept, replaced, or replaced  *)
(* by the section's map.  By operator< the last constraint is greater than *)
(* the first and the third, and no other is greater than any.              *)
(***************************************************************************)
EXTENDS QueryBuild

MCSelects == {<<Attribute(2, 4), Attribute(1, 1), Attribute(2, 1)>>,
              <<Attribute(Star, Star)>>}
MCUniverse == {Constraint(1, "!=", 1), Constraint(2, "!=", 3),
               Constraint(1, "=", 2), Constraint(4, "~=", 3)}
MCAsks == {<<>>, <<3>>, <<3, 1>>, <<1, 2, 1>>}
MCOthers == {<<>>, "~=" :> "REGEXP"}
=============================================================================
