----------------------------- MODULE ErrorActions -----------------------------
(***************************************************************************)
(* The dynamic error matching: after a step of the connector a handler's   *)
(* action calls SQLErrorManager::trigger for a check point.  If the check  *)
(* point is active SQLActionManager::doActions asks the error factory for  *)
(* the return code, runs the list of actions of that code, and asks again  *)
(* until the code is one to stop at.  The lists are static: all requests   *)
(* of a plugin share them with the iterator they hold.  The connector does *)
(* not change its code meanwhile.  A code without a list ends the process: *)
(* the factory's exception is not one getActions is declared to throw.     *)
(***************************************************************************)
EXTENDS Naturals, Sequences

CONSTANTS
  Codes,      \* return codes of the driver
  ActionsOf,  \* code -> the actions of its list: "debug", "exception", ...
  Stops,      \* codes for which _stop() returns true
  Settings    \* values of SQL.CheckPoint

\* What an action does is to print, or to throw one of these.
Actions == {"debug", "exception", "fatal", "besinternal", "beserror"}

\* The numbers of the check points; trigger() does not look ON_ALWAYS up.
ON_ALWAYS == 0
CHECK_SIZE == 6
Checks == 1..6

ASSUME ErrorActionsAssumption ==
  /\ DOMAIN ActionsOf \subseteq Codes /\ Stops \subseteq Codes
  /\ \A c \in DOMAIN ActionsOf : ActionsOf[c] \in Seq(Actions) \ {<<>>}
  /\ Settings \subseteq SUBSET Checks

VARIABLES
  setting,   \* SQL.CheckPoint in the configuration
  isSet,     \* init() has read it
  refused,   \* init() has thrown
  function,  \* the active check points
  lastType,  \* last_type_checked
  lastStatus,\* last_status
  pc,        \* of doActions: "idle", "code", "act", "join"; "dead" when
             \* std::unexpected() has ended the process
  asked,     \* the check point of the trigger
  code,      \* the connector's return code
  iterator,  \* code -> the next action of its list, from 1
  outcome    \* of the last trigger: "none", "inactive", "returned", "internal",
             \* "fatal", "terminated"

checkVars == <<setting, isSet, refused, function, lastType, lastStatus>>
actionVars == <<pc, asked, code, iterator, outcome>>
vars == <<checkVars, actionVars>>

Init ==
  /\ setting \in Settings /\ isSet = FALSE /\ refused = FALSE /\ function = {}
  /\ lastType = 0 /\ lastStatus = FALSE
  /\ pc = "idle" /\ asked = ON_ALWAYS /\ code \in Codes
  /\ iterator = [c \in DOMAIN ActionsOf |-> 1] /\ outcome = "none"

-----------------------------------------------------------------------------
(* SQLCheckPoint                                                           *)

Accepted(val) == val < CHECK_SIZE /\ val > 0

InitCheckPoint ==
  /\ ~isSet /\ ~refused
  /\ lastStatus' = FALSE /\ lastType' = CHECK_SIZE + 1
  /\ IF \A val \in setting : Accepted(val)
       THEN function' = setting /\ isSet' = TRUE /\ UNCHANGED refused
       ELSE refused' = TRUE /\ UNCHANGED <<function, isSet>>
  /\ UNCHANGED <<setting, actionVars>>

\* The status check() remembers.
StatusOf(type) == IF type = lastType THEN lastStatus ELSE type \in function

-----------------------------------------------------------------------------
(* SQLErrorManager::trigger                                                *)

\* A step of the connector has left it with the return code c, and the
\* handler's action calls trigger() for the check point, or with force.
Trigger(check, c) ==
  /\ pc = "idle" /\ isSet
  /\ asked' = check /\ code' = c
  /\ IF check = ON_ALWAYS
       THEN UNCHANGED <<lastType, lastStatus>>
       ELSE lastType' = check /\ lastStatus' = StatusOf(check)
  /\ IF check = ON_ALWAYS \/ lastStatus'
       THEN pc' = "code" /\ outcome' = "none"
       ELSE pc' = "idle" /\ outcome' = "inactive"
  /\ UNCHANGED <<setting, isSet, refused, function, iterator>>

Leave(result) ==
  /\ pc' = "idle" /\ outcome' = result
  /\ UNCHANGED <<checkVars, asked, code>>

-----------------------------------------------------------------------------
(* SQLActionManager::doActions                                             *)

\* Mutant of Rewound: getActions does not reset the list.
NotRewound(c) == iterator[c]

Rewound(c) == 1

GetActions ==
  /\ pc = "code" /\ code \in DOMAIN ActionsOf
  /\ iterator' = [iterator EXCEPT ![code] = Rewound(code)]
  /\ pc' = "act"
  /\ UNCHANGED <<checkVars, asked, code, outcome>>

\* Mutant of NoActions: the default branch throws nothing.
NoDefault ==
  /\ pc = "code" /\ code \notin DOMAIN ActionsOf
  /\ pc' = "act"
  /\ UNCHANGED <<checkVars, asked, code, iterator, outcome>>

\* The factory has no list for the code: _getActions throws an error that is
\* no SQLInternalError, out of getActions, which is declared to throw nothing
\* else.  The process terminates; no action is enabled any more.
NoActions ==
  /\ pc = "code" /\ code \notin DOMAIN ActionsOf
  /\ pc' = "dead" /\ outcome' = "terminated"
  /\ UNCHANGED <<checkVars, asked, code, iterator>>

HasNext == iterator[code] <= Len(ActionsOf[code])
Action == ActionsOf[code][iterator[code]]

\* What tryNext lets through: a BESInternalError is dropped, any other
\* BESError becomes fatal.
Thrown(action) ==
  CASE action = "exception" -> "internal"
    [] action \in {"fatal", "beserror"} -> "fatal"
    [] action \in {"debug", "besinternal"} -> "nothing"

(* Lists that decide every trigger whose code has one, as those of the     *)
(* ODBC plugin do: a code to stop at has a list and throws nothing; any    *)
(* other with a list runs into a fatal action before anything else is      *)
(* thrown.                                                                 *)
ListsDecide ==
  /\ Stops \subseteq DOMAIN ActionsOf
  /\ \A c \in Stops : \A i \in DOMAIN ActionsOf[c] :
       Thrown(ActionsOf[c][i]) = "nothing"
  /\ \A c \in DOMAIN ActionsOf \ Stops : \E i \in DOMAIN ActionsOf[c] :
       /\ Thrown(ActionsOf[c][i]) = "fatal"
       /\ \A j \in 1..(i - 1) : Thrown(ActionsOf[c][j]) = "nothing"

DoNext ==
  /\ pc = "act" /\ HasNext
  /\ iterator' = [iterator EXCEPT ![code] = @ + 1]
  /\ IF Thrown(Action) = "fatal"
       THEN Leave("fatal")
       ELSE /\ pc' = IF Thrown(Action) = "internal" THEN "join" ELSE "act"
            /\ UNCHANGED <<checkVars, asked, code, outcome>>

ListDone ==
  /\ pc = "act" /\ ~HasNext
  /\ pc' = "join"
  /\ UNCHANGED <<checkVars, asked, code, iterator, outcome>>

StopsAt(c) == c \in Stops

\* Another turn, or the end.
Join ==
  /\ pc = "join"
  /\ IF StopsAt(code) THEN Leave("returned")
       ELSE pc' = "code" /\ UNCHANGED <<checkVars, asked, code, outcome>>
  /\ UNCHANGED iterator

DoActions == GetActions \/ NoActions \/ DoNext \/ ListDone \/ Join

Next ==
  \/ InitCheckPoint
  \/ \E check \in 0..5, c \in Codes : Trigger(check, c)
  \/ DoActions

Spec == Init /\ [][Next]_vars

\* A request thread is not suspended for ever.
FairSpec == Spec /\ WF_vars(DoActions)

-----------------------------------------------------------------------------
ErrorActionsTypeOK ==
  /\ isSet \in BOOLEAN /\ refused \in BOOLEAN
  /\ setting \subseteq Checks /\ function \subseteq Checks
  /\ lastType \in 0..(CHECK_SIZE + 1) /\ lastStatus \in BOOLEAN
  /\ pc \in {"idle", "code", "act", "join", "dead"}
  /\ asked \in 0..5 /\ code \in Codes
  /\ DOMAIN iterator = DOMAIN ActionsOf
  /\ \A c \in DOMAIN ActionsOf : iterator[c] \in 1..(Len(ActionsOf[c]) + 1)
  /\ outcome \in {"none", "inactive", "returned", "fatal", "terminated"}
  /\ pc \in {"code", "act", "join"} => outcome = "none"
  /\ pc \in {"act", "join"} => code \in DOMAIN ActionsOf
  /\ pc = "dead" <=> outcome = "terminated"
  /\ pc = "dead" => code \notin DOMAIN ActionsOf

(* The triggers of a plugin are those ErrorPolicy promises, in any sequence *)
(* of them: no check point takes the status remembered of another, no list *)
(* is left in the middle by an exception and taken up there by the next    *)
(* trigger, a code the plugin has a list for and does not stop at is       *)
(* always fatal, one it has no list for ends the process and none else     *)
(* does, and the loop always comes to an end.                              *)
Policy == INSTANCE ErrorPolicy WITH
            Forced <- ON_ALWAYS, Errors <- DOMAIN ActionsOf \ Stops,
            Unmapped <- Codes \ DOMAIN ActionsOf,
            configured <- isSet, pending <- pc \in {"code", "act", "join"}
KeepsPolicy == Policy!AnsweringSpec

\* The status remembered is that of the check point it was asked for.
StatusInv == isSet /\ lastType \in Checks => lastStatus = (lastType \in function)

\* Only active check points run actions.
AskedInv == pc # "idle" => isSet /\ (asked = ON_ALWAYS \/ asked \in function)

\* A list that is to throw has not passed what throws, and its end is not
\* reached.
PlaceInv ==
  /\ pc = "act" /\ code \notin Stops =>
       \A j \in 1..(iterator[code] - 1) : Thrown(ActionsOf[code][j]) = "nothing"
  /\ pc = "join" => code \in Stops

\* What makes the safety part of KeepsPolicy inductive, if ListsDecide.
PolicyInv == ErrorActionsTypeOK /\ StatusInv /\ AskedInv /\ PlaceInv

(* "each time we do not find the mapped action for an error code [...] a   *)
(* BESError exception is thrown" (SQLActionManager.h:243): the request     *)
(* with such a code ends with an error.                                    *)
UnmappedIsThrown ==
  (pc = "code" /\ code \notin DOMAIN ActionsOf) ~> (outcome = "fatal")

(* "throw a (recoverable) InternalError on get next object"                *)
(* (SQLCheckPoint.h:66): the SQLInternalError an action throws reaches the *)
(* caller of trigger().                                                    *)
RecoverableReachesCaller ==
  (pc = "act" /\ HasNext /\ Action = "exception") ~> (outcome = "internal")

(* "There are 6 check points that you can activate: [...] _SQLH_ON_CUSTOM  *)
(* = 6" (SQLCheckPoint.h:54).                                              *)
DocumentedAreAccepted == ~refused
=============================================================================
