------------------------------ MODULE ErrorPolicy ------------------------------
(***************************************************************************)
(* What SQLErrorManager::trigger promises the actions of a handler: the    *)
(* check points are those of the configuration, an active one is fatal for *)
(* the return codes of errors and passes the others, an inactive one asks  *)
(* nobody, and every trigger is answered - unless its code is one the      *)
(* plugin has no list for, which ends the process.                         *)
(***************************************************************************)
CONSTANTS
  Checks,  \* the check points that can be active
  Forced,  \* the check point of a forced trigger: always active
  Codes,   \* return codes of the connector
  Errors,  \* those the plugin takes for errors
  Unmapped \* those it has no list of actions for

VARIABLES
  configured, \* the check points have been read
  function,   \* the active check points
  asked,      \* the check point of the last trigger
  code,       \* its return code
  pending,    \* it has not been answered
  outcome     \* its answer: "none", "inactive", "returned", "fatal", or
              \* "terminated": there is no process any more

policyVars == <<configured, function, asked, code, pending, outcome>>

Init ==
  /\ configured = FALSE /\ function = {}
  /\ asked = Forced /\ code \in Codes
  /\ pending = FALSE /\ outcome = "none"

Configure ==
  /\ ~configured /\ configured' = TRUE
  /\ function' \in SUBSET Checks
  /\ UNCHANGED <<asked, code, pending, outcome>>

Active(check) == check = Forced \/ check \in function

\* The answer for a code that has a list.
Verdict(check, c) ==
  IF ~Active(check) THEN "inactive" ELSE IF c \in Errors THEN "fatal" ELSE "returned"

\* What an inactive check point answers is known at once.
Trigger(check, c) ==
  /\ configured /\ ~pending /\ outcome # "terminated"
  /\ asked' = check /\ code' = c
  /\ pending' = Active(check)
  /\ outcome' = IF Active(check) THEN "none" ELSE "inactive"
  /\ UNCHANGED <<configured, function>>

Answer ==
  /\ pending /\ pending' = FALSE
  /\ code \notin Unmapped
  /\ outcome' = Verdict(asked, code)
  /\ UNCHANGED <<configured, function, asked, code>>

\* The process ends, and with it the request: nothing follows.
Terminate ==
  /\ pending /\ pending' = FALSE
  /\ code \in Unmapped
  /\ outcome' = "terminated"
  /\ UNCHANGED <<configured, function, asked, code>>

Next ==
  \/ Configure
  \/ \E check \in Checks \cup {Forced}, c \in Codes : Trigger(check, c)
  \/ Answer \/ Terminate

Spec == Init /\ [][Next]_policyVars

\* Every trigger is answered, or is the last one.
AnsweringSpec == Spec /\ WF_policyVars(Answer \/ Terminate)
=============================================================================
