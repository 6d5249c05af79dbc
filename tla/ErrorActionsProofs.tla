-------------------------- MODULE ErrorActionsProofs --------------------------
(***************************************************************************)
(* The proof that the dynamic error matching implements ErrorPolicy: every *)
(* step of SQLErrorManager and SQLActionManager::doActions is a step of    *)
(* the policy or none.  The policy's answer is decided by the code alone;  *)
(* doActions finds it by running a list that other triggers have used and  *)
(* left anywhere.  PolicyInv says why that is the same: the list is begun  *)
(* anew, and one that is to throw is never passed without throwing.  A     *)
(* code without a list is no exception to that: the process ends in both.  *)
(***************************************************************************)
EXTENDS ErrorActions, TLAPS

LEMMA PolicyInit == Init => PolicyInv /\ Policy!Init
<1> SUFFICES ASSUME Init PROVE PolicyInv /\ Policy!Init
  OBVIOUS
<1>1. \A c \in DOMAIN ActionsOf : Len(ActionsOf[c]) \in Nat
  BY ErrorActionsAssumption
<1>2. /\ DOMAIN iterator = DOMAIN ActionsOf
      /\ \A c \in DOMAIN ActionsOf : iterator[c] \in 1..(Len(ActionsOf[c]) + 1)
  BY <1>1 DEF Init
<1>3. setting \subseteq Checks
  BY ErrorActionsAssumption DEF Init
<1>4. ErrorActionsTypeOK
  <2>1. isSet \in BOOLEAN /\ refused \in BOOLEAN /\ lastStatus \in BOOLEAN
    BY Zenon DEF Init
  <2>2. function \subseteq Checks /\ lastType \in 0..(CHECK_SIZE + 1) /\ asked \in 0..5
    BY DEF Init, ON_ALWAYS, CHECK_SIZE
  <2> QED
    BY <1>2, <1>3, <2>1, <2>2 DEF Init, ErrorActionsTypeOK
<1>5. StatusInv /\ AskedInv /\ PlaceInv
  BY DEF Init, StatusInv, AskedInv, PlaceInv
<1>6. Policy!Init
  BY DEF Init, Policy!Init
<1> QED
  BY <1>4, <1>5, <1>6 DEF PolicyInv

(* init(): the check points become those of the configuration, and no      *)
(* status is remembered of one of them.                                    *)
LEMMA PolicyConfigure ==
  ASSUME PolicyInv, InitCheckPoint
  PROVE  PolicyInv' /\ [Policy!Next]_(Policy!policyVars)
<1> USE DEF InitCheckPoint, actionVars
<1>1. ErrorActionsTypeOK'
  <2>1. /\ isSet' \in BOOLEAN /\ refused' \in BOOLEAN /\ lastStatus' \in BOOLEAN
        /\ function' \in {setting, function}
    BY Zenon DEF PolicyInv, ErrorActionsTypeOK
  <2>2. lastType' \in 0..(CHECK_SIZE + 1)
    BY DEF CHECK_SIZE
  <2> QED
    BY <2>1, <2>2 DEF PolicyInv, ErrorActionsTypeOK
<1>2. StatusInv'
  BY DEF CHECK_SIZE, StatusInv, Checks
<1>3. AskedInv' /\ PlaceInv'
  BY DEF PolicyInv, AskedInv, PlaceInv
<1>4. Policy!Configure \/ UNCHANGED Policy!policyVars
  BY DEF PolicyInv, ErrorActionsTypeOK, Policy!Configure, Policy!policyVars
<1> QED
  BY <1>1, <1>2, <1>3, <1>4 DEF PolicyInv, Policy!Next

(* A trigger asks about its own check point: the status remembered is the  *)
(* one of lastType, and only looked at for that.                           *)
LEMMA PolicyTrigger ==
  ASSUME PolicyInv, NEW check \in 0..5, NEW c \in Codes, Trigger(check, c)
  PROVE  PolicyInv' /\ [Policy!Next]_(Policy!policyVars)
<1> USE DEF Trigger
<1>1. check # ON_ALWAYS => check \in Checks /\ (lastStatus' = (check \in function))
  BY DEF PolicyInv, StatusInv, StatusOf, ON_ALWAYS, Checks
<1>2. ErrorActionsTypeOK'
  <2>1. CASE check = ON_ALWAYS
    BY <2>1 DEF PolicyInv, ErrorActionsTypeOK
  <2>2. CASE check # ON_ALWAYS
    BY <1>1, <2>2 DEF PolicyInv, ErrorActionsTypeOK, CHECK_SIZE, Checks
  <2> QED
    BY <2>1, <2>2
<1>3. StatusInv' /\ AskedInv' /\ PlaceInv'
  BY <1>1 DEF PolicyInv, StatusInv, AskedInv, PlaceInv
<1>4. Policy!Trigger(check, c)
  <2>1. isSet /\ pc = "idle" /\ outcome # "terminated"
    BY DEF PolicyInv, ErrorActionsTypeOK
  <2>2. /\ pc' \in {"code", "act", "join"} <=> Policy!Active(check)
        /\ outcome' = IF Policy!Active(check) THEN "none" ELSE "inactive"
    BY <1>1 DEF Policy!Active
  <2>3. (pc' \in {"code", "act", "join"}) = Policy!Active(check)
    BY <2>2 DEF Policy!Active
  <2>4. ~(pc \in {"code", "act", "join"})
    BY <2>1
  <2> QED
    BY <2>1, <2>2, <2>3, <2>4 DEF Policy!Trigger
<1>5. check \in Checks \cup {ON_ALWAYS}
  BY <1>1
<1> QED
  BY <1>2, <1>3, <1>4, <1>5 DEF PolicyInv, Policy!Next

(* A fatal answer is the policy's: only codes that have a list and are not *)
(* to stop at lead to it.                                                  *)
LEMMA FatalAnswer ==
  ASSUME PolicyInv, pc \in {"code", "act", "join"},
         code \in DOMAIN ActionsOf \ Stops, Leave("fatal")
  PROVE  Policy!Answer
<1>1. Policy!Verdict(asked, code) = "fatal"
  BY DEF PolicyInv, AskedInv, ErrorActionsTypeOK, Policy!Verdict, Policy!Active
<1> QED
  BY <1>1 DEF Leave, checkVars, Policy!Answer

(* A code without a list ends the process, whatever was asked: in the code *)
(* before any action has run, in the policy as the one step left.          *)
LEMMA ProcessEnds ==
  ASSUME PolicyInv, NoActions
  PROVE  PolicyInv' /\ Policy!Terminate
<1> USE DEF NoActions, checkVars
<1>1. ErrorActionsTypeOK'
  BY DEF PolicyInv, ErrorActionsTypeOK
<1>2. StatusInv' /\ AskedInv' /\ PlaceInv'
  BY DEF PolicyInv, StatusInv, AskedInv, PlaceInv
<1>3. Policy!Terminate
  BY DEF PolicyInv, ErrorActionsTypeOK, Policy!Terminate
<1> QED
  BY <1>1, <1>2, <1>3 DEF PolicyInv

(* doActions: the list of the code is begun anew and run up to what it     *)
(* throws, or to its end, which only the lists of codes to stop at have.   *)
LEMMA PolicyDoActions ==
  ASSUME ListsDecide, PolicyInv, DoActions
  PROVE  PolicyInv' /\ [Policy!Next]_(Policy!policyVars)
<1>1. /\ \A c \in DOMAIN ActionsOf : ActionsOf[c] \in Seq(Actions)
      /\ \A c \in DOMAIN ActionsOf : Len(ActionsOf[c]) \in Nat
      /\ \A c \in DOMAIN ActionsOf : DOMAIN ActionsOf[c] = 1..Len(ActionsOf[c])
      /\ \A c \in DOMAIN ActionsOf : Len(ActionsOf[c]) > 0
  BY ErrorActionsAssumption
<1>2. pc \in {"code", "act", "join"} /\ UNCHANGED checkVars
  BY DEF DoActions, GetActions, NoActions, DoNext, ListDone, Join, Leave
<1>3. StatusInv'
  BY <1>2 DEF PolicyInv, StatusInv, checkVars
<1>4. CASE GetActions
  <2>1. ErrorActionsTypeOK'
    BY <1>1, <1>4 DEF GetActions, Rewound, PolicyInv, ErrorActionsTypeOK, checkVars
  <2>2. AskedInv' /\ PlaceInv'
    BY <1>4 DEF GetActions, Rewound, PolicyInv, ErrorActionsTypeOK, AskedInv,
                PlaceInv, checkVars
  <2>3. UNCHANGED Policy!policyVars
    BY <1>4 DEF GetActions, checkVars, Policy!policyVars
  <2> QED
    BY <1>3, <2>1, <2>2, <2>3 DEF PolicyInv
<1>5. ASSUME Leave("fatal"), code \in DOMAIN ActionsOf \ Stops, DOMAIN iterator' = DOMAIN iterator,
             \A c \in DOMAIN ActionsOf : iterator'[c] \in 1..(Len(ActionsOf[c]) + 1)
      PROVE  PolicyInv' /\ [Policy!Next]_(Policy!policyVars)
  <2>1. ErrorActionsTypeOK'
    BY <1>5 DEF Leave, PolicyInv, ErrorActionsTypeOK, checkVars
  <2>2. AskedInv' /\ PlaceInv'
    BY <1>5 DEF Leave, AskedInv, PlaceInv
  <2> QED
    BY <1>2, <1>3, <1>5, <2>1, <2>2, FatalAnswer DEF PolicyInv, Policy!Next
<1>6. CASE NoActions
  BY <1>6, ProcessEnds DEF Policy!Next
<1>7. CASE DoNext
  <2> DEFINE n == iterator[code]
  <2>1. /\ code \in DOMAIN ActionsOf /\ n \in 1..Len(ActionsOf[code])
        /\ Action = ActionsOf[code][n] /\ Action \in Actions
    BY <1>1, <1>7 DEF DoNext, HasNext, Action, PolicyInv, ErrorActionsTypeOK
  <2>2. /\ DOMAIN iterator' = DOMAIN iterator /\ iterator'[code] = n + 1
        /\ \A c \in DOMAIN ActionsOf : iterator'[c] \in 1..(Len(ActionsOf[c]) + 1)
    BY <1>1, <1>7, <2>1 DEF DoNext, PolicyInv, ErrorActionsTypeOK
  <2>3. Thrown(Action) = "fatal" => code \notin Stops
    BY <1>1, <2>1 DEF ListsDecide
  <2>4. CASE Thrown(Action) = "fatal"
    BY <1>5, <1>7, <2>1, <2>2, <2>3, <2>4 DEF DoNext
  <2>5. CASE Thrown(Action) # "fatal"
    <3>1. Thrown(Action) = "nothing"
      <4>1. CASE code \in Stops
        BY <1>1, <2>1, <4>1 DEF ListsDecide
      <4>2. CASE code \notin Stops
        <5>1. PICK i \in DOMAIN ActionsOf[code] :
                /\ Thrown(ActionsOf[code][i]) = "fatal"
                /\ \A j \in 1..(i - 1) : Thrown(ActionsOf[code][j]) = "nothing"
          BY <2>1, <4>2 DEF ListsDecide
        <5>2. ~(i < n)
          BY <1>1, <1>7, <2>1, <4>2, <5>1 DEF DoNext, PolicyInv, PlaceInv
        <5>3. n < i
          BY <1>1, <2>1, <2>5, <5>1, <5>2
        <5> QED
          BY <1>1, <2>1, <5>1, <5>3
      <4> QED
        BY <4>1, <4>2
    <3>2. /\ pc = "act" /\ pc' = "act" /\ UNCHANGED <<checkVars, asked, code, outcome>>
      BY <1>7, <2>5, <3>1 DEF DoNext
    <3>3. ErrorActionsTypeOK'
      BY <2>1, <2>2, <3>2 DEF PolicyInv, ErrorActionsTypeOK, checkVars
    <3>4. PlaceInv'
      BY <2>1, <2>2, <3>1, <3>2 DEF PolicyInv, PlaceInv
    <3>5. AskedInv'
      BY <3>2 DEF PolicyInv, AskedInv, checkVars
    <3>6. UNCHANGED Policy!policyVars
      BY <3>2 DEF checkVars, Policy!policyVars
    <3> QED
      BY <1>3, <3>3, <3>4, <3>5, <3>6 DEF PolicyInv
  <2> QED
    BY <2>4, <2>5
<1>8. CASE ListDone
  <2>1. code \in Stops
    <3> SUFFICES ASSUME code \notin Stops PROVE FALSE
      OBVIOUS
    <3>1. /\ code \in DOMAIN ActionsOf
          /\ iterator[code] = Len(ActionsOf[code]) + 1
          /\ \A j \in 1..(iterator[code] - 1) : Thrown(ActionsOf[code][j]) = "nothing"
      BY <1>1, <1>8 DEF ListDone, HasNext, PolicyInv, ErrorActionsTypeOK, PlaceInv
    <3>2. \A j \in DOMAIN ActionsOf[code] : Thrown(ActionsOf[code][j]) = "nothing"
      BY <1>1, <3>1
    <3> QED
      BY <3>1, <3>2 DEF ListsDecide
  <2>2. ErrorActionsTypeOK'
    BY <1>8 DEF ListDone, PolicyInv, ErrorActionsTypeOK, checkVars
  <2>3. AskedInv' /\ PlaceInv' /\ UNCHANGED Policy!policyVars
    BY <1>8, <2>1 DEF ListDone, PolicyInv, AskedInv, PlaceInv, checkVars,
                      Policy!policyVars
  <2> QED
    BY <1>3, <2>2, <2>3 DEF PolicyInv
<1>9. CASE Join
  <2>1. /\ Leave("returned") /\ UNCHANGED iterator
        /\ code \in Stops /\ code \in DOMAIN ActionsOf
    BY <1>9 DEF Join, StopsAt, PolicyInv, PlaceInv, ErrorActionsTypeOK
  <2>2. ErrorActionsTypeOK'
    BY <2>1 DEF Leave, PolicyInv, ErrorActionsTypeOK, checkVars
  <2>3. AskedInv' /\ PlaceInv'
    BY <2>1 DEF Leave, AskedInv, PlaceInv
  <2>4. Policy!Verdict(asked, code) = "returned"
    BY <1>2, <2>1 DEF PolicyInv, AskedInv, Policy!Verdict, Policy!Active
  <2>5. Policy!Answer
    BY <1>2, <2>1, <2>4 DEF Leave, checkVars, Policy!Answer
  <2> QED
    BY <1>3, <2>2, <2>3, <2>5 DEF PolicyInv, Policy!Next
<1> QED
  BY <1>4, <1>6, <1>7, <1>8, <1>9 DEF DoActions

\* Every step keeps the invariant and is a step of the policy or none.
LEMMA PolicyStep ==
  ASSUME ListsDecide, PolicyInv, [Next]_vars
  PROVE  PolicyInv' /\ [Policy!Next]_(Policy!policyVars)
<1>1. CASE Next
  BY <1>1, PolicyConfigure, PolicyTrigger, PolicyDoActions DEF Next
<1>2. CASE UNCHANGED vars
  BY <1>2 DEF vars, checkVars, actionVars, PolicyInv, ErrorActionsTypeOK,
              StatusInv, AskedInv, PlaceInv, HasNext, Policy!policyVars
<1> QED
  BY <1>1, <1>2

(* The safety part of KeepsPolicy for all return codes, lists and          *)
(* settings, if the lists decide every trigger whose code has one: what a  *)
(* trigger answers is decided by the configured check points and by the    *)
(* code, whatever the triggers before it have remembered of a check point  *)
(* and wherever they have left a list; and the process ends with the first *)
(* active trigger whose code has none, and with no other.                  *)
THEOREM ImplementsPolicy ==
  ASSUME ListsDecide
  PROVE  Spec => Policy!Spec
<1>1. Init => PolicyInv /\ Policy!Init
  BY PolicyInit
<1>2. PolicyInv /\ [Next]_vars => PolicyInv' /\ [Policy!Next]_(Policy!policyVars)
  BY PolicyStep
<1> QED
  BY <1>1, <1>2, PTL DEF Spec, Policy!Spec

\* Each variable of the error matching has its type, and doActions is dead
\* only of a code without a list, never of one it was running the list of.
THEOREM ErrorTypeCorrect ==
  ASSUME ListsDecide
  PROVE  Spec => []ErrorActionsTypeOK
<1>1. Init => PolicyInv
  BY PolicyInit
<1>2. PolicyInv /\ [Next]_vars => PolicyInv'
  BY PolicyStep
<1>3. PolicyInv => ErrorActionsTypeOK
  BY DEF PolicyInv
<1> QED
  BY <1>1, <1>2, <1>3, PTL DEF Spec
=============================================================================
