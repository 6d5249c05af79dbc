------------------------------ MODULE LastChance ------------------------------
(***************************************************************************)
(* SQLRequestHandler::wrapper: the container of the request is taken from  *)
(* the cache (ContainerCache), then lastChanceRunner tries the sections of *)
(* the dataset one after the other: for each it looks for the plugin of    *)
(* the section's api and calls the plugin's function for the command,      *)
(* until one returns true.  Whatever such a function throws is swallowed.  *)
(* What a failed function has put into the response object stays there.    *)
(***************************************************************************)
EXTENDS ContainerCache, Sequences, FiniteSets

CONSTANTS
  Sections,  \* contents of a file -> the apis of its sections, in order
  Loaded,    \* apis that are names of loaded plugins
  Handling   \* those of them that handle the command

ASSUME LastChanceAssumption ==
  /\ \A v \in Versions : Sections[v] \in Seq(STRING) \ {<<>>}
  /\ Handling \subseteq Loaded /\ "sql" \notin Loaded

VARIABLES
  sec,     \* d_actual_section of the request's container, from 1
  tries,   \* section -> how often its function was called
  wrote,   \* sections whose function has put something into the response
  result   \* of the runner: "none", "true", "thrown"

runVars == <<sec, tries, wrote, result>>
vars == <<cacheVars, runVars>>

\* The numbers a section can have.
Numbers == UNION {DOMAIN Sections[v] : v \in Versions}
NotTried == [n \in Numbers |-> 0]

RunInit == sec = 1 /\ tries = NotTried /\ wrote = {} /\ result = "none"

Init == CacheInit /\ RunInit

Apis == Sections[c.ver]

\* end(): the cursor is past the last section.
AtEnd == sec > Len(Apis)

\* Mutant of KnownFrom: the section the cursor is on is passed over.
KnownAfter(n) == {i \in DOMAIN Apis : i > n /\ Apis[i] \in Loaded}

\* The sections find_sql_plugin() would stop at, from the cursor on.
KnownFrom(n) == {i \in DOMAIN Apis : i >= n /\ Apis[i] \in Loaded}

\* The one of them it does stop at.
Found(n) == n \in KnownFrom(sec) /\ \A i \in KnownFrom(sec) : n <= i

Running == pc = "use" /\ result = "none"

\* Mutant of AfterTry: the cursor is not moved when the function has failed.
StayAtFailed(n, answer) == IF answer THEN n + 1 ELSE n

\* Mutant of AfterTry: the cursor is moved by the loop and once more by the
\* search.
MovedTwice(n, answer) == n + 2

\* The cursor is moved whatever the function did.
AfterTry(n, answer) == n + 1

\* Bounds the calls that are counted: 1, then 2 and 1 in turn, so that a call
\* of one too many is seen and is a step.
Called(count) == IF count = 1 THEN 2 ELSE 1

(* One turn of the loop in which the section's plugin has a function for   *)
(* the command, which returns true, or returns false or throws, before or  *)
(* after it has put something into the response.                           *)
Try ==
  /\ Running /\ ~AtEnd
  /\ \E n \in DOMAIN Apis, answer \in BOOLEAN, writes \in BOOLEAN :
       /\ Found(n) /\ Apis[n] \in Handling
       /\ tries' = [tries EXCEPT ![n] = Called(@)]
       /\ answer => writes
       /\ wrote' = IF writes THEN wrote \cup {n} ELSE wrote
       /\ result' = IF answer THEN "true" ELSE "none"
       /\ sec' = AfterTry(n, answer)
  /\ UNCHANGED cacheVars

\* The plugin has no function for the command.
NoFunction ==
  /\ Running /\ ~AtEnd
  /\ \E n \in DOMAIN Apis : /\ Found(n) /\ Apis[n] \notin Handling
                            /\ sec' = n + 1
  /\ UNCHANGED <<cacheVars, tries, wrote, result>>

\* The sections end, or none that is left has a plugin: the runner throws.
GiveUp ==
  /\ Running /\ (AtEnd \/ KnownFrom(sec) = {})
  /\ sec' = Len(Apis) + 1
  /\ result' = "thrown"
  /\ UNCHANGED <<cacheVars, tries, wrote>>

(* The wrapper returns or throws on, and its container is deleted.         *)
Leave ==
  /\ pc = "use" /\ result # "none"
  /\ Release
  /\ sec' = 1 /\ tries' = NotTried /\ wrote' = {} /\ result' = "none"

RunStep == Try \/ NoFunction \/ GiveUp \/ Leave

RunNext ==
  \/ (World \/ NextRequest \/ CacheStep \/ Failed) /\ UNCHANGED runVars
  \/ RunStep

Spec == Init /\ [][RunNext]_vars

FairSpec == Spec /\ WF_vars((CacheStep \/ Failed) /\ UNCHANGED runVars) /\ WF_vars(RunStep)

-----------------------------------------------------------------------------
(* Every variable has its type: those of the cache and those of the run.   *)
RunTypeOK ==
  /\ CacheTypeOK
  /\ sec \in {1} \cup {n + 1 : n \in Numbers}
  /\ tries \in [Numbers -> 0..2] /\ wrote \subseteq Numbers
  /\ result \in {"none", "true", "thrown"}

(* A request fails only when every section whose plugin handles the        *)
(* command has been tried ("This is done until: (OR) server list ends (OR) *)
(* called handler returns true", SQLRequestHandler.h:172-174): the runner  *)
(* and find_sql_plugin, which both move the same cursor, pass over none,   *)
(* stand on none again, and none is tried after one that answered.         *)
EachTriedOnce ==
  /\ result = "thrown" =>
       \A n \in DOMAIN Apis : Apis[n] \in Handling => tries[n] # 0
  /\ \A n \in Numbers : tries[n] <= 1
  /\ \A n \in Numbers : tries[n] # 0 => n < sec

\* The invariant that makes both inductive: the cursor has passed a section only
\* when its function was called, and a request starts with a new container.
RunInv ==
  /\ tries \in [Numbers -> 0..1]
  /\ wrote \subseteq Numbers /\ result \in {"none", "true", "thrown"}
  /\ pc # "use" => sec = 1 /\ tries = NotTried /\ result = "none"
  /\ pc = "use" => /\ sec \in 1..(Len(Apis) + 1)
                   /\ \A n \in DOMAIN Apis :
                        n < sec /\ Apis[n] \in Handling => tries[n] # 0
  /\ result = "thrown" => AtEnd
  /\ \A n \in Numbers : tries[n] # 0 => n < sec

(* Every request that got its container is answered or refused, whatever   *)
(* the functions throw.                                                    *)
Answered == pc = "use" ~> pc = "idle"

(* "true if response object is correctly built" (SQLRequestHandler.h:177): *)
(* the response holds nothing of a section that failed before the one that *)
(* answered.                                                               *)
OneSource == result = "true" => Cardinality(wrote) = 1
=============================================================================
