---------------------------- MODULE ContainerCache ----------------------------
(***************************************************************************)
(* The cache of parsed dataset files: SQLContainerFactory::getContainer,   *)
(* SQLContainerStorageVolatile and SQLContainer.  A request asks for the   *)
(* container of a file.  The storage hands out a copy of the one it keeps; *)
(* a copy is ready if the original was and the file's modification time is *)
(* still close to the one kept.  A copy that is not ready is read again,   *)
(* in two steps: the contents, then the modification time.  The server     *)
(* handles one request at a time; other processes edit the files and the   *)
(* clock runs meanwhile.  Some contents the parser refuses with an error   *)
(* buildContainer is not declared to throw: the process ends.              *)
(***************************************************************************)
EXTENDS Integers

CONSTANTS
  Files,       \* names of dataset files
  MaxVersion,  \* bounds the contents a file takes
  MaxTime,     \* bounds the clock, in the units of TimeDif
  TimeDif,     \* _SQLH_CONT_TIME_DIF
  Malformed,   \* contents the parser refuses
  Undeclared,  \* those of them it refuses with a BESError that is no
               \* BESInternalError
  EditsInRead, \* a file may be edited between the reading of its contents
               \* and of its modification time
  Direct       \* the server may have looked the container up in the SQL
               \* storage itself

ASSUME CacheAssumption ==
  /\ MaxVersion \in Nat \ {0} /\ MaxTime \in Nat /\ TimeDif \in Nat \ {0}
  /\ Malformed \subseteq 1..MaxVersion /\ Undeclared \subseteq Malformed
  /\ EditsInRead \in BOOLEAN /\ Direct \in BOOLEAN

VARIABLES
  now,     \* the clock
  file,    \* file -> [there, ver, mtime]
  written, \* file -> the modification time each of its contents was given
  store,   \* file -> the container kept, or None; "raced" if the file was
           \* edited or removed between the two halves of its setup(), which
           \* no step looks at
  pc,      \* where getContainer is; "dead" when std::unexpected() has ended
           \* the process
  name,    \* the file of the request
  c,       \* the request's container
  shared,  \* c is the very object the server holds
  server   \* the server's own container: "none", "held", "freed"

fileVars == <<now, file, written>>
cacheVars == <<now, file, written, store, pc, name, c, shared, server>>

Versions == 1..MaxVersion
None == [ver |-> 0, time |-> 0, ready |-> FALSE, raced |-> FALSE]

Distance(a, b) == IF a < b THEN b - a ELSE a - b

CacheInit ==
  /\ now = 0
  /\ file = [f \in Files |-> [there |-> TRUE, ver |-> 1, mtime |-> 0]]
  /\ written = [f \in Files |-> [v \in Versions |-> 0]]
  /\ store = [f \in Files |-> None]
  /\ pc = "idle" /\ name \in Files /\ c = None
  /\ shared = FALSE /\ server = "none"

-----------------------------------------------------------------------------
(* The world outside: time passes, files are edited, restored and removed. *)

Tick == now < MaxTime /\ now' = now + 1 /\ UNCHANGED <<file, written>>

\* New contents with a modification time that need not be the clock's: a
\* file put back from an archive keeps its own.
Edit(f) ==
  /\ file[f].ver < MaxVersion
  /\ \E t \in 0..now :
       /\ file' = [file EXCEPT ![f] = [there |-> TRUE, ver |-> @.ver + 1,
                                       mtime |-> t]]
       /\ written' = [written EXCEPT ![f][file[f].ver + 1] = t]
  /\ UNCHANGED now

RemoveFile(f) ==
  /\ file[f].there
  /\ file' = [file EXCEPT ![f].there = FALSE]
  /\ UNCHANGED <<now, written>>

World ==
  /\ pc = "idle" \/ EditsInRead
  /\ \/ Tick /\ UNCHANGED c
     \/ \E f \in Files : /\ Edit(f) \/ RemoveFile(f)
                        /\ c' = [c EXCEPT !.raced = @ \/ (pc = "stat" /\ f = name)]
  /\ UNCHANGED <<store, pc, name, shared, server>>
-----------------------------------------------------------------------------
\* Mutant of UpToDate: the difference is not taken as an absolute value.
NotNewer(time, f) == f.there /\ f.mtime - time < TimeDif

\* isUpToDate, for a container stamped time.
UpToDate(time, f) == f.there /\ Distance(time, f.mtime) < TimeDif

\* The copy constructors of SQLContainer and SQLTextContainer.
Copy(k, f) == [k EXCEPT !.ready = k.ready /\ UpToDate(k.time, f)]

(* look_for: a copy of the container kept under the file's name, or that    *)
(* container itself if the server has looked it up.                        *)
LookFor(f) ==
  /\ store[f] # None
  /\ c' = Copy(store[f], file[f])
  /\ pc' = IF c'.ready THEN "use" ELSE "read"
  /\ \/ shared' = FALSE /\ server' = "none"
     \/ Direct /\ shared' = TRUE /\ server' = "held"

(* buildContainer: a new container, whose constructor calls setup().       *)
BuildContainer(f) ==
  /\ store[f] = None
  /\ c' = None /\ pc' = "read"
  /\ shared' = FALSE /\ server' = "none"

Request(f) ==
  /\ pc = "idle"
  /\ name' = f
  /\ LookFor(f) \/ BuildContainer(f)
  /\ UNCHANGED <<fileVars, store>>

\* Mutant of Read: what the parser says of the contents is not heeded.
ReadAnything ==
  /\ pc = "read" /\ file[name].there
  /\ c' = [c EXCEPT !.ver = file[name].ver, !.raced = FALSE]
  /\ pc' = "stat"
  /\ UNCHANGED <<fileVars, store, name, shared, server>>

(* setup: clear, then the first half, read().                              *)
Read ==
  /\ pc = "read" /\ file[name].there /\ file[name].ver \notin Malformed
  /\ c' = [c EXCEPT !.ver = file[name].ver, !.raced = FALSE]
  /\ pc' = "stat"
  /\ UNCHANGED <<fileVars, store, name, shared, server>>

\* The error read() throws is not one buildContainer is declared to throw; a
\* container that is kept is not read again under such a declaration.
Unexpected ==
  /\ file[name].there /\ file[name].ver \in Undeclared
  /\ store[name] = None

\* read() throws: no such file, or the parser refuses it.  What was kept of
\* the file stays, out of date.
ReadFails ==
  /\ pc = "read" /\ (~file[name].there \/ file[name].ver \in Malformed)
  /\ ~Unexpected
  /\ pc' = "failed"
  /\ UNCHANGED <<fileVars, store, name, c, shared, server>>

(* The same out of buildContainer: the process terminates, and no request  *)
(* follows.                                                                *)
ReadTerminates ==
  /\ pc = "read" /\ Unexpected
  /\ pc' = "dead"
  /\ UNCHANGED <<fileVars, store, name, c, shared, server>>

\* Mutant of Stamp: the container is stamped with the clock.
StampNow(f) == now

\* The modification time init() keeps.
Stamp(f) == IF f.there THEN f.mtime ELSE now

(* setup: the second half, init() and reset().                             *)
Stat ==
  /\ pc = "stat"
  /\ c' = [c EXCEPT !.time = Stamp(file[name]), !.ready = TRUE]
  /\ pc' = "keep"
  /\ UNCHANGED <<fileVars, store, name, shared, server>>

(* add_container, or del_container and add_container, of a copy.           *)
Keep ==
  /\ pc = "keep"
  /\ store' = [store EXCEPT ![name] = Copy(c, file[name])]
  /\ pc' = "use"
  /\ UNCHANGED <<fileVars, name, c, shared, server>>

(* ~SQLDataHandlerInterface deletes the container it was given.            *)
Release ==
  /\ pc' = "idle"
  /\ server' = IF shared THEN "freed" ELSE server
  /\ c' = None /\ shared' = FALSE
  /\ UNCHANGED <<fileVars, store, name>>

Failed == pc = "failed" /\ pc' = "idle" /\ shared' = FALSE /\ c' = None
            /\ UNCHANGED <<fileVars, store, name, server>>

CacheStep == Read \/ ReadFails \/ ReadTerminates \/ Stat \/ Keep

NextRequest == \E f \in Files : Request(f)

Next == World \/ NextRequest \/ CacheStep \/ Failed \/ (pc = "use" /\ Release)

CacheSpec == CacheInit /\ [][Next]_cacheVars

-----------------------------------------------------------------------------
Containers ==
  [ver : 0..MaxVersion, time : 0..MaxTime, ready : BOOLEAN, raced : BOOLEAN]

(* Every variable has its type; only contents the parser took are kept or  *)
(* handed out, also after a setup() that threw half way.                   *)
CacheTypeOK ==
  /\ now \in 0..MaxTime
  /\ \A f \in Files : /\ file[f] \in [there : BOOLEAN, ver : Versions, mtime : 0..now]
                      /\ store[f] \in Containers
                      /\ store[f].ver \notin Malformed
  /\ pc \in {"idle", "read", "stat", "keep", "use", "failed", "dead"}
  /\ name \in Files /\ c \in Containers
  /\ pc = "use" => c.ready /\ c.ver \in Versions \ Malformed
  /\ shared \in BOOLEAN /\ server \in {"none", "held", "freed"}

\* A container of f that is ready was read from contents the file has had, and
\* stamped with the time they were given unless the file changed meanwhile.
Stamped(k, f) ==
  /\ k.ver <= file[f].ver
  /\ k.ready => k.ver \in Versions
  /\ k.ready /\ ~k.raced => k.time = written[f][k.ver]

\* The invariant that makes CacheTypeOK and FreshOnHandOut inductive.
CacheInv ==
  /\ CacheTypeOK
  /\ file \in [Files -> [there : BOOLEAN, ver : Versions, mtime : 0..MaxTime]]
  /\ written \in [Files -> [Versions -> 0..MaxTime]]
  /\ store \in [Files -> Containers]
  /\ \A f \in Files : /\ file[f].mtime = written[f][file[f].ver]
                      /\ Stamped(store[f], f)
  /\ pc # "idle" => Stamped(c, name)
  /\ pc \in {"read", "stat"} => ~c.ready
  /\ pc \in {"stat", "keep", "use"} => c.ver \in Versions \ Malformed
  /\ pc = "stat" /\ ~c.raced => file[name].there /\ c.ver = file[name].ver
  /\ pc = "keep" => c.ready

HandedOut == pc # "use" /\ pc' = "use"

\* Contents the cache had that were written within TimeDif of the file's
\* modification time at that moment, before or after.
Recent ==
  pc = "idle" /\ file[name'].there
    /\ Distance(written[name'][c'.ver], file[name'].mtime) < TimeDif

\* Contents just read, with the modification time that was theirs.
JustRead == pc = "keep" /\ c'.time = written[name'][c'.ver]

(* However often the file is edited, put back from an archive or removed,  *)
(* also while it is read, a request gets contents that are recent or just  *)
(* read, an older container being read again ("rebuild mechanisms of the   *)
(* SQLContainers before returning", SQLContainerStorage.h:80).  The one    *)
(* exception are contents the file was edited or removed behind, before    *)
(* its modification time was taken: they stay in the cache until the file  *)
(* is edited again.                                                        *)
FreshOnHandOut == [][HandedOut => c'.raced \/ Recent \/ JustRead]_cacheVars

(* A file that stays as it is, is not parsed again by every request.       *)
SettlesOn(f) ==
  \/ <>[](~file[f].there \/ file[f].ver \in Malformed)
  \/ <>[](~(name = f /\ pc = "stat"))
CacheSettles == \A f \in Files : SettlesOn(f)

(* "true if SQLContainer has same timestamp of the file modification time" *)
(* (SQLContainer.h:325).                                                   *)
SameTimestamp ==
  [][pc = "idle" /\ pc' = "use" => c'.time = file[name'].mtime]_cacheVars

(* look_for returns "an updated SQLContainer pointer"                      *)
(* (SQLContainerStorage.h:85), not one that took the modification time of  *)
(* an edit for the contents of before it.                                  *)
StampOfContents == pc = "use" => c.time = written[name][c.ver]

(* buildContainer "throws a BESInternalError if container setup fails"     *)
(* (SQLContainerFactory.h:140), and does not end the process.              *)
SetupFailureIsThrown == pc # "dead"

(* getContainer returns "an copy of the SQLContainer"                      *)
(* (SQLContainerFactory.h:133), which the caller may delete.               *)
ServerKeepsContainer == server # "freed"
=============================================================================
