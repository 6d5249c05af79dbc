--------------------------- MODULE LastChanceProofs ---------------------------
(***************************************************************************)
(* The cache of parsed files and the runner over their sections, for any   *)
(* files, times, contents and plugins.  CacheInv holds together what three *)
(* owners keep of one file: the file its modification time, the storage a  *)
(* container with the time it was stamped with, the request a copy of it.  *)
(* A container is only ever stamped with a time its contents were given,   *)
(* because contents that changed before the stamp are those of a raced one *)
(* and a file's earlier contents do not come back under their number.      *)
(* RunInv says the same of the cursor lastChanceRunner shares with         *)
(* find_sql_plugin: what it has passed was tried, what it has not was not. *)
(***************************************************************************)
EXTENDS LastChance, TLAPS

\* Times and what isUpToDate makes of them.
LEMMA StampType ==
  ASSUME CacheInv, NEW f \in Files
  PROVE  /\ now \in 0..MaxTime /\ MaxTime \in Nat
         /\ file[f] \in [there : BOOLEAN, ver : Versions, mtime : 0..MaxTime]
         /\ store[f] \in Containers
         /\ Stamp(file[f]) \in 0..MaxTime
         /\ Versions \subseteq 0..MaxVersion
  BY CacheAssumption DEF CacheInv, CacheTypeOK, Stamp, Versions

\* A copy is the container, or the container no longer ready.
LEMMA CopyFacts ==
  ASSUME NEW k \in Containers, NEW g
  PROVE  /\ Copy(k, g) \in Containers
         /\ Copy(k, g).ver = k.ver /\ Copy(k, g).time = k.time
         /\ Copy(k, g).raced = k.raced
         /\ Copy(k, g).ready <=> k.ready /\ UpToDate(k.time, g)
<1>1. UpToDate(k.time, g) \in BOOLEAN /\ k.ready \in BOOLEAN
  BY DEF UpToDate, Containers
<1>2. Copy(k, g) = [k EXCEPT !.ready = k.ready /\ UpToDate(k.time, g)]
  BY DEF Copy
<1>3. (k.ready /\ UpToDate(k.time, g)) \in BOOLEAN
  BY <1>1
<1> QED
  BY <1>2, <1>3 DEF Containers

\* So what holds of the stamp of a container holds of its copies.
LEMMA CopyStamped ==
  ASSUME NEW k \in Containers, NEW g, NEW f, Stamped(k, f)
  PROVE  Stamped(Copy(k, g), f)
  BY CopyFacts DEF Stamped

\* The empty container.
LEMMA NoneFacts ==
  /\ None \in Containers /\ None.ver = 0 /\ ~None.ready /\ ~None.raced
  /\ None.ver \notin Malformed
  BY CacheAssumption DEF None, Containers

\* The initial states.
LEMMA CacheInvInit == CacheInit => CacheInv
<1> SUFFICES ASSUME CacheInit PROVE CacheInv
  OBVIOUS
<1>1. /\ 0 \in 0..MaxTime /\ 1 \in Versions /\ now = 0 /\ 0 \in 0..now
  BY CacheAssumption DEF Versions, CacheInit
<1>2. \A f \in Files : /\ file[f] = [there |-> TRUE, ver |-> 1, mtime |-> 0]
                       /\ store[f] = None
                       /\ written[f] = [v \in Versions |-> 0]
  BY DEF CacheInit
<1>3. \A f \in Files : Stamped(store[f], f)
  <2> TAKE f \in Files
  <2>1. file[f].ver = 1 /\ store[f] = None
    BY <1>2
  <2>2. None.ver <= file[f].ver
    BY <2>1, NoneFacts
  <2> QED
    BY <2>1, <2>2, NoneFacts DEF Stamped
<1>4. CacheTypeOK
  BY <1>1, <1>2, NoneFacts DEF CacheInit, CacheTypeOK
<1> QED
  BY <1>1, <1>2, <1>3, <1>4, NoneFacts DEF CacheInit, CacheInv
-----------------------------------------------------------------------------
(* The world: time passes and files change under the cache.                *)

\* New contents get a number of their own, so that the times of the earlier ones
\* stay.
LEMMA EditFacts ==
  ASSUME CacheInv, NEW f \in Files, Edit(f)
  PROVE  /\ now' = now
         /\ file' \in [Files -> [there : BOOLEAN, ver : Versions, mtime : 0..now]]
         /\ written' \in [Files -> [Versions -> 0..MaxTime]]
         /\ \A g \in Files \ {f} : file'[g] = file[g] /\ written'[g] = written[g]
         /\ file'[f].ver = file[f].ver + 1
         /\ file'[f].mtime = written'[f][file'[f].ver]
         /\ \A v \in Versions :
              v <= file[f].ver => written'[f][v] = written[f][v]
<1>1. PICK t \in 0..now :
        /\ file' = [file EXCEPT ![f] = [there |-> TRUE, ver |-> file[f].ver + 1,
                                        mtime |-> t]]
        /\ written' = [written EXCEPT ![f] =
                         [written[f] EXCEPT ![file[f].ver + 1] = t]]
  BY DEF Edit
<1>2. /\ now \in 0..MaxTime /\ MaxTime \in Nat
      /\ file \in [Files -> [there : BOOLEAN, ver : Versions, mtime : 0..MaxTime]]
      /\ written \in [Files -> [Versions -> 0..MaxTime]]
      /\ \A g \in Files :
           file[g] \in [there : BOOLEAN, ver : Versions, mtime : 0..now]
  BY CacheAssumption DEF CacheInv, CacheTypeOK
<1>3. file[f].ver \in Nat /\ file[f].ver + 1 \in Versions /\ t \in 0..MaxTime
  BY <1>1, <1>2, CacheAssumption DEF Edit, Versions
<1>4. /\ file'[f] = [there |-> TRUE, ver |-> file[f].ver + 1, mtime |-> t]
      /\ \A g \in Files \ {f} : file'[g] = file[g]
      /\ DOMAIN file' = Files
      /\ file' = [g \in Files |-> file'[g]]
  BY <1>1, <1>2
<1>5. /\ written'[f] = [written[f] EXCEPT ![file[f].ver + 1] = t]
      /\ \A g \in Files \ {f} : written'[g] = written[g]
      /\ written' = [g \in Files |-> written'[g]]
  BY <1>1, <1>2
<1>6. /\ written'[f] \in [Versions -> 0..MaxTime]
      /\ written'[f][file[f].ver + 1] = t
      /\ \A v \in Versions : v # file[f].ver + 1 => written'[f][v] = written[f][v]
  BY <1>2, <1>3, <1>5
<1>7. [there |-> TRUE, ver |-> file[f].ver + 1, mtime |-> t]
        \in [there : BOOLEAN, ver : Versions, mtime : 0..now]
  BY <1>1, <1>3
<1>8. \A g \in Files : file'[g] \in [there : BOOLEAN, ver : Versions, mtime : 0..now]
  BY <1>2, <1>4, <1>7
<1>9. \A g \in Files : written'[g] \in [Versions -> 0..MaxTime]
  BY <1>2, <1>5, <1>6
<1>10. file' \in [Files -> [there : BOOLEAN, ver : Versions, mtime : 0..now]]
  BY <1>4, <1>8
<1>11. written' \in [Files -> [Versions -> 0..MaxTime]]
  BY <1>5, <1>9
<1>12. file'[f].ver = file[f].ver + 1 /\ file'[f].mtime = t
  BY <1>4
<1>13. \A v \in Versions : v <= file[f].ver => written'[f][v] = written[f][v]
  BY <1>3, <1>6, CacheAssumption DEF Versions
<1> QED
  BY <1>4, <1>5, <1>6, <1>10, <1>11, <1>12, <1>13 DEF Edit

\* A file that is removed keeps its number and its time.
LEMMA RemoveFacts ==
  ASSUME CacheInv, NEW f \in Files, RemoveFile(f)
  PROVE  /\ UNCHANGED <<now, written>>
         /\ file' \in [Files -> [there : BOOLEAN, ver : Versions, mtime : 0..now]]
         /\ \A g \in Files \ {f} : file'[g] = file[g]
         /\ \A g \in Files : file'[g].ver = file[g].ver
                             /\ file'[g].mtime = file[g].mtime
<1>1. file' = [file EXCEPT ![f].there = FALSE]
  BY DEF RemoveFile
<1>2. /\ file \in [Files -> [there : BOOLEAN, ver : Versions, mtime : 0..MaxTime]]
      /\ \A g \in Files :
           file[g] \in [there : BOOLEAN, ver : Versions, mtime : 0..now]
  BY DEF CacheInv, CacheTypeOK
<1>3. /\ file'[f] = [file[f] EXCEPT !.there = FALSE]
      /\ \A g \in Files \ {f} : file'[g] = file[g]
      /\ file' = [g \in Files |-> file'[g]]
  BY <1>1, <1>2
<1>4. /\ file'[f] \in [there : BOOLEAN, ver : Versions, mtime : 0..now]
      /\ file'[f].ver = file[f].ver /\ file'[f].mtime = file[f].mtime
  BY <1>2, <1>3
<1>5. \A g \in Files : file'[g] \in [there : BOOLEAN, ver : Versions, mtime : 0..now]
  BY <1>2, <1>3, <1>4
<1> QED
  BY <1>3, <1>4, <1>5 DEF RemoveFile

\* Whatever the world does, a container keeps the stamp of its contents.
LEMMA StampedStays ==
  ASSUME CacheInv, NEW g \in Files, NEW k \in Containers, Stamped(k, g),
         \/ UNCHANGED <<file, written>>
         \/ \E f \in Files : Edit(f) \/ RemoveFile(f)
  PROVE  /\ Stamped(k, g)'
         /\ file'[g].ver >= file[g].ver
<1>1. /\ file[g].ver \in Nat /\ k.ver \in Nat
      /\ file[g] \in [there : BOOLEAN, ver : Versions, mtime : 0..MaxTime]
  BY CacheAssumption DEF CacheInv, Containers, Versions
<1>2. CASE UNCHANGED <<file, written>>
  BY <1>1, <1>2 DEF Stamped
<1>3. ASSUME NEW f \in Files, RemoveFile(f)
      PROVE  Stamped(k, g)' /\ file'[g].ver >= file[g].ver
  <2>1. file'[g].ver = file[g].ver /\ written' = written
    BY <1>3, RemoveFacts
  <2> QED
    BY <1>1, <2>1 DEF Stamped
<1>4. ASSUME NEW f \in Files, Edit(f)
      PROVE  Stamped(k, g)' /\ file'[g].ver >= file[g].ver
  <2>1. CASE g # f
    <3>1. file'[g] = file[g] /\ written'[g] = written[g]
      BY <1>4, <2>1, EditFacts
    <3> QED
      BY <1>1, <3>1 DEF Stamped
  <2>2. CASE g = f
    <3>1. /\ file'[g].ver = file[g].ver + 1
          /\ \A v \in Versions :
               v <= file[g].ver => written'[g][v] = written[g][v]
      BY <1>4, <2>2, EditFacts
    <3> QED
      BY <1>1, <3>1 DEF Stamped
  <2> QED
    BY <2>1, <2>2
<1> QED
  BY <1>2, <1>3, <1>4

\* The types of the files after a step of the world.
LEMMA FilesAfter ==
  ASSUME CacheInv, Tick \/ \E f \in Files : Edit(f) \/ RemoveFile(f)
  PROVE  /\ now' \in 0..MaxTime
         /\ file' \in [Files -> [there : BOOLEAN, ver : Versions, mtime : 0..MaxTime]]
         /\ \A g \in Files :
              /\ file'[g] \in [there : BOOLEAN, ver : Versions, mtime : 0..now']
              /\ file'[g].mtime = written'[g][file'[g].ver]
         /\ written' \in [Files -> [Versions -> 0..MaxTime]]
<1>1. /\ now \in 0..MaxTime /\ MaxTime \in Nat
      /\ file \in [Files -> [there : BOOLEAN, ver : Versions, mtime : 0..MaxTime]]
      /\ written \in [Files -> [Versions -> 0..MaxTime]]
      /\ \A g \in Files :
           /\ file[g] \in [there : BOOLEAN, ver : Versions, mtime : 0..now]
           /\ file[g].mtime = written[g][file[g].ver]
  BY CacheAssumption DEF CacheInv, CacheTypeOK
<1>2. CASE Tick
  <2>1. now' \in 0..MaxTime /\ 0..now \subseteq 0..now'
    BY <1>1, <1>2 DEF Tick
  <2>2. \A g \in Files : file'[g] \in [there : BOOLEAN, ver : Versions, mtime : 0..now']
    BY <1>1, <1>2, <2>1 DEF Tick
  <2> QED
    BY <1>1, <1>2, <2>1, <2>2 DEF Tick
<1>3. 0..now \subseteq 0..MaxTime
  BY <1>1
<1>4. ASSUME file' \in [Files -> [there : BOOLEAN, ver : Versions, mtime : 0..now]]
      PROVE  file' \in [Files -> [there : BOOLEAN, ver : Versions, mtime : 0..MaxTime]]
  BY <1>3, <1>4
<1>5. ASSUME NEW f \in Files, RemoveFile(f)
      PROVE  /\ now' = now /\ written' = written
             /\ file' \in [Files -> [there : BOOLEAN, ver : Versions, mtime : 0..now]]
             /\ \A g \in Files : file'[g].mtime = written'[g][file'[g].ver]
  BY <1>1, <1>5, RemoveFacts
<1>6. ASSUME NEW f \in Files, Edit(f)
      PROVE  /\ now' = now
             /\ written' \in [Files -> [Versions -> 0..MaxTime]]
             /\ file' \in [Files -> [there : BOOLEAN, ver : Versions, mtime : 0..now]]
             /\ \A g \in Files : file'[g].mtime = written'[g][file'[g].ver]
  BY <1>1, <1>6, EditFacts
<1> QED
  BY <1>1, <1>2, <1>4, <1>5, <1>6

\* The request's container is only told that its file has changed.
LEMMA RacedFacts ==
  ASSUME CacheInv, NEW f \in Files,
         c' = [c EXCEPT !.raced = @ \/ (pc = "stat" /\ f = name)]
  PROVE  /\ c' \in Containers /\ c'.ver = c.ver /\ c'.time = c.time
         /\ c'.ready <=> c.ready
         /\ c'.raced <=> c.raced \/ (pc = "stat" /\ f = name)
<1>1. c \in Containers
  BY DEF CacheInv, CacheTypeOK
<1>2. (c.raced \/ (pc = "stat" /\ f = name)) \in BOOLEAN
  BY <1>1 DEF Containers
<1> QED
  BY <1>1, <1>2 DEF Containers

\* A step of the world: what is kept is older than the new contents.
LEMMA CacheInvWorld ==
  ASSUME CacheInv, World
  PROVE  CacheInv'
<1>1. /\ UNCHANGED <<store, pc, name, shared, server>>
      /\ Tick \/ \E f \in Files : Edit(f) \/ RemoveFile(f)
      /\ \/ UNCHANGED <<file, written>>
         \/ \E f \in Files : Edit(f) \/ RemoveFile(f)
  BY DEF World, Tick
<1>2. /\ c \in Containers /\ name \in Files /\ CacheTypeOK
      /\ store \in [Files -> Containers]
  BY DEF CacheInv, CacheTypeOK
<1>3. /\ c' \in Containers /\ c'.ver = c.ver /\ c'.time = c.time
      /\ c'.ready <=> c.ready
      /\ c.raced => c'.raced
  BY <1>2, RacedFacts DEF World
<1>4. pc = "stat" /\ ~c'.raced =>
        file'[name].there /\ c'.ver = file'[name].ver /\ ~c.raced
  <2> SUFFICES ASSUME pc = "stat", ~c'.raced
               PROVE  file'[name].there /\ c'.ver = file'[name].ver /\ ~c.raced
    OBVIOUS
  <2>1. ~c.raced /\ file[name].there /\ c.ver = file[name].ver
    BY <1>3 DEF CacheInv
  <2>2. file'[name] = file[name]
    <3>1. CASE Tick
      BY <3>1 DEF Tick
    <3>2. ASSUME NEW f \in Files, Edit(f) \/ RemoveFile(f),
                 c' = [c EXCEPT !.raced = @ \/ (pc = "stat" /\ f = name)]
          PROVE  file'[name] = file[name]
      <4>1. f # name
        BY <3>2, RacedFacts
      <4> QED
        BY <1>2, <3>2, <4>1, EditFacts, RemoveFacts
    <3> QED
      BY <3>1, <3>2 DEF World
  <2> QED
    BY <1>3, <2>1, <2>2
<1>5. \A g \in Files : Stamped(store[g], g)'
  <2> SUFFICES ASSUME NEW g \in Files PROVE Stamped(store[g], g)'
    OBVIOUS
  <2>1. PICK k \in Containers : k = store[g] /\ Stamped(k, g)
    BY <1>2 DEF CacheInv
  <2>2. Stamped(k, g)'
    BY <1>1, <2>1, StampedStays
  <2>3. store'[g] = k
    BY <1>1, <2>1
  <2> QED
    BY <2>2, <2>3 DEF Stamped
<1>6. pc # "idle" => Stamped(c, name)'
  <2> SUFFICES ASSUME pc # "idle" PROVE Stamped(c, name)'
    OBVIOUS
  <2>1. PICK k \in Containers : k = c /\ Stamped(k, name)
    BY <1>2 DEF CacheInv
  <2>2. PICK g \in Files : g = name /\ Stamped(k, g)
    BY <1>2, <2>1
  <2>3. Stamped(k, g)'
    BY <1>1, <2>2, StampedStays
  <2>4. /\ c'.ver = k.ver /\ c'.time = k.time /\ (c'.ready => k.ready)
        /\ k.raced => c'.raced
    BY <1>3, <2>1
  <2>5. name' = g
    BY <1>1, <2>2
  <2> QED
    BY <2>3, <2>4, <2>5 DEF Stamped
<1>7. CacheTypeOK'
  <2>1. \A g \in Files : store'[g] \in Containers /\ store'[g].ver \notin Malformed
    BY <1>1, <1>2 DEF CacheTypeOK
  <2> QED
    BY <1>1, <1>2, <1>3, <2>1, FilesAfter DEF CacheTypeOK
<1> QED
  BY <1>1, <1>2, <1>3, <1>4, <1>5, <1>6, <1>7, FilesAfter DEF CacheInv

-----------------------------------------------------------------------------
(* The steps of the request: the files stay.                               *)

LEMMA CacheInvRequest ==
  ASSUME CacheInv, NEW f \in Files, Request(f)
  PROVE  CacheInv'
<1>0. UNCHANGED <<now, file, written, store>> /\ name' = f /\ pc = "idle"
  BY DEF Request, fileVars
<1>1. /\ UNCHANGED <<now, file, written, store>> /\ name' = f /\ pc = "idle"
      /\ store[f] \in Containers /\ Stamped(store[f], f) /\ CacheTypeOK
      /\ store[f].ver \notin Malformed /\ file[f].ver \in Nat
  <2>1. /\ store[f] \in Containers
        /\ file[f] \in [there : BOOLEAN, ver : Versions, mtime : 0..MaxTime]
    BY StampType
  <2>2. file[f].ver \in Nat
    BY <2>1, CacheAssumption DEF Versions
  <2>3. Stamped(store[f], f) /\ CacheTypeOK /\ store[f].ver \notin Malformed
    BY DEF CacheInv, CacheTypeOK
  <2> QED
    BY <1>0, <2>1, <2>2, <2>3
<1>2. CASE LookFor(f)
  <2>1. /\ c' = Copy(store[f], file[f]) /\ pc' \in {"use", "read"}
        /\ pc' = "use" <=> c'.ready
        /\ shared' \in BOOLEAN /\ server' \in {"none", "held"}
    BY <1>2 DEF LookFor
  <2>2. c' \in Containers /\ c'.ver = store[f].ver
    BY <1>1, <2>1, CopyFacts
  <2>3. Stamped(c', f)
    BY <1>1, <2>1, CopyStamped
  <2>4. Stamped(c, name)'
    BY <1>1, <2>3 DEF Stamped
  <2>5. pc' = "use" => c'.ready /\ c'.ver \in Versions \ Malformed
    BY <1>1, <2>1, <2>2, <2>3 DEF Stamped
  <2>6. CacheTypeOK'
    BY <1>1, <2>1, <2>2, <2>5 DEF CacheTypeOK
  <2> QED
    BY <1>1, <2>1, <2>4, <2>5, <2>6 DEF CacheInv, Stamped
<1>3. CASE BuildContainer(f)
  <2>1. c' = None /\ pc' = "read" /\ shared' = FALSE /\ server' = "none"
    BY <1>3 DEF BuildContainer
  <2>2. CacheTypeOK'
    BY <1>1, <2>1, NoneFacts DEF CacheTypeOK
  <2>3. Stamped(c, name)'
    BY <1>1, <2>1, NoneFacts DEF Stamped
  <2> QED
    BY <1>1, <2>1, <2>2, <2>3, NoneFacts DEF CacheInv, Stamped
<1> QED
  BY <1>2, <1>3 DEF Request

\* read() takes the number of the contents, init() their time unless they have
\* changed since, and what is kept of them is a copy.
LEMMA CacheInvStep ==
  ASSUME CacheInv, CacheStep \/ Failed
  PROVE  CacheInv'
<1>1. /\ UNCHANGED <<now, file, written, name>>
      /\ name \in Files /\ c \in Containers /\ CacheTypeOK
      /\ file[name].ver \in Versions /\ file[name].ver \in Nat
  BY StampType, CacheAssumption
     DEF CacheStep, Read, ReadFails, ReadTerminates, Stat, Keep, Failed, fileVars, CacheInv,
         CacheTypeOK, Versions
<1>2. CASE Read
  <2>1. /\ c' = [c EXCEPT !.ver = file[name].ver, !.raced = FALSE]
        /\ pc = "read" /\ pc' = "stat" /\ UNCHANGED <<store, shared, server>>
        /\ file[name].there /\ file[name].ver \notin Malformed /\ ~c.ready
    BY <1>2 DEF Read, CacheInv
  <2>2. c' \in Containers /\ c'.ver = file[name].ver /\ ~c'.ready
    BY <1>1, <2>1, StampType DEF Containers
  <2>3. Stamped(c, name)'
    BY <1>1, <2>2 DEF Stamped
  <2>4. CacheTypeOK'
    BY <1>1, <2>1, <2>2 DEF CacheTypeOK
  <2> QED
    BY <1>1, <2>1, <2>2, <2>3, <2>4 DEF CacheInv, Stamped
<1>3. CASE ReadFails \/ ReadTerminates
  <2>1. pc' \in {"failed", "dead"} /\ UNCHANGED <<store, c, shared, server>> /\ pc = "read"
    BY <1>3 DEF ReadFails, ReadTerminates
  <2> QED
    BY <1>1, <2>1 DEF CacheInv, CacheTypeOK, Stamped
<1>4. CASE Stat
  <2>1. /\ c' = [c EXCEPT !.time = Stamp(file[name]), !.ready = TRUE]
        /\ pc = "stat" /\ pc' = "keep" /\ UNCHANGED <<store, shared, server>>
        /\ c.ver \in Versions \ Malformed
        /\ ~c.raced => file[name].there /\ c.ver = file[name].ver
    BY <1>4 DEF Stat, CacheInv
  <2>2. /\ c' \in Containers /\ c'.ver = c.ver /\ c'.ready
        /\ c'.raced = c.raced /\ c'.time = Stamp(file[name])
    BY <1>1, <2>1, StampType DEF Containers
  <2>3. ~c'.raced => c'.time = written[name][c'.ver]
    BY <1>1, <2>1, <2>2 DEF Stamp, CacheInv
  <2>4. Stamped(c, name)'
    BY <1>1, <2>1, <2>2, <2>3 DEF Stamped, CacheInv
  <2>5. CacheTypeOK'
    BY <1>1, <2>1, <2>2 DEF CacheTypeOK
  <2> QED
    BY <1>1, <2>1, <2>2, <2>4, <2>5 DEF CacheInv, Stamped
<1>5. CASE Keep
  <2>1. /\ store' = [store EXCEPT ![name] = Copy(c, file[name])]
        /\ pc = "keep" /\ pc' = "use" /\ UNCHANGED <<c, shared, server>>
        /\ store \in [Files -> Containers] /\ Stamped(c, name)
        /\ c.ver \in Versions \ Malformed /\ c.ready
    BY <1>5 DEF Keep, CacheInv
  <2>2. /\ Copy(c, file[name]) \in Containers /\ Copy(c, file[name]).ver = c.ver
        /\ Stamped(Copy(c, file[name]), name)
    BY <1>1, <2>1, CopyFacts, CopyStamped
  <2>3. /\ store' \in [Files -> Containers]
        /\ store'[name] = Copy(c, file[name])
        /\ \A g \in Files \ {name} : store'[g] = store[g]
    BY <1>1, <2>1, <2>2
  <2>4. \A g \in Files : Stamped(store'[g], g) /\ store'[g].ver \notin Malformed
    BY <1>1, <2>1, <2>2, <2>3 DEF CacheInv, CacheTypeOK
  <2>5. \A g \in Files : Stamped(store[g], g)'
    BY <1>1, <2>4 DEF Stamped
  <2>6. CacheTypeOK'
    BY <1>1, <2>1, <2>3, <2>4 DEF CacheTypeOK
  <2> QED
    BY <1>1, <2>1, <2>3, <2>5, <2>6 DEF CacheInv, Stamped
<1>6. CASE Failed
  <2>1. pc' = "idle" /\ shared' = FALSE /\ c' = None /\ UNCHANGED <<store, server>>
    BY <1>6 DEF Failed
  <2> QED
    BY <1>1, <2>1, NoneFacts DEF CacheInv, CacheTypeOK, Stamped
<1> QED
  BY <1>2, <1>3, <1>4, <1>5, <1>6 DEF CacheStep

\* The wrapper gives its container up.
LEMMA CacheInvRelease ==
  ASSUME CacheInv, Release
  PROVE  CacheInv'
<1>1. /\ pc' = "idle" /\ c' = None /\ shared' = FALSE
      /\ server' \in {"none", "held", "freed"}
      /\ UNCHANGED <<now, file, written, store, name>>
  BY DEF Release, fileVars, CacheInv, CacheTypeOK
<1> QED
  BY <1>1, NoneFacts DEF CacheInv, CacheTypeOK, Stamped

\* Every step of the cache, the runner and the world.
LEMMA CacheInvNext ==
  ASSUME CacheInv, [RunNext]_vars
  PROVE  CacheInv'
<1>1. CASE World
  BY <1>1, CacheInvWorld
<1>2. CASE NextRequest
  BY <1>2, CacheInvRequest DEF NextRequest
<1>3. CASE CacheStep \/ Failed
  BY <1>3, CacheInvStep
<1>4. CASE Leave
  BY <1>4, CacheInvRelease DEF Leave
<1>5. CASE UNCHANGED cacheVars
  BY <1>5 DEF cacheVars, CacheInv, CacheTypeOK, Stamped
<1> QED
  BY <1>1, <1>2, <1>3, <1>4, <1>5
     DEF RunNext, RunStep, Try, NoFunction, GiveUp, vars

\* A container is handed out as a copy that is up to date, or after it was read.
LEMMA FreshStep ==
  ASSUME CacheInv, [RunNext]_vars, HandedOut
  PROVE  c'.raced \/ Recent \/ JustRead
<1>1. ASSUME NEW f \in Files, Request(f) PROVE c'.raced \/ Recent
  <2>1. /\ store[f] \in Containers /\ Stamped(store[f], f)
        /\ pc = "idle" /\ name' = f /\ UNCHANGED <<file, written>>
    BY <1>1 DEF Request, fileVars, CacheInv
  <2>2. c' = Copy(store[f], file[f]) /\ c'.ready
    BY <1>1 DEF Request, LookFor, BuildContainer, HandedOut
  <2>3. /\ c'.ver = store[f].ver /\ (c'.raced <=> store[f].raced)
        /\ store[f].ready /\ UpToDate(store[f].time, file[f])
    BY <2>1, <2>2, CopyFacts
  <2> QED
    BY <2>1, <2>3 DEF Stamped, UpToDate, Recent
<1>2. ASSUME Keep PROVE c'.raced \/ JustRead
  BY <1>2 DEF Keep, CacheInv, Stamped, JustRead
<1> QED
  BY <1>1, <1>2 DEF HandedOut, RunNext, RunStep, World, NextRequest, CacheStep,
     Read, ReadFails, ReadTerminates, Stat, Failed, Try, NoFunction, GiveUp, Leave, Release,
     vars, cacheVars

(* The cache: every variable has its type and only contents the parser     *)
(* took are kept or handed out, also after a setup() that threw half way.  *)
THEOREM CacheTypeCorrect == Spec => []CacheTypeOK
<1>1. Init => CacheInv
  BY CacheInvInit DEF Init
<1>2. CacheInv /\ [RunNext]_vars => CacheInv'
  BY CacheInvNext
<1>3. CacheInv => CacheTypeOK
  BY DEF CacheInv
<1> QED
  BY <1>1, <1>2, <1>3, PTL DEF Spec

(* However the files are edited, put back and removed, also while they are *)
(* read, a request gets contents that are recent or just read, or that the *)
(* file was changed behind before its time was taken.                      *)
THEOREM HandedOutFresh == Spec => FreshOnHandOut
<1>1. Init => CacheInv
  BY CacheInvInit DEF Init
<1>2. CacheInv /\ [RunNext]_vars
        => CacheInv' /\ [HandedOut => c'.raced \/ Recent \/ JustRead]_cacheVars
  BY CacheInvNext, FreshStep
<1> QED
  BY <1>1, <1>2, PTL DEF Spec, FreshOnHandOut

-----------------------------------------------------------------------------
(* The runner.                                                             *)

\* The sections of the container in use.
LEMMA ApisFacts ==
  ASSUME CacheInv, pc = "use"
  PROVE  /\ Len(Apis) \in Nat \ {0} /\ DOMAIN Apis = 1..Len(Apis)
         /\ DOMAIN Apis \subseteq Numbers
<1>1. c.ver \in Versions
  BY DEF CacheInv
<1>2. Sections[c.ver] \in Seq(STRING) /\ Sections[c.ver] # <<>>
  BY <1>1, LastChanceAssumption
<1> QED
  BY <1>1, <1>2 DEF Apis, Numbers

\* Sections are numbered from 1.
LEMMA NumbersFacts == \A n \in Numbers : n \in Nat /\ n >= 1
<1> SUFFICES ASSUME NEW n \in Numbers PROVE n \in Nat /\ n >= 1
  OBVIOUS
<1>1. PICK v \in Versions : n \in DOMAIN Sections[v]
  BY DEF Numbers
<1>2. Sections[v] \in Seq(STRING)
  BY LastChanceAssumption
<1> QED
  BY <1>1, <1>2

\* The steps of the cache and of the world.
LEMMA RunInvCache ==
  ASSUME CacheInv, CacheInv', RunInv, UNCHANGED runVars,
         World \/ NextRequest \/ CacheStep \/ Failed
  PROVE  RunInv'
<1>1. CASE pc # "use"
  <2>1. sec' = 1 /\ tries' = NotTried /\ result' = "none" /\ wrote' = wrote
    BY <1>1 DEF RunInv, runVars
  <2>2. tries' \in [Numbers -> 0..1] /\ \A n \in Numbers : tries'[n] = 0
    BY <2>1 DEF NotTried
  <2>3. pc' = "use" => Len(Apis') \in Nat /\ DOMAIN Apis' = 1..Len(Apis')
    <3> SUFFICES ASSUME pc' = "use"
                 PROVE  Len(Apis') \in Nat /\ DOMAIN Apis' = 1..Len(Apis')
      OBVIOUS
    <3>1. c'.ver \in Versions
      BY DEF CacheInv
    <3>2. Sections[c'.ver] \in Seq(STRING)
      BY <3>1, LastChanceAssumption
    <3> QED
      BY <3>2 DEF Apis
  <2> QED
    BY <2>1, <2>2, <2>3 DEF RunInv
<1>2. CASE pc = "use"
  <2>1. World
    BY <1>2 DEF NextRequest, Request, CacheStep, Read, ReadFails, ReadTerminates,
           Stat, Keep, Failed
  <2>2. pc' = "use" /\ c'.ver = c.ver
    BY <1>2, <2>1, RacedFacts DEF World
  <2>3. Apis' = Apis
    BY <2>2 DEF Apis
  <2> QED
    BY <1>2, <2>2, <2>3 DEF RunInv, runVars, AtEnd
<1> QED
  BY <1>1, <1>2

\* One section is tried, or passed because its plugin has no function: those
\* between the cursor and it have no plugin.
LEMMA RunInvTurn ==
  ASSUME CacheInv, RunInv, Try \/ NoFunction
  PROVE  RunInv'
<1>1. /\ pc = "use" /\ pc' = "use" /\ Apis' = Apis /\ result = "none"
  BY DEF Try, NoFunction, Running, cacheVars, Apis
<1>2. /\ Len(Apis) \in Nat /\ DOMAIN Apis = 1..Len(Apis)
      /\ DOMAIN Apis \subseteq Numbers
      /\ \A n \in Numbers : n \in Nat /\ n >= 1
      /\ sec \in Nat /\ tries \in [Numbers -> 0..1]
  BY <1>1, ApisFacts, NumbersFacts DEF RunInv
<1>3. ASSUME NEW n \in DOMAIN Apis, Found(n)
      PROVE  /\ n >= sec
             /\ \A i \in DOMAIN Apis : i < n /\ Apis[i] \in Handling => i < sec
  BY <1>2, <1>3, LastChanceAssumption DEF Found, KnownFrom
<1>4. ASSUME Try PROVE RunInv'
  <2>1. PICK n \in DOMAIN Apis, answer \in BOOLEAN, writes \in BOOLEAN :
          /\ Found(n) /\ tries' = [tries EXCEPT ![n] = Called(tries[n])]
          /\ wrote' = IF writes THEN wrote \cup {n} ELSE wrote
          /\ result' = IF answer THEN "true" ELSE "none"
          /\ sec' = n + 1
    BY <1>4 DEF Try, AfterTry
  <2>2. n \in Numbers /\ n \in Nat /\ n >= sec /\ n <= Len(Apis)
    BY <1>2, <1>3, <2>1
  <2>3. tries[n] = 0
    BY <1>2, <2>2 DEF RunInv
  <2>4. /\ tries' \in [Numbers -> 0..1] /\ tries'[n] = 1
        /\ \A i \in Numbers : i # n => tries'[i] = tries[i]
    BY <1>2, <2>1, <2>2, <2>3 DEF Called
  <2>5. \A i \in Numbers : tries'[i] # 0 => i < sec'
    BY <1>2, <2>1, <2>2, <2>4 DEF RunInv
  <2>6. \A i \in DOMAIN Apis : i < sec' /\ Apis[i] \in Handling => tries'[i] # 0
    <3> SUFFICES ASSUME NEW i \in DOMAIN Apis, i < n + 1, Apis[i] \in Handling
                 PROVE  tries'[i] # 0
      BY <2>1
    <3>1. CASE i = n
      BY <2>4, <3>1
    <3>2. CASE i # n
      <4>1. i < sec /\ i \in Numbers
        BY <1>2, <1>3, <2>1, <2>2, <3>2
      <4>2. tries[i] # 0
        BY <1>1, <4>1 DEF RunInv
      <4> QED
        BY <2>4, <3>2, <4>1, <4>2
    <3> QED
      BY <3>1, <3>2
  <2>7. sec' \in 1..(Len(Apis) + 1) /\ wrote' \subseteq Numbers
        /\ result' \in {"none", "true"}
    BY <1>2, <2>1, <2>2 DEF RunInv
  <2> QED
    BY <1>1, <2>4, <2>5, <2>6, <2>7 DEF RunInv
<1>5. ASSUME NoFunction PROVE RunInv'
  <2>1. PICK n \in DOMAIN Apis :
          Found(n) /\ Apis[n] \notin Handling /\ sec' = n + 1
    BY <1>5 DEF NoFunction
  <2>2. /\ n \in Nat /\ n >= sec /\ n <= Len(Apis) /\ n >= 1
        /\ UNCHANGED <<tries, wrote, result>>
    BY <1>2, <1>3, <1>5, <2>1 DEF NoFunction
  <2>3. \A i \in Numbers : tries'[i] # 0 => i < sec'
    BY <1>2, <2>1, <2>2 DEF RunInv
  <2>4. \A i \in DOMAIN Apis : i < sec' /\ Apis[i] \in Handling => tries'[i] # 0
    <3> SUFFICES ASSUME NEW i \in DOMAIN Apis, i < n + 1, Apis[i] \in Handling
                 PROVE  tries[i] # 0
      BY <2>1, <2>2
    <3>1. i # n /\ i < n
      BY <1>2, <2>1, <2>2
    <3>2. i < sec
      BY <1>3, <2>1, <3>1
    <3> QED
      BY <1>1, <3>2 DEF RunInv
  <2>5. sec' \in 1..(Len(Apis) + 1)
    BY <1>2, <2>1, <2>2
  <2> QED
    BY <1>1, <2>2, <2>3, <2>4, <2>5 DEF RunInv
<1> QED
  BY <1>4, <1>5

\* The runner gives up when it has passed every section or none left is known.
LEMMA RunInvGiveUp ==
  ASSUME CacheInv, RunInv, GiveUp
  PROVE  RunInv'
<1>1. /\ pc = "use" /\ pc' = "use" /\ Apis' = Apis /\ result' = "thrown"
      /\ sec' = Len(Apis) + 1 /\ UNCHANGED <<tries, wrote>>
      /\ sec > Len(Apis) \/ KnownFrom(sec) = {}
  BY DEF GiveUp, Running, cacheVars, Apis, AtEnd
<1>2. /\ Len(Apis) \in Nat /\ DOMAIN Apis = 1..Len(Apis)
      /\ sec \in 1..(Len(Apis) + 1)
      /\ \A n \in Numbers : n \in Nat
  BY <1>1, ApisFacts, NumbersFacts DEF RunInv
<1>3. \A n \in DOMAIN Apis : Apis[n] \in Handling => n < sec
  BY <1>1, <1>2, LastChanceAssumption DEF KnownFrom
<1>4. \A n \in DOMAIN Apis : Apis[n] \in Handling => tries'[n] # 0
  BY <1>1, <1>3 DEF RunInv
<1>5. \A n \in Numbers : tries'[n] # 0 => n < sec'
  BY <1>1, <1>2 DEF RunInv
<1>6. AtEnd'
  BY <1>1, <1>2 DEF AtEnd
<1> QED
  BY <1>1, <1>2, <1>4, <1>5, <1>6 DEF RunInv

\* The initial states and every step.
LEMMA RunInvInit == Init => CacheInv /\ RunInv
<1> SUFFICES ASSUME Init PROVE CacheInv /\ RunInv
  OBVIOUS
<1>1. pc = "idle" /\ tries = NotTried /\ sec = 1 /\ wrote = {} /\ result = "none"
  BY DEF Init, CacheInit, RunInit
<1>2. tries \in [Numbers -> 0..1] /\ \A n \in Numbers : tries[n] = 0
  BY <1>1 DEF NotTried
<1> QED
  BY <1>1, <1>2, CacheInvInit DEF Init, RunInv

\* Every step: the cursor moves in use only.
LEMMA RunInvNext ==
  ASSUME CacheInv, RunInv, [RunNext]_vars
  PROVE  CacheInv' /\ RunInv'
<1>1. CacheInv'
  BY CacheInvNext
<1>2. CASE (World \/ NextRequest \/ CacheStep \/ Failed) /\ UNCHANGED runVars
  BY <1>1, <1>2, RunInvCache
<1>3. CASE Try \/ NoFunction
  BY <1>1, <1>3, RunInvTurn
<1>4. CASE GiveUp
  BY <1>1, <1>4, RunInvGiveUp
<1>5. CASE Leave
  <2>1. /\ sec' = 1 /\ tries' = NotTried /\ wrote' = {} /\ result' = "none"
        /\ pc' = "idle"
    BY <1>5 DEF Leave, Release
  <2>2. tries' \in [Numbers -> 0..1] /\ \A n \in Numbers : tries'[n] = 0
    BY <2>1 DEF NotTried
  <2> QED
    BY <1>1, <2>1, <2>2 DEF RunInv
<1>6. CASE UNCHANGED vars
  BY <1>1, <1>6 DEF vars, cacheVars, runVars, RunInv, AtEnd, Apis
<1> QED
  BY <1>2, <1>3, <1>4, <1>5, <1>6 DEF RunNext, RunStep

\* What the two properties say follows from the invariants.
LEMMA RunInvMeans ==
  ASSUME CacheInv, RunInv
  PROVE  RunTypeOK /\ EachTriedOnce
<1>0. /\ CacheTypeOK
      /\ tries \in [Numbers -> 0..2]
      /\ \A n \in Numbers : tries[n] <= 1 /\ (tries[n] # 0 => n < sec)
      /\ wrote \subseteq Numbers /\ result \in {"none", "true", "thrown"}
  BY DEF RunInv, CacheInv
<1>1. CASE pc = "use"
  <2>1. /\ Len(Apis) \in Nat \ {0} /\ DOMAIN Apis = 1..Len(Apis)
        /\ DOMAIN Apis \subseteq Numbers /\ sec \in 1..(Len(Apis) + 1)
    BY <1>1, ApisFacts DEF RunInv
  <2>2. sec \in {1} \cup {n + 1 : n \in Numbers}
    <3>1. CASE sec # 1
      <4>1. sec - 1 \in Numbers /\ sec = (sec - 1) + 1
        BY <2>1, <3>1
      <4> QED
        BY <4>1
    <3> QED
      BY <3>1
  <2>3. result = "thrown" =>
          \A n \in DOMAIN Apis : Apis[n] \in Handling => tries[n] # 0
    BY <1>1, <2>1 DEF RunInv, AtEnd
  <2> QED
    BY <1>0, <2>2, <2>3 DEF RunTypeOK, EachTriedOnce
<1>2. CASE pc # "use"
  <2>1. sec = 1 /\ result = "none"
    BY <1>2 DEF RunInv
  <2> QED
    BY <1>0, <2>1 DEF RunTypeOK, EachTriedOnce
<1> QED
  BY <1>1, <1>2

(* Every variable of the cache and of the runner has its type: the cursor  *)
(* is never more than one past a section some contents have.               *)
THEOREM RunTypeCorrect == Spec => []RunTypeOK
<1>1. (CacheInv /\ RunInv) /\ [RunNext]_vars => (CacheInv /\ RunInv)'
  BY RunInvNext
<1>2. CacheInv /\ RunInv => RunTypeOK
  BY RunInvMeans
<1> QED
  BY <1>1, <1>2, RunInvInit, PTL DEF Spec

(* For every sequence of sections, plugins and failures: a request is      *)
(* refused only when each section whose plugin handles the command has     *)
(* been tried, none is tried twice and none behind the cursor's back,      *)
(* although the loop and the search move the same cursor.                  *)
THEOREM TriedOnceEach == Spec => []EachTriedOnce
<1>1. (CacheInv /\ RunInv) /\ [RunNext]_vars => (CacheInv /\ RunInv)'
  BY RunInvNext
<1>2. CacheInv /\ RunInv => EachTriedOnce
  BY RunInvMeans
<1> QED
  BY <1>1, <1>2, RunInvInit, PTL DEF Spec
=============================================================================
