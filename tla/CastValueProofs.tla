--------------------------- MODULE CastValueProofs ---------------------------
(***************************************************************************)
(* The ownership of the strings of CastValue, for any number of variables  *)
(* and of blocks, any base of a byte, traced or not.                       *)
(*                                                                         *)
(* OneOwner and FreedOnce are not inductive: copying a variable that holds *)
(* a string would give the string two owners.  What excludes it is that    *)
(* between two steps of a reader no variable of the class that owns its    *)
(* string holds one (IdleInv): read() releases it before it returns, and   *)
(* when it throws no variable is copied any more.                          *)
(***************************************************************************)
EXTENDS CastValue, TLAPS

StoreType == [val : [Variables -> Blocks \cup {Null, Buffer}],
              heap : SUBSET Blocks, twice : BOOLEAN]

\* Nothing is held but by v, and what v holds is all there is on the heap.
HeldBy(s, v) ==
  /\ s \in StoreType /\ ~s.twice
  /\ \A w \in Variables \ {v} : s.val[w] = Null
  /\ s.val[v] \in {Null} \cup s.heap /\ s.heap \subseteq {s.val[v]}

\* Nothing is on the heap, as variables point into the buffer.
Borrowed(s) ==
  /\ s \in StoreType /\ ~s.twice /\ s.heap = {}
  /\ \A w \in Variables : s.val[w] \in {Null, Buffer}

TypeInv ==
  /\ live \subseteq Variables /\ Store \in StoreType /\ ~twice
  /\ \A v \in Variables \ live : val[v] = Null

IdleInv ==
  IF Reuse THEN Borrowed(Store)
  ELSE IF stage = "failed" THEN \E v \in live : HeldBy(Store, v)
       ELSE heap = {} /\ \A v \in Variables : val[v] = Null

StartInv == stage = "type" => live = {}

CastInv == TypeInv /\ IdleInv /\ StartInv

-----------------------------------------------------------------------------
(* The operators on the store.                                             *)

\* A cast of a variable that owns its string leaves it the only owner: setVal()
\* deletes the string before it takes the new one.
LEMMA CastOwns ==
  ASSUME NEW v \in Variables, NEW s, HeldBy(s, v), ~Reuse,
         NEW t \in Casts(s, v)
  PROVE  HeldBy(t, v)
<1>1. PICK b \in Blocks \ s.heap :
        t = SetVal([s EXCEPT !.heap = @ \cup {b}], v, b)
  BY DEF Casts
<1> DEFINE s1 == [s EXCEPT !.heap = @ \cup {b}]
<1>2. /\ s \in StoreType /\ ~s.twice /\ s.heap \subseteq {s.val[v]}
      /\ \A w \in Variables \ {v} : s.val[w] = Null
      /\ s.val[v] \in {Null} \cup s.heap
  BY DEF HeldBy
<1>3. /\ s1 \in StoreType /\ s1.val = s.val /\ s1.twice = s.twice
      /\ s1.heap = s.heap \cup {b}
  BY <1>1, <1>2 DEF StoreType
<1>4. Null \notin Blocks
  BY CastAssumption
<1>5. CASE s.val[v] = Null
  <2>1. s.heap = {}
    BY <1>2, <1>4, <1>5 DEF StoreType
  <2>2. t = [s1 EXCEPT !.val[v] = b]
    BY <1>1, <1>3, <1>5 DEF SetVal
  <2>3. /\ t \in StoreType /\ t.heap = {b} /\ t.twice = s.twice
        /\ t.val = [s.val EXCEPT ![v] = b]
    <3>1. s1.heap = {b}
      BY <1>3, <2>1
    <3>2. b \in Blocks \cup {Null, Buffer}
      BY <1>1
    <3> HIDE DEF s1
    <3>3. /\ t \in StoreType /\ t.heap = s1.heap /\ t.twice = s1.twice
          /\ t.val = [s1.val EXCEPT ![v] = b]
      BY <1>3, <2>2, <3>2 DEF StoreType
    <3> QED
      BY <1>3, <3>1, <3>3
  <2> QED
    BY <1>1, <1>2, <2>3 DEF HeldBy, StoreType
<1>6. CASE s.val[v] # Null
  <2>1. s.val[v] \in s.heap /\ s.heap = {s.val[v]}
    BY <1>2, <1>6
  <2>2. t = [Delete(s1, s1.val[v]) EXCEPT !.val[v] = b]
    BY <1>1, <1>3, <1>6 DEF SetVal
  <2> DEFINE s2 == Delete(s1, s1.val[v])
  <2>3. /\ s2 \in StoreType /\ s2.val = s.val /\ s2.heap = {b}
        /\ ~s2.twice
    BY <1>1, <1>2, <1>3, <2>1 DEF Delete, StoreType
  <2>4. /\ t \in StoreType /\ t.heap = {b} /\ ~t.twice
        /\ t.val = [s.val EXCEPT ![v] = b]
    BY <1>1, <2>2, <2>3 DEF StoreType
  <2> QED
    BY <1>1, <1>2, <2>4 DEF HeldBy, StoreType
<1> QED
  BY <1>5, <1>6

\* freeValue() of the only owner leaves nothing on the heap.
LEMMA FreeValueFrees ==
  ASSUME NEW v \in Variables, NEW s, HeldBy(s, v)
  PROVE  LET t == FreeValue(s, v)
         IN  /\ t \in StoreType /\ ~t.twice /\ t.heap = {}
             /\ \A w \in Variables : t.val[w] = Null
<1> DEFINE t == FreeValue(s, v)
<1>1. /\ s \in StoreType /\ ~s.twice /\ s.heap \subseteq {s.val[v]}
      /\ \A w \in Variables \ {v} : s.val[w] = Null
      /\ s.val[v] \in {Null} \cup s.heap
  BY DEF HeldBy
<1>2. CASE s.val[v] = Null
  <2>1. t = s
    BY <1>2 DEF FreeValue
  <2>2. s.heap = {}
    BY <1>1, <1>2, CastAssumption DEF StoreType
  <2> QED
    BY <1>1, <1>2, <2>1, <2>2
<1>3. CASE s.val[v] # Null
  <2> DEFINE s1 == Delete(s, s.val[v])
  <2>1. s1 \in StoreType /\ s1.val = s.val /\ s1.heap = {} /\ ~s1.twice
    BY <1>1, <1>3 DEF Delete, StoreType
  <2>2. t = [s1 EXCEPT !.val[v] = Null]
    BY <1>3 DEF FreeValue
  <2>3. /\ t \in StoreType /\ t.heap = {} /\ ~t.twice
        /\ t.val = [s.val EXCEPT ![v] = Null]
    BY <2>1, <2>2 DEF StoreType
  <2> QED
    BY <1>1, <2>3 DEF StoreType
<1> QED
  BY <1>2, <1>3

\* A cast of a variable of another class points into the buffer.
LEMMA CastBorrows ==
  ASSUME NEW v \in Variables, NEW s, Borrowed(s), Reuse, NEW t \in Casts(s, v)
  PROVE  Borrowed(t)
<1>1. t = [s EXCEPT !.val[v] = Buffer]
  BY DEF Casts, SetVal
<1> QED
  BY <1>1 DEF Borrowed, StoreType

-----------------------------------------------------------------------------
(* The steps.                                                              *)

LEMMA StoreFields ==
  /\ Store.val = val /\ Store.heap = heap /\ Store.twice = twice
  /\ \A s \in StoreType : Becomes(s) => Store' = s
BY DEF Store, StoreType, Becomes

LEMMA InitInv == Init => CastInv
<1> SUFFICES ASSUME Init PROVE CastInv
  OBVIOUS
<1>1. Store \in StoreType
  BY DEF Init, Store, StoreType
<1> QED
  BY <1>1, StoreFields DEF Init, CastInv, TypeInv, IdleInv, StartInv, Borrowed

\* What a read that is traced or not has done before it takes the value.
LEMMA TracesKeep ==
  ASSUME NEW v \in Variables, NEW s \in Traces(Store, v)
  PROVE  /\ ~Reuse /\ HeldBy(Store, v) => HeldBy(s, v)
         /\ Reuse /\ Borrowed(Store) => Borrowed(s)
<1>1. s \in Casts(Store, v) \/ s = Store
  BY DEF Traces
<1> QED
  BY <1>1, CastOwns, CastBorrows

\* Before a read of an owning class nothing is held by any variable.
LEMMA IdleHeldBy ==
  ASSUME CastInv, stage = "use", ~Reuse, NEW v \in Variables
  PROVE  HeldBy(Store, v)
BY StoreFields DEF CastInv, TypeInv, IdleInv, HeldBy

LEMMA ReadInv ==
  ASSUME CastInv, NEW v \in Variables, Read(v)
  PROVE  CastInv'
<1>1. PICK s \in Traces(Store, v) : \E t \in Casts(s, v) : Becomes(Released(t, v))
  BY DEF Read
<1>2. PICK t \in Casts(s, v) : Becomes(Released(t, v))
  BY <1>1
<1>3. /\ stage = "use" /\ v \in live /\ live' = live /\ column' = column
      /\ stage' = stage
  BY DEF Read
<1>4. Reuse' = Reuse
  BY <1>3 DEF Reuse, Class
<1>5. CASE Reuse
  <2>1. Borrowed(t)
    BY <1>5, TracesKeep, CastBorrows DEF CastInv, IdleInv
  <2>2. Store' = t
    BY <1>2, <1>5, <2>1, StoreFields DEF Released, Borrowed
  <2>3. Borrowed(Store)' /\ (Store \in StoreType)' /\ ~twice'
    BY <2>1, <2>2 DEF Borrowed, Store, StoreType
  <2>4. \A w \in Variables \ {v} : val'[w] = val[w]
    <3>1. PICK u : u \in {Store} \cup Casts(Store, v) /\ s = u
      BY DEF Traces
    <3>2. s = Store \/ s = [Store EXCEPT !.val[v] = Buffer]
      BY <1>5, <3>1 DEF Casts, SetVal
    <3>3. t = [s EXCEPT !.val[v] = Buffer]
      BY <1>5 DEF Casts, SetVal
    <3>4. \A w \in Variables \ {v} : t.val[w] = Store.val[w]
      BY <3>2, <3>3 DEF CastInv, TypeInv, StoreType
    <3> QED
      BY <3>4, <2>2, StoreFields DEF Store
  <2> QED
    BY <1>3, <1>4, <1>5, <2>3, <2>4 DEF CastInv, TypeInv, IdleInv, StartInv
<1>6. CASE ~Reuse
  <2>1. HeldBy(t, v)
    BY <1>3, <1>6, IdleHeldBy, TracesKeep, CastOwns
  <2> DEFINE f == FreeValue(t, v)
  <2>2. /\ f \in StoreType /\ ~f.twice /\ f.heap = {}
        /\ \A w \in Variables : f.val[w] = Null
    BY <2>1, FreeValueFrees
  <2>3. Store' = f
    BY <1>2, <1>6, <2>2, StoreFields DEF Released
  <2>4. /\ (Store \in StoreType)' /\ ~twice' /\ heap' = {}
        /\ \A w \in Variables : val'[w] = Null
    BY <2>2, <2>3 DEF Store
  <2> QED
    BY <1>3, <1>4, <1>6, <2>4 DEF CastInv, TypeInv, IdleInv, StartInv
<1> QED
  BY <1>5, <1>6

LEMMA ReadFailsInv ==
  ASSUME CastInv, NEW v \in Variables, ReadFails(v)
  PROVE  CastInv'
<1>1. PICK s : s \in {Store} \cup Traces(Store, v) /\ Becomes(s)
  BY DEF ReadFails
<1>2. /\ stage = "use" /\ v \in live /\ live' = live /\ column' = column
      /\ stage' = "failed"
  BY DEF ReadFails
<1>3. Reuse' = Reuse
  BY <1>2 DEF Reuse, Class
<1>4. CASE Reuse
  <2>1. Borrowed(s)
    BY <1>1, <1>4, TracesKeep DEF CastInv, IdleInv
  <2>2. Store' = s
    BY <1>1, <2>1, StoreFields DEF Borrowed
  <2>3. Borrowed(Store)' /\ (Store \in StoreType)' /\ ~twice'
    BY <2>1, <2>2 DEF Borrowed, Store, StoreType
  <2>4. \A w \in Variables \ {v} : s.val[w] = Store.val[w]
    <3>1. s = Store \/ s = [Store EXCEPT !.val[v] = Buffer]
      BY <1>1, <1>4 DEF Traces, Casts, SetVal
    <3> QED
      BY <3>1 DEF CastInv, TypeInv, StoreType
  <2>5. \A w \in Variables \ {v} : val'[w] = val[w]
    BY <2>2, <2>4, StoreFields DEF Store
  <2> QED
    BY <1>2, <1>3, <1>4, <2>3, <2>5 DEF CastInv, TypeInv, IdleInv, StartInv
<1>5. CASE ~Reuse
  <2>1. HeldBy(s, v)
    BY <1>1, <1>2, <1>5, IdleHeldBy, TracesKeep
  <2>2. Store' = s
    BY <1>1, <2>1, StoreFields DEF HeldBy
  <2>3. HeldBy(Store, v)' /\ (Store \in StoreType)' /\ ~twice'
    BY <2>1, <2>2 DEF HeldBy, Store, StoreType
  <2>4. \A w \in Variables \ live : val'[w] = Null
    BY <1>2, <2>1, <2>2 DEF HeldBy, Store
  <2> QED
    BY <1>2, <1>3, <1>5, <2>3, <2>4 DEF CastInv, TypeInv, IdleInv, StartInv
<1> QED
  BY <1>4, <1>5

LEMMA DuplicateInv ==
  ASSUME CastInv, NEW v \in Variables, NEW w \in Variables, Duplicate(v, w)
  PROVE  CastInv'
<1>1. /\ stage = "use" /\ v \in live /\ stage' = stage /\ column' = column
      /\ live' = live \cup {w} /\ heap' = heap /\ twice' = twice
      /\ val' = [val EXCEPT ![w] = val[v]]
  BY DEF Duplicate
<1>2. Reuse' = Reuse
  BY <1>1 DEF Reuse, Class
<1>3. val \in [Variables -> Blocks \cup {Null, Buffer}]
  BY StoreFields DEF CastInv, TypeInv, StoreType
<1>4. /\ (Store \in StoreType)'
      /\ \A u \in Variables : val'[u] = IF u = w THEN val[v] ELSE val[u]
  BY <1>1, <1>3 DEF CastInv, TypeInv, Store, StoreType
<1>5. TypeInv' /\ StartInv'
  BY <1>1, <1>4 DEF CastInv, TypeInv, StartInv
<1>6. CASE Reuse
  <2>1. heap = {} /\ \A u \in Variables : val[u] \in {Null, Buffer}
    BY <1>6, StoreFields DEF CastInv, IdleInv, Borrowed
  <2>2. heap' = {} /\ \A u \in Variables : val'[u] \in {Null, Buffer}
    BY <1>1, <1>4, <2>1
  <2> QED
    BY <1>2, <1>5, <1>6, <2>2 DEF CastInv, TypeInv, IdleInv, Borrowed, Store
<1>7. CASE ~Reuse
  BY <1>1, <1>2, <1>4, <1>5, <1>7 DEF CastInv, IdleInv
<1> QED
  BY <1>6, <1>7

LEMMA DestroyInv ==
  ASSUME CastInv, NEW v \in Variables, Destroy(v)
  PROVE  CastInv'
<1> DEFINE s == IF Reuse THEN Store ELSE FreeValue(Store, v)
           t == [s EXCEPT !.val[v] = Null]
<1>1. /\ Becomes(t) /\ v \in live /\ live' = live \ {v} /\ column' = column
      /\ stage' = IF live' = {} THEN "done" ELSE stage
  BY DEF Destroy
<1>2. Reuse' = Reuse
  BY <1>1 DEF Reuse, Class
<1>3. CASE Reuse
  <2>1. Borrowed(Store) /\ s = Store
    BY <1>3 DEF CastInv, IdleInv
  <2>2. /\ Borrowed(t) /\ t \in StoreType /\ t.val[v] = Null
        /\ \A w \in Variables \ {v} : t.val[w] = Store.val[w]
    BY <2>1 DEF Borrowed, StoreType
  <2>3. Store' = t
    BY <1>1, <2>2, StoreFields
  <2>4. Borrowed(Store)' /\ (Store \in StoreType)' /\ ~twice'
    BY <2>2, <2>3 DEF Borrowed, Store, StoreType
  <2>5. \A w \in Variables \ live' : val'[w] = Null
    BY <1>1, <2>2, <2>3, StoreFields DEF CastInv, TypeInv, Store
  <2> QED
    BY <1>1, <1>2, <1>3, <2>4, <2>5 DEF CastInv, TypeInv, IdleInv, StartInv
<1>4. CASE ~Reuse /\ stage # "failed"
  <2>1. HeldBy(Store, v)
    BY <1>4, StoreFields DEF CastInv, TypeInv, IdleInv, HeldBy
  <2>2. /\ s \in StoreType /\ ~s.twice /\ s.heap = {}
        /\ \A w \in Variables : s.val[w] = Null
    BY <1>4, <2>1, FreeValueFrees
  <2>3. /\ t \in StoreType /\ ~t.twice /\ t.heap = {}
        /\ \A w \in Variables : t.val[w] = Null
    BY <2>2 DEF StoreType
  <2>4. Store' = t
    BY <1>1, <2>3, StoreFields
  <2>5. /\ (Store \in StoreType)' /\ ~twice' /\ heap' = {}
        /\ \A w \in Variables : val'[w] = Null
    BY <2>3, <2>4 DEF Store
  <2>6. stage' # "failed"
    BY <1>1, <1>4
  <2> QED
    BY <1>1, <1>2, <1>4, <2>5, <2>6 DEF CastInv, TypeInv, IdleInv, StartInv
<1>5. CASE ~Reuse /\ stage = "failed"
  <2>1. PICK o \in live : HeldBy(Store, o)
    BY <1>5 DEF CastInv, IdleInv
  <2>2. o \in Variables
    BY DEF CastInv, TypeInv
  <2>3. CASE o = v
    <3>1. /\ s \in StoreType /\ ~s.twice /\ s.heap = {}
          /\ \A w \in Variables : s.val[w] = Null
      BY <1>5, <2>1, <2>3, FreeValueFrees
    <3>2. /\ t \in StoreType /\ ~t.twice /\ t.heap = {}
          /\ \A w \in Variables : t.val[w] = Null
      BY <3>1 DEF StoreType
    <3>3. Store' = t
      BY <1>1, <3>2, StoreFields
    <3>4. /\ (Store \in StoreType)' /\ ~twice' /\ heap' = {}
          /\ \A w \in Variables : val'[w] = Null
      BY <3>2, <3>3 DEF Store
    <3>5. \A w \in live' : HeldBy(Store, w)'
      <4>1. /\ Store'.heap = {} /\ ~Store'.twice
            /\ \A u \in Variables : Store'.val[u] = Null
        BY <3>2, <3>3
      <4>2. live' \subseteq Variables
        BY <1>1 DEF CastInv, TypeInv
      <4> QED
        BY <3>4, <4>1, <4>2 DEF HeldBy
    <3>6. stage' = "failed" => \E w \in live' : HeldBy(Store, w)'
      BY <1>1, <3>5
    <3> QED
      BY <1>1, <1>2, <1>5, <3>4, <3>6 DEF CastInv, TypeInv, IdleInv, StartInv
  <2>4. CASE o # v
    <3>1. Store.val[v] = Null /\ Store \in StoreType
      BY <2>1, <2>4 DEF HeldBy
    <3>2. s = Store
      BY <1>5, <3>1 DEF FreeValue
    <3>3. t = Store
      BY <3>1, <3>2 DEF StoreType
    <3>4. Store' = Store
      BY <1>1, <3>1, <3>3, StoreFields
    <3>5. val' = val /\ heap' = heap /\ twice' = twice
      BY <3>4 DEF Store
    <3>6. o \in live' /\ HeldBy(Store, o)' /\ stage' = "failed"
      BY <1>1, <1>5, <2>1, <2>4, <3>4 DEF HeldBy, StoreType
    <3> QED
      BY <1>1, <1>2, <1>5, <3>1, <3>4, <3>5, <3>6, StoreFields
         DEF CastInv, TypeInv, IdleInv, StartInv
  <2> QED
    BY <2>3, <2>4
<1> QED
  BY <1>3, <1>4, <1>5

LEMMA NextInv == CastInv /\ [Next]_vars => CastInv'
<1> SUFFICES ASSUME CastInv, [Next]_vars PROVE CastInv'
  OBVIOUS
<1>1. CASE Create
  <2>1. /\ stage = "type" /\ stage' \in {"refused", "use"}
        /\ live' \subseteq Variables /\ column' = column
        /\ val' = val /\ heap' = heap /\ twice' = twice
    BY <1>1 DEF Create, store, CastInv, TypeInv
  <2>2. Reuse' = Reuse /\ Store' = Store
    BY <2>1 DEF Reuse, Class, Store
  <2>3. \A v \in Variables : val[v] = Null
    BY <2>1 DEF CastInv, TypeInv, StartInv
  <2> QED
    BY <2>1, <2>2, <2>3 DEF CastInv, TypeInv, IdleInv, StartInv, Borrowed, StoreType
<1>2. ASSUME NEW v \in Variables, NextRow(v) PROVE CastInv'
  <2>1. /\ stage' = stage /\ live' = live /\ column' = column
        /\ val' = val /\ heap' = heap /\ twice' = twice
    BY <1>2 DEF NextRow, store
  <2>2. Reuse' = Reuse /\ Store' = Store
    BY <2>1 DEF Reuse, Class, Store
  <2> QED
    BY <2>1, <2>2 DEF CastInv, TypeInv, IdleInv, StartInv, Borrowed, HeldBy, StoreType
<1>3. CASE UNCHANGED vars
  <2>1. /\ stage' = stage /\ live' = live /\ column' = column
        /\ val' = val /\ heap' = heap /\ twice' = twice
    BY <1>3 DEF vars
  <2>2. Reuse' = Reuse /\ Store' = Store
    BY <2>1 DEF Reuse, Class, Store
  <2> QED
    BY <2>1, <2>2 DEF CastInv, TypeInv, IdleInv, StartInv, Borrowed, HeldBy, StoreType
<1> QED
  BY <1>1, <1>2, <1>3, ReadInv, ReadFailsInv, DuplicateInv, DestroyInv DEF Next

LEMMA SpecInv == Spec => []CastInv
BY InitInv, NextInv, PTL DEF Spec

-----------------------------------------------------------------------------
\* A string cast_string() has allocated belongs to exactly one variable,
\* whatever has been read, copied, destroyed or has thrown (SQLObjectAction).
THEOREM OneOwnerAlways == Spec => []OneOwner
<1>1. CastInv => OneOwner
  <2> SUFFICES ASSUME CastInv PROVE OneOwner
    OBVIOUS
  <2>1. CASE Reuse
    BY <2>1, StoreFields DEF CastInv, IdleInv, Borrowed, OneOwner
  <2>2. CASE ~Reuse /\ stage # "failed"
    BY <2>2 DEF CastInv, TypeInv, IdleInv, OneOwner
  <2>3. CASE ~Reuse /\ stage = "failed"
    <3>1. PICK o \in live : HeldBy(Store, o)
      BY <2>3 DEF CastInv, IdleInv
    <3>2. /\ \A w \in live \ {o} : val[w] = Null
          /\ heap \subseteq {val[o]}
      BY <3>1, StoreFields DEF HeldBy, CastInv, TypeInv
    <3> QED
      BY <3>2 DEF OneOwner
  <2> QED
    BY <2>1, <2>2, <2>3
<1> QED
  BY <1>1, SpecInv, PTL

\* No string is deleted twice: neither the destructors of copies that took the
\* pointer over, nor the setVal() after a traced cast, nor those after an error.
THEOREM FreedOnceAlways == Spec => []FreedOnce
<1>1. CastInv => FreedOnce
  BY DEF CastInv, TypeInv, FreedOnce
<1> QED
  BY <1>1, SpecInv, PTL
-----------------------------------------------------------------------------
(* The values.  A value that is read is an integer, and for the types      *)
(* whose class takes as many bytes as the driver writes the one that is    *)
(* held: whatever lies behind those bytes is cut off by the class.         *)

Values == Int \cup {Nothing}

SameWidth == column \in {"SMALLINT", "INTEGER"}

ValueInv ==
  /\ column \in SqlTypes /\ readP \subseteq live
  /\ given \in [Variables -> Values] /\ got \in [Variables -> Values]
  /\ \A v \in readP : got[v] \in Int
  /\ SameWidth => \A v \in Variables : got[v] = given[v]

\* The remainder of a multiple of the divisor and of one that is less than it.
LEMMA Remainder ==
  ASSUME NEW p \in Nat \ {0}, NEW q \in Int, NEW r \in 0..p - 1
  PROVE  (q * p + r) % p = r
OBVIOUS

\* The square of an even number that is not 0 is one again, and not 2.
LEMMA EvenSquare ==
  ASSUME NEW n \in Nat \ {0}, n % 2 = 0
  PROVE  n * n \in Nat \ {0} /\ (n * n) % 2 = 0 /\ n * n > 2
<1>1. PICK h \in Nat : n = 2 * h
  BY n = 2 * (n \div 2), n \div 2 \in Nat
<1>2. n * n \in Nat \ {0} /\ n * n = (h * n) * 2 + 0 /\ h * n \in Int
  BY <1>1
<1>3. h * h \in Nat \ {0} /\ n * n = 4 * (h * h)
  BY <1>1
<1>4. n * n > 2
  BY <1>3
<1> QED
  BY <1>2, <1>4, Remainder

\* The bytes of any of the widths hold an even number of values, two or more
\* bytes more than two.
LEMMA PowerEven ==
  ASSUME NEW n \in {1, 2, 4, 8}
  PROVE  /\ Power(n) \in Nat \ {0} /\ Power(n) % 2 = 0
         /\ n # 1 => Power(n) > 2
<1> DEFINE two == Byte * Byte
           four == two * two
           eight == four * four
<1>1. Byte \in Nat \ {0} /\ Byte % 2 = 0
  BY CastAssumption
<1>2. two \in Nat \ {0} /\ two % 2 = 0 /\ two > 2
  BY <1>1, EvenSquare
<1>3. four \in Nat \ {0} /\ four % 2 = 0 /\ four > 2
  <2> HIDE DEF two
  <2> QED
    BY <1>2, EvenSquare
<1>4. eight \in Nat \ {0} /\ eight % 2 = 0 /\ eight > 2
  <2> HIDE DEF four
  <2> QED
    BY <1>3, EvenSquare
<1>5. /\ n = 1 => Power(n) = Byte
      /\ n = 2 => Power(n) = two
      /\ n = 4 => Power(n) = four
      /\ n = 8 => Power(n) = eight
  BY DEF Power
<1> HIDE DEF two, four, eight
<1> QED
  BY <1>1, <1>2, <1>3, <1>4, <1>5

\* Half of an even number, as an integer of its bytes is cut in two halves.
LEMMA Halves ==
  ASSUME NEW p \in Nat \ {0}, p % 2 = 0
  PROVE  p \div 2 \in Nat \ {0} /\ p = (p \div 2) + (p \div 2)
OBVIOUS

\* What a number of so many bytes is read as is an integer.
LEMMA SignedIsInt ==
  ASSUME NEW b \in {1, 2, 4, 8}, NEW n \in Int
  PROVE  Signed(n % Power(b), b) \in Int
<1>1. Power(b) \in Nat \ {0}
  BY PowerEven
<1>2. n % Power(b) \in Int
  BY <1>1
<1> QED
  BY <1>1, <1>2 DEF Signed

\* A value within the limits of its two or more bytes is read as itself from them, whatever
\* follows them: the value is its remainder, or that less than the power.
LEMMA SignedOfHeld ==
  ASSUME NEW b \in {2, 4, 8}, NEW n \in Limits(b), NEW behind \in Nat
  PROVE  Signed(((n % Power(b)) + behind * Power(b)) % Power(b), b) = n
<1> DEFINE p == Power(b)
           r == IF n >= 0 THEN n ELSE n + p
<1> HIDE DEF p
<1>1. p \in Nat \ {0} /\ p % 2 = 0 /\ p > 2
  BY PowerEven DEF p
<1>2. p \div 2 \in Nat \ {0, 1} /\ p = (p \div 2) + (p \div 2)
  BY <1>1, Halves
<1>3. n \in Int /\ -(p \div 2) <= n /\ n <= (p \div 2) - 1
  <2>1. n \in {-(p \div 2), -1, 0, 1, (p \div 2) - 1}
    BY DEF Limits, p
  <2> QED
    BY <1>2, <2>1
<1>4. r \in 0..p - 1 /\ n = (IF n >= 0 THEN 0 ELSE -1) * p + r
  BY <1>1, <1>2, <1>3
<1> HIDE DEF r
<1>5. n % p = r
  BY <1>1, <1>4, Remainder
<1>6. (r + behind * p) % p = r
  <2>1. (behind * p + r) % p = r
    BY <1>1, <1>4, Remainder
  <2>2. r + behind * p = behind * p + r
    BY <1>1, <1>4
  <2> QED
    BY <2>1, <2>2
<1>7. (IF r >= p \div 2 THEN r - p ELSE r) = n
  BY <1>1, <1>2, <1>3 DEF r
<1> QED
  BY <1>5, <1>6, <1>7 DEF Signed, p

\* The types of the same width are integral, and their class takes what the
\* driver writes.
LEMMA Widths ==
  /\ Integral => /\ Written[CType(column)] \in {1, 2, 4, 8}
                 /\ Taken[Class] \in {1, 2, 4, 8}
  /\ SameWidth => /\ Integral /\ column # "BIT"
                  /\ Taken[Class] = Written[CType(column)] /\ Taken[Class] # 1
<1>1. SameWidth => /\ CType(column) \in {"SHORT", "LONG"}
                   /\ CType(column) = "SHORT" => Class = "Int16"
                   /\ CType(column) = "LONG" => Class = "Int32"
  BY DEF SameWidth, CType, DapType, Class
<1> QED
  BY <1>1 DEF Integral, Written, Taken, SameWidth

\* What a variable has of a value the database holds.
LEMMA ConvertedHeld ==
  ASSUME NEW n \in Held, NEW behind \in 0..Byte - 1
  PROVE  /\ n \in Int /\ Converted(n, behind) \in Int
         /\ SameWidth => Converted(n, behind) = n
<1>1. behind \in Nat
  BY CastAssumption
<1>2. CASE ~Integral
  BY <1>2, Widths DEF Held, Converted
<1>3. CASE Integral
  <2> DEFINE w == Written[CType(column)]
             t == Taken[Class]
  <2>1. w \in {1, 2, 4, 8} /\ t \in {1, 2, 4, 8}
    BY <1>3, Widths
  <2>2. Converted(n, behind)
          = Signed(((n % Power(w)) + behind * Power(w)) % Power(t), t)
    BY <1>3 DEF Converted
  <2>3. Held = IF column = "BIT" THEN {0, 1} ELSE Limits(w)
    BY <1>3 DEF Held
  <2>4. SameWidth => w = t /\ t # 1 /\ column # "BIT"
    BY Widths
  <2> HIDE DEF w, t
  <2>5. Power(w) \in Nat \ {0} /\ Power(w) % 2 = 0
    BY <2>1, PowerEven
  <2>6. Power(w) \div 2 \in Int
    BY <2>5, Halves
  <2>7. n \in Int
    BY <2>3, <2>6, <2>5 DEF Limits
  <2>8. (n % Power(w)) + behind * Power(w) \in Int
    BY <1>1, <2>5, <2>7
  <2>9. Converted(n, behind) \in Int
    BY <2>1, <2>2, <2>8, SignedIsInt
  <2>10. ASSUME SameWidth PROVE Converted(n, behind) = n
    <3>1. w = t /\ t # 1 /\ n \in Limits(w)
      BY <2>3, <2>4, <2>10
    <3> QED
      BY <1>1, <2>1, <2>2, <3>1, SignedOfHeld
  <2> QED
    BY <2>7, <2>9, <2>10
<1> QED
  BY <1>2, <1>3

LEMMA InitValues == Init => ValueInv
BY DEF Init, ValueInv, Values

\* Only read() takes a value; copies have that of the variable they copy.
LEMMA NextValues == CastInv /\ ValueInv /\ [Next]_vars => ValueInv'
<1> SUFFICES ASSUME CastInv, ValueInv, [Next]_vars PROVE ValueInv'
  OBVIOUS
<1>1. live \subseteq Variables
  BY DEF CastInv, TypeInv
<1>2. CASE Create
  <2>1. /\ column' = column /\ readP' = readP /\ given' = given /\ got' = got
        /\ stage = "type" /\ readP = {}
    BY <1>2 DEF Create, CastInv, StartInv, ValueInv
  <2> QED
    BY <2>1 DEF ValueInv, SameWidth
<1>3. ASSUME NEW v \in Variables, Read(v) PROVE ValueInv'
  <2>1. PICK n \in Held, behind \in 0..Byte - 1 :
          /\ given' = [given EXCEPT ![v] = n]
          /\ got' = [got EXCEPT ![v] = Converted(n, behind)]
    BY <1>3 DEF Read
  <2>2. /\ column' = column /\ live' = live /\ v \in live
        /\ readP' = readP \cup {v}
    BY <1>3 DEF Read
  <2>3. /\ n \in Int /\ Converted(n, behind) \in Int
        /\ SameWidth => Converted(n, behind) = n
    BY ConvertedHeld
  <2> QED
    BY <1>1, <2>1, <2>2, <2>3 DEF ValueInv, SameWidth, Values
<1>4. ASSUME NEW v \in Variables, ReadFails(v) PROVE ValueInv'
  BY <1>4 DEF ReadFails, ValueInv, SameWidth
<1>5. ASSUME NEW v \in Variables, NextRow(v) PROVE ValueInv'
  BY <1>5 DEF NextRow, ValueInv, SameWidth
<1>6. ASSUME NEW v \in Variables, Destroy(v) PROVE ValueInv'
  <2>1. /\ column' = column /\ live' = live \ {v} /\ readP' = readP \ {v}
        /\ given' = [given EXCEPT ![v] = Nothing]
        /\ got' = [got EXCEPT ![v] = Nothing]
    BY <1>6 DEF Destroy
  <2> QED
    BY <1>1, <2>1 DEF ValueInv, SameWidth, Values
<1>7. ASSUME NEW v \in Variables, NEW w \in Variables, Duplicate(v, w)
      PROVE  ValueInv'
  <2>1. /\ column' = column /\ live' = live \cup {w} /\ v \in live /\ w \notin live
        /\ readP' = IF v \in readP THEN readP \cup {w} ELSE readP
        /\ given' = [given EXCEPT ![w] = given[v]]
        /\ got' = [got EXCEPT ![w] = got[v]]
    BY <1>7 DEF Duplicate
  <2>2. /\ given \in [Variables -> Values] /\ got \in [Variables -> Values]
        /\ given' \in [Variables -> Values] /\ got' \in [Variables -> Values]
    BY <2>1 DEF ValueInv
  <2>3. \A u \in Variables : /\ given'[u] = IF u = w THEN given[v] ELSE given[u]
                             /\ got'[u] = IF u = w THEN got[v] ELSE got[u]
    BY <2>1, <2>2
  <2>4. readP' \subseteq live'
    BY <2>1 DEF ValueInv
  <2>5. \A u \in readP' : got'[u] \in Int
    BY <1>1, <2>1, <2>3 DEF ValueInv
  <2>6. SameWidth' => \A u \in Variables : got'[u] = given'[u]
    BY <2>1, <2>3 DEF ValueInv, SameWidth
  <2> QED
    BY <2>1, <2>2, <2>4, <2>5, <2>6 DEF ValueInv
<1>8. CASE UNCHANGED vars
  BY <1>8 DEF vars, ValueInv, SameWidth
<1> QED
  BY <1>2, <1>3, <1>4, <1>5, <1>6, <1>7, <1>8 DEF Next

LEMMA SpecValues == Spec => [](CastInv /\ ValueInv)
BY InitInv, InitValues, NextInv, NextValues, PTL DEF Spec

-----------------------------------------------------------------------------
\* A variable that does not exist holds nothing, one that is read has a value,
\* and what is pointed at is the buffer or a string that is there, wherever a
\* read has thrown (SQLObjectAction).
THEOREM CastTypeCorrect == Spec => []CastTypeOK
<1>1. CastInv /\ ValueInv => CastTypeOK
  <2> SUFFICES ASSUME CastInv, ValueInv PROVE CastTypeOK
    OBVIOUS
  <2>1. /\ readP \subseteq live /\ live \subseteq Variables /\ heap \subseteq Blocks
        /\ \A v \in Variables : v \notin live => val[v] = Null
    BY StoreFields DEF CastInv, TypeInv, ValueInv, StoreType
  <2>2. \A v \in readP : got[v] # Nothing
    BY CastAssumption DEF ValueInv
  <2>3. \A v \in Variables :
          val[v] \in {Null} \cup (IF Reuse THEN {Buffer} ELSE heap)
    <3>1. CASE Reuse
      BY <3>1, StoreFields DEF CastInv, IdleInv, Borrowed
    <3>2. CASE ~Reuse /\ stage # "failed"
      BY <3>2 DEF CastInv, IdleInv
    <3>3. CASE ~Reuse /\ stage = "failed"
      <4>1. PICK o \in live : HeldBy(Store, o)
        BY <3>3 DEF CastInv, IdleInv
      <4> QED
        BY <3>3, <4>1, StoreFields DEF HeldBy
    <3> QED
      BY <3>1, <3>2, <3>3
  <2> QED
    BY <2>1, <2>2, <2>3 DEF CastTypeOK
<1> QED
  BY <1>1, SpecValues, PTL

\* Integers of the columns whose class takes the bytes the driver writes arrive
\* as they are held, at both limits, below 0 and in copies, whatever the buffer
\* has behind them and for any base of a byte (val2buf, getCType).
THEOREM IntegersArriveAlways == Spec => []IntegersArrive
<1>1. CastInv /\ ValueInv => IntegersArrive
  BY DEF CastInv, TypeInv, ValueInv, SameWidth, IntegersArrive
<1> QED
  BY <1>1, SpecValues, PTL
=============================================================================
