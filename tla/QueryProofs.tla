----------------------------- MODULE QueryProofs -----------------------------
(***************************************************************************)
(* Proofs about QueryBuild, for any sections, requests and maps of         *)
(* comparators: what the sets hold, what the SELECT statement is made of,  *)
(* its columns, and when the COUNT agrees with it.                         *)
(***************************************************************************)
EXTENDS QueryBuild, FiniteSetTheorems, FunctionTheorems, SequenceTheorems, TLAPS

-----------------------------------------------------------------------------
(* Sequences with an element more or less.                                 *)

LEMMA InsertAtIs ==
  ASSUME NEW S, NEW s \in Seq(S), NEW e \in S, NEW p \in 1..Len(s) + 1
  PROVE  /\ InsertAt(s, p, e) \in Seq(S)
         /\ Len(InsertAt(s, p, e)) = Len(s) + 1
         /\ \A i \in 1..p - 1 : InsertAt(s, p, e)[i] = s[i]
         /\ InsertAt(s, p, e)[p] = e
         /\ \A i \in p + 1..Len(s) + 1 : InsertAt(s, p, e)[i] = s[i - 1]
<1> DEFINE a == SubSeq(s, 1, p - 1)
           b == SubSeq(s, p, Len(s))
<1>1. /\ a \in Seq(S) /\ Len(a) = p - 1
      /\ \A i \in 1..p - 1 : a[i] = s[i]
  BY SubSeqProperties
<1>2. /\ b \in Seq(S) /\ Len(b) = Len(s) + 1 - p
      /\ \A i \in 1..Len(s) + 1 - p : b[i] = s[p + i - 1]
  BY SubSeqProperties
<1>3. <<e>> \in Seq(S) /\ Len(<<e>>) = 1 /\ <<e>>[1] = e
  OBVIOUS
<1> HIDE DEF a, b
<1>4. /\ a \o <<e>> \in Seq(S) /\ Len(a \o <<e>>) = p
      /\ \A i \in 1..p : (a \o <<e>>)[i] = IF i < p THEN s[i] ELSE e
  BY <1>1, <1>3, ConcatProperties
<1>5. /\ (a \o <<e>>) \o b \in Seq(S)
      /\ Len((a \o <<e>>) \o b) = Len(s) + 1
      /\ \A i \in 1..Len(s) + 1 : ((a \o <<e>>) \o b)[i] =
           IF i <= p THEN (a \o <<e>>)[i] ELSE b[i - p]
  <2> DEFINE c == a \o <<e>>
  <2>1. c \in Seq(S) /\ Len(c) = p
    BY <1>4
  <2> HIDE DEF c
  <2>2. /\ c \o b \in Seq(S) /\ Len(c \o b) = Len(c) + Len(b)
        /\ \A i \in 1..Len(c) + Len(b) :
             (c \o b)[i] = IF i <= Len(c) THEN c[i] ELSE b[i - Len(c)]
    BY <1>2, <2>1, ConcatProperties
  <2>3. Len(c) + Len(b) = Len(s) + 1
    BY <1>2, <2>1
  <2> QED
    BY <2>1, <2>2, <2>3 DEF c
<1>6. InsertAt(s, p, e) = (a \o <<e>>) \o b
  BY DEF InsertAt, a, b
<1> DEFINE r == (a \o <<e>>) \o b
<1>7. r \in Seq(S) /\ Len(r) = Len(s) + 1
  BY <1>5
<1>8. ASSUME NEW i \in 1..p - 1 PROVE r[i] = s[i]
  BY <1>4, <1>5
<1>9. r[p] = e
  BY <1>4, <1>5
<1>10. ASSUME NEW i \in p + 1..Len(s) + 1 PROVE r[i] = s[i - 1]
  <2>1. r[i] = b[i - p] /\ i - p \in 1..Len(s) + 1 - p
    BY <1>5
  <2>2. p + (i - p) - 1 = i - 1
    OBVIOUS
  <2>3. b[i - p] = s[p + (i - p) - 1]
    BY <1>2, <2>1
  <2> QED
    BY <2>1, <2>2, <2>3
<1> HIDE DEF r
<1>11. InsertAt(s, p, e) = r
  BY <1>6 DEF r
<1> QED
  BY <1>7, <1>8, <1>9, <1>10, <1>11

LEMMA RemoveAtIs ==
  ASSUME NEW S, NEW s \in Seq(S), NEW i \in 1..Len(s)
  PROVE  /\ RemoveAt(s, i) \in Seq(S)
         /\ Len(RemoveAt(s, i)) = Len(s) - 1
         /\ \A j \in 1..Len(s) - 1 :
              RemoveAt(s, i)[j] = IF j < i THEN s[j] ELSE s[j + 1]
<1> DEFINE a == SubSeq(s, 1, i - 1)
           b == SubSeq(s, i + 1, Len(s))
<1>1. /\ a \in Seq(S) /\ Len(a) = i - 1
      /\ \A j \in 1..i - 1 : a[j] = s[j]
  BY SubSeqProperties
<1>2. /\ b \in Seq(S) /\ Len(b) = Len(s) - i
      /\ \A j \in 1..Len(s) - i : b[j] = s[i + j]
  BY SubSeqProperties
<1> HIDE DEF a, b
<1>3. /\ a \o b \in Seq(S) /\ Len(a \o b) = Len(s) - 1
      /\ \A j \in 1..Len(s) - 1 : (a \o b)[j] =
           IF j <= i - 1 THEN a[j] ELSE b[j - (i - 1)]
  <2>1. /\ a \o b \in Seq(S) /\ Len(a \o b) = Len(a) + Len(b)
        /\ \A j \in 1..Len(a) + Len(b) :
             (a \o b)[j] = IF j <= Len(a) THEN a[j] ELSE b[j - Len(a)]
    BY <1>1, <1>2, ConcatProperties
  <2>2. Len(a) = i - 1 /\ Len(a) + Len(b) = Len(s) - 1
    BY <1>1, <1>2
  <2> QED
    BY <2>1, <2>2
<1>4. RemoveAt(s, i) = a \o b
  BY DEF RemoveAt, a, b
<1>5. ASSUME NEW j \in 1..Len(s) - 1
      PROVE  (a \o b)[j] = IF j < i THEN s[j] ELSE s[j + 1]
  <2>1. CASE j < i
    BY <1>1, <1>3, <2>1
  <2>2. CASE ~(j < i)
    <3> DEFINE k == j - (i - 1)
    <3>1. (a \o b)[j] = b[k]
      BY <1>3, <2>2
    <3>2. k \in 1..Len(s) - i /\ i + k = j + 1
      BY <2>2
    <3>3. b[k] = s[i + k]
      BY <1>2, <3>2
    <3> HIDE DEF k
    <3> QED
      BY <2>2, <3>1, <3>2, <3>3
  <2> QED
    BY <2>1, <2>2
<1> QED
  BY <1>3, <1>4, <1>5

\* What was removed, inserted again where it was.
LEMMA RemovedAndInserted ==
  ASSUME NEW S, NEW s \in Seq(S), NEW i \in 1..Len(s)
  PROVE  InsertAt(RemoveAt(s, i), i, s[i]) = s
<1> DEFINE r == RemoveAt(s, i)
           e == s[i]
           u == InsertAt(r, i, e)
<1>1. /\ r \in Seq(S) /\ Len(r) = Len(s) - 1 /\ e \in S
      /\ \A j \in 1..Len(s) - 1 : r[j] = IF j < i THEN s[j] ELSE s[j + 1]
  BY RemoveAtIs, ElementOfSeq
<1> HIDE DEF r, e
<1>2. i \in 1..Len(r) + 1 /\ Len(r) + 1 = Len(s)
  BY <1>1
<1>3. /\ u \in Seq(S) /\ Len(u) = Len(r) + 1
      /\ \A j \in 1..i - 1 : u[j] = r[j]
      /\ u[i] = e
      /\ \A j \in i + 1..Len(r) + 1 : u[j] = r[j - 1]
  BY <1>1, <1>2, InsertAtIs
<1> HIDE DEF u
<1>4. ASSUME NEW j \in 1..Len(s) PROVE u[j] = s[j]
  <2>1. CASE j < i
    BY <1>1, <1>3, <2>1
  <2>2. CASE j = i
    BY <1>3, <2>2 DEF e
  <2>3. CASE j > i
    <3>1. j - 1 \in 1..Len(s) - 1 /\ ~(j - 1 < i) /\ (j - 1) + 1 = j
      BY <2>3
    <3>2. u[j] = r[j - 1]
      BY <1>2, <1>3, <2>3
    <3>3. r[j - 1] = s[(j - 1) + 1]
      BY <1>1, <3>1
    <3> QED
      BY <3>1, <3>2, <3>3
  <2> QED
    BY <2>1, <2>2, <2>3
<1>5. Len(u) = Len(s)
  BY <1>2, <1>3
<1>6. u = s
  BY <1>3, <1>4, <1>5, SeqEqual
<1> QED
  BY <1>6 DEF u, r, e

\* The first elements of a sequence, with the one after them.
LEMMA OneMore ==
  ASSUME NEW S, NEW t \in Seq(S), NEW n \in 0..Len(t) - 1
  PROVE  /\ SubSeq(t, 1, n) \in Seq(S) /\ Len(SubSeq(t, 1, n)) = n
         /\ SubSeq(t, 1, n + 1) = InsertAt(SubSeq(t, 1, n), n + 1, t[n + 1])
<1> DEFINE v == SubSeq(t, 1, n)
           w == SubSeq(t, 1, n + 1)
           e == t[n + 1]
           u == InsertAt(v, n + 1, e)
<1>1. v \in Seq(S) /\ Len(v) = n /\ \A i \in 1..n : v[i] = t[i]
  BY SubSeqProperties
<1>2. w \in Seq(S) /\ Len(w) = n + 1 /\ \A i \in 1..n + 1 : w[i] = t[i]
  BY SubSeqProperties
<1>3. e \in S
  BY ElementOfSeq
<1> HIDE DEF v, w
<1>4. n + 1 \in 1..Len(v) + 1 /\ Len(v) + 1 = n + 1
  BY <1>1
<1> DEFINE p == n + 1
<1> HIDE DEF e, p
<1>5. /\ InsertAt(v, p, e) \in Seq(S) /\ Len(InsertAt(v, p, e)) = Len(v) + 1
      /\ \A i \in 1..p - 1 : InsertAt(v, p, e)[i] = v[i]
      /\ InsertAt(v, p, e)[p] = e
  BY <1>1, <1>3, <1>4, InsertAtIs DEF p
<1>6. /\ u \in Seq(S) /\ Len(u) = n + 1
      /\ \A i \in 1..n : u[i] = v[i]
      /\ u[n + 1] = e
  BY <1>4, <1>5 DEF p
<1> HIDE DEF u
<1>7. ASSUME NEW i \in 1..n + 1 PROVE w[i] = u[i]
  BY <1>1, <1>2, <1>6 DEF e
<1>8. w = u
  BY <1>2, <1>6, <1>7, SeqEqual
<1> QED
  BY <1>1, <1>8 DEF u, v, w, e

-----------------------------------------------------------------------------
(* How often a constraint is there.                                        *)

LEMMA PlacesFinite ==
  ASSUME NEW S, NEW s \in Seq(S), NEW C
  PROVE  /\ Places(s, C) \subseteq 1..Len(s)
         /\ IsFiniteSet(Places(s, C))
         /\ Cardinality(Places(s, C)) \in Nat
         /\ Cardinality(Places(s, C)) <= Len(s)
<1>1. Len(s) \in Nat /\ DOMAIN s = 1..Len(s)
  BY LenProperties
<1>2. Places(s, C) \subseteq 1..Len(s)
  BY <1>1 DEF Places
<1>3. IsFiniteSet(1..Len(s)) /\ Cardinality(1..Len(s)) = Len(s)
  BY <1>1, FS_Interval
<1>4. IsFiniteSet(Places(s, C)) /\ Cardinality(Places(s, C)) <= Len(s)
  BY <1>2, <1>3, FS_Subset
<1> QED
  BY <1>2, <1>4, FS_CardinalityType

\* Where what stood at i is after an insertion at p.
Shift(i, p) == IF i < p THEN i ELSE i + 1

LEMMA PlacesInserted ==
  ASSUME NEW S, NEW s \in Seq(S), NEW e \in S, NEW p \in 1..Len(s) + 1, NEW C
  PROVE  Places(InsertAt(s, p, e), C) =
           {Shift(i, p) : i \in Places(s, C)}
             \cup (IF Base(e) \in C THEN {p} ELSE {})
<1> DEFINE u == InsertAt(s, p, e)
<1>1. /\ u \in Seq(S) /\ Len(u) = Len(s) + 1
      /\ \A i \in 1..p - 1 : u[i] = s[i]
      /\ u[p] = e
      /\ \A i \in p + 1..Len(s) + 1 : u[i] = s[i - 1]
  BY InsertAtIs
<1> HIDE DEF u
<1>2. DOMAIN s = 1..Len(s) /\ DOMAIN u = 1..Len(s) + 1 /\ Len(s) \in Nat
  BY <1>1, LenProperties
<1>3. ASSUME NEW i \in Places(s, C)
      PROVE  Shift(i, p) \in Places(u, C) /\ Shift(i, p) # p
  <2>1. i \in 1..Len(s) /\ Base(s[i]) \in C
    BY <1>2 DEF Places
  <2>2. CASE i < p
    <3>1. u[i] = s[i] /\ Shift(i, p) = i /\ i \in DOMAIN u
      BY <1>1, <1>2, <2>1, <2>2 DEF Shift
    <3> QED
      BY <2>1, <2>2, <3>1 DEF Places
  <2>3. CASE ~(i < p)
    <3> DEFINE k == i + 1
    <3>1. k \in p + 1..Len(s) + 1 /\ k - 1 = i /\ Shift(i, p) = k /\ k # p
      BY <2>1, <2>3 DEF Shift
    <3> HIDE DEF k
    <3>2. u[k] = s[i] /\ k \in DOMAIN u
      BY <1>1, <1>2, <3>1
    <3> QED
      BY <2>1, <3>1, <3>2 DEF Places
  <2> QED
    BY <2>2, <2>3
<1>4. p \in Places(u, C) <=> Base(e) \in C
  BY <1>1, <1>2 DEF Places
<1>5. ASSUME NEW k \in Places(u, C), k # p
      PROVE  \E i \in Places(s, C) : k = Shift(i, p)
  <2>1. k \in 1..Len(s) + 1 /\ Base(u[k]) \in C
    BY <1>2 DEF Places
  <2>2. CASE k < p
    <3>1. u[k] = s[k] /\ Shift(k, p) = k /\ k \in 1..Len(s)
      BY <1>1, <2>1, <2>2, <1>2 DEF Shift
    <3>2. k \in Places(s, C)
      BY <1>2, <2>1, <3>1 DEF Places
    <3> QED
      BY <3>1, <3>2
  <2>3. CASE ~(k < p)
    <3> DEFINE i == k - 1
    <3>1. i \in 1..Len(s) /\ k = Shift(i, p) /\ k \in p + 1..Len(s) + 1
      BY <1>2, <1>5, <2>1, <2>3 DEF Shift
    <3>2. u[k] = s[i]
      BY <1>1, <3>1
    <3> HIDE DEF i
    <3>3. i \in Places(s, C)
      BY <1>2, <2>1, <3>1, <3>2 DEF Places
    <3> QED
      BY <3>1, <3>3
  <2> QED
    BY <2>2, <2>3
<1>6. Places(u, C) = {Shift(i, p) : i \in Places(s, C)}
                       \cup (IF Base(e) \in C THEN {p} ELSE {})
  BY <1>3, <1>4, <1>5
<1> QED
  BY <1>6 DEF u

\* An insertion counts for what is inserted.
LEMMA CountInserted ==
  ASSUME NEW S, NEW s \in Seq(S), NEW e \in S, NEW p \in 1..Len(s) + 1, NEW C
  PROVE  Cardinality(Places(InsertAt(s, p, e), C)) =
           Cardinality(Places(s, C)) + (IF Base(e) \in C THEN 1 ELSE 0)
<1> DEFINE A == Places(s, C)
           B == {Shift(i, p) : i \in A}
           f == [i \in A |-> Shift(i, p)]
<1>1. A \subseteq 1..Len(s) /\ IsFiniteSet(A) /\ Cardinality(A) \in Nat
  BY PlacesFinite
<1>2. Len(s) \in Nat
  BY LenProperties
<1>3. \A i \in A : i \in Int
  BY <1>1, <1>2
<1> HIDE DEF A
<1>4. f \in Bijection(A, B)
  <2>1. f \in [A -> B]
    OBVIOUS
  <2>2. ASSUME NEW i \in A, NEW j \in A, f[i] = f[j] PROVE i = j
    BY <1>3, <2>2 DEF Shift
  <2>3. \A k \in B : \E i \in A : f[i] = k
    OBVIOUS
  <2> QED
    BY <2>1, <2>2, <2>3, Fun_IsBij
<1>5. p \notin B
  BY <1>3 DEF Shift
<1> HIDE DEF f, B
<1>6. IsFiniteSet(B) /\ Cardinality(B) = Cardinality(A)
  <2>1. ExistsBijection(A, B)
    BY <1>4 DEF ExistsBijection
  <2> QED
    BY <1>1, <2>1, FS_Bijection
<1>7. Places(InsertAt(s, p, e), C) = B \cup (IF Base(e) \in C THEN {p} ELSE {})
  BY PlacesInserted DEF A, B
<1>8. CASE Base(e) \in C
  <2>1. Cardinality(B \cup {p}) = Cardinality(B) + 1
    BY <1>5, <1>6, FS_AddElement
  <2> QED
    BY <1>6, <1>7, <1>8, <2>1 DEF A
<1>9. CASE Base(e) \notin C
  <2>1. Places(InsertAt(s, p, e), C) = B
    BY <1>7, <1>9
  <2>2. Cardinality(Places(InsertAt(s, p, e), C)) = Cardinality(Places(s, C))
    BY <1>6, <2>1 DEF A
  <2>3. Cardinality(Places(s, C)) \in Nat
    BY <1>1 DEF A
  <2> QED
    BY <1>9, <2>2, <2>3
<1> QED
  BY <1>8, <1>9

-----------------------------------------------------------------------------
(* The sets.                                                               *)

\* A constraint of the section or the request, loaded or treated.
Members == {c \in Elements : Loaded(c) /\ Base(c) \in Universe}

Inputs == /\ section \in [select : Selects, constraints : Seq(Universe)]
          /\ request \in [asked : Asks, constraints : Seq(Universe)]
          /\ other \in Others

LEMMA UniverseIsMembers ==
  /\ Universe \subseteq Members
  /\ \A c \in Universe : Base(c) = c
<1>1. ASSUME NEW c \in Universe PROVE c \in Elements /\ c.subst = ""
  <2>1. c \in [attr : Nat, comp : ToSet(Comparators), val : Nat, subst : {""}]
    BY QueryAssumption
  <2> QED
    BY <2>1 DEF Elements
<1>2. ASSUME NEW c \in Elements, c.subst = "" PROVE Base(c) = c
  BY <1>2 DEF Base, Elements
<1> QED
  BY <1>1, <1>2 DEF Members, Loaded

\* Of two constraints one is less, or each is: a neighbour that is not less
\* than the key is never met, and the set takes the key.
LEMMA AlwaysInserted ==
  ASSUME NEW s \in Seq(Elements), NEW key \in Elements, NEW p \in Gaps(s, key)
  PROVE  /\ p \in 1..Len(s) + 1
         /\ Inserted(s, key, p) = InsertAt(s, p, key)
<1>1. p \in 1..Len(s) + 1 /\ (p > 1 => ~Less(key, s[p - 1]))
  BY DEF Gaps
<1>2. CASE p = 1
  BY <1>1, <1>2 DEF Inserted
<1>3. CASE p # 1
  <2>1. p - 1 \in 1..Len(s)
    BY <1>1, <1>3, LenProperties
  <2>2. s[p - 1] \in Elements
    BY <2>1, ElementOfSeq
  <2>3. ~Less(key, s[p - 1])
    BY <1>1, <1>3, LenProperties
  <2>4. key.attr \in Nat /\ s[p - 1].attr \in Nat
    BY <2>2 DEF Elements
  <2>5. Less(s[p - 1], key)
    BY <2>3, <2>4 DEF Less
  <2> QED
    BY <1>1, <2>5 DEF Inserted
<1> QED
  BY <1>2, <1>3

\* How often each of C is in s, and how long s is.
Holds(s, t) == /\ Len(s) = Len(t)
               /\ \A C : Cardinality(Places(s, C)) = Cardinality(Places(t, C))

\* A constraint loaded: the set holds the next prefix of what is loaded.
LEMMA LoadedOne ==
  ASSUME NEW s \in Seq(Members), NEW t \in Seq(Universe), NEW n \in 1..Len(t),
         Holds(s, SubSeq(t, 1, n - 1)), NEW p \in Gaps(s, t[n])
  PROVE  /\ Inserted(s, t[n], p) \in Seq(Members)
         /\ Holds(Inserted(s, t[n], p), SubSeq(t, 1, n))
<1> DEFINE e == t[n]
           v == SubSeq(t, 1, n - 1)
           w == SubSeq(t, 1, n)
           u == Inserted(s, e, p)
<1>1. e \in Universe /\ e \in Members /\ e \in Elements
  BY ElementOfSeq, UniverseIsMembers DEF Members
<1>2. s \in Seq(Elements)
  BY SeqMonotonic DEF Members
<1>3. p \in 1..Len(s) + 1 /\ u = InsertAt(s, p, e)
  BY <1>1, <1>2, AlwaysInserted
<1>4. v \in Seq(Universe) /\ Len(v) = n - 1 /\ w = InsertAt(v, n, e)
  <2> DEFINE m == n - 1
  <2>1. m \in 0..Len(t) - 1 /\ m + 1 = n
    BY LenProperties
  <2> HIDE DEF m
  <2>2. /\ SubSeq(t, 1, m) \in Seq(Universe) /\ Len(SubSeq(t, 1, m)) = m
        /\ SubSeq(t, 1, m + 1) = InsertAt(SubSeq(t, 1, m), m + 1, t[m + 1])
    BY <2>1, OneMore
  <2> QED
    BY <2>1, <2>2 DEF m
<1>5. Holds(s, v)
  OBVIOUS
<1> HIDE DEF e, v, w, u
<1>6. u \in Seq(Members) /\ Len(u) = Len(s) + 1
  BY <1>1, <1>3, InsertAtIs
<1>7. n \in 1..Len(v) + 1 /\ Len(v) + 1 = n
  BY <1>4
<1>8. Len(w) = Len(v) + 1
  BY <1>1, <1>4, <1>7, InsertAtIs
<1>9. ASSUME NEW C
      PROVE  Cardinality(Places(u, C)) = Cardinality(Places(w, C))
  <2>1. Cardinality(Places(InsertAt(s, p, e), C)) =
          Cardinality(Places(s, C)) + (IF Base(e) \in C THEN 1 ELSE 0)
    BY <1>1, <1>2, <1>3, CountInserted
  <2>2. Cardinality(Places(InsertAt(v, n, e), C)) =
          Cardinality(Places(v, C)) + (IF Base(e) \in C THEN 1 ELSE 0)
    BY <1>1, <1>4, <1>7, CountInserted
  <2> QED
    BY <1>3, <1>4, <1>5, <2>1, <2>2 DEF Holds
<1>10. Len(u) = Len(w)
  BY <1>5, <1>6, <1>8 DEF Holds
<1> QED
  BY <1>6, <1>9, <1>10 DEF Holds, u, w, e

\* setSubstitute() leaves what was loaded.
LEMMA SubstitutedIs ==
  ASSUME NEW c \in Elements, NeedsSubstitute(c)
  PROVE  /\ Substituted(c) \in Elements /\ Loaded(Substituted(c))
         /\ Base(Substituted(c)) = Base(c)
         /\ Substituted(c).comp = c.comp
         /\ Substituted(c).attr = c.attr
         /\ Substituted(c).val = c.val
         /\ Substituted(c).subst = Substitutes[c.comp]
<1>1. Substitutes[c.comp] \in {Substitutes[k] : k \in DOMAIN Substitutes}
  BY DEF NeedsSubstitute
<1> DEFINE x == Substitutes[c.comp]
<1> HIDE DEF x
<1>2. Substituted(c) = [c EXCEPT !.subst = x]
  BY DEF Substituted, x
<1>3. /\ Substituted(c) \in Elements /\ Base(Substituted(c)) = Base(c)
      /\ Substituted(c).comp = c.comp /\ Substituted(c).attr = c.attr
      /\ Substituted(c).val = c.val /\ Substituted(c).subst = x
  BY <1>1, <1>2 DEF Elements, Base, x
<1> QED
  BY <1>3 DEF x, Loaded, NeedsSubstitute

\* A turn of the loop of comparatorSubst() leaves the set holding what it held.
LEMMA ReplacedOne ==
  ASSUME NEW s \in Seq(Members), NEW i \in 1..Len(s),
         NeedsSubstitute(s[i]),
         NEW p \in Gaps(RemoveAt(s, i), Substituted(s[i]))
  PROVE  LET t == Inserted(RemoveAt(s, i), Substituted(s[i]), p)
         IN  /\ t = InsertAt(RemoveAt(s, i), p, Substituted(s[i]))
             /\ t \in Seq(Members) /\ Holds(t, s) /\ p \in 1..Len(s)
<1> DEFINE r == RemoveAt(s, i)
           e == s[i]
           d == Substituted(e)
           t == Inserted(r, d, p)
<1>1. e \in Members /\ e \in Elements
  BY ElementOfSeq DEF Members
<1>2. d \in Elements /\ d \in Members /\ Base(d) = Base(e)
  BY <1>1, SubstitutedIs DEF Members
<1>3. r \in Seq(Members) /\ Len(r) = Len(s) - 1
  BY RemoveAtIs
<1>4. s = InsertAt(r, i, e)
  BY RemovedAndInserted
<1> HIDE DEF e, d, r
<1>5. r \in Seq(Elements)
  BY <1>3, SeqMonotonic DEF Members
<1>6. p \in 1..Len(r) + 1 /\ t = InsertAt(r, p, d)
  BY <1>2, <1>5, AlwaysInserted DEF r, d, e
<1> HIDE DEF t
<1>7. t \in Seq(Members) /\ Len(t) = Len(r) + 1
  BY <1>2, <1>3, <1>6, InsertAtIs
<1>8. i \in 1..Len(r) + 1 /\ Len(r) + 1 = Len(s)
  BY <1>3, LenProperties
<1>9. ASSUME NEW C
      PROVE  Cardinality(Places(t, C)) = Cardinality(Places(s, C))
  <2>1. Cardinality(Places(InsertAt(r, p, d), C)) =
          Cardinality(Places(r, C)) + (IF Base(d) \in C THEN 1 ELSE 0)
    BY <1>2, <1>3, <1>6, CountInserted
  <2>2. Cardinality(Places(InsertAt(r, i, e), C)) =
          Cardinality(Places(r, C)) + (IF Base(e) \in C THEN 1 ELSE 0)
    BY <1>1, <1>3, <1>8, CountInserted
  <2> QED
    BY <1>2, <1>4, <1>6, <2>1, <2>2
<1>10. Len(t) = Len(s) /\ p \in 1..Len(s)
  BY <1>6, <1>7, <1>8
<1> QED
  BY <1>6, <1>7, <1>9, <1>10 DEF Holds, t, r, d, e

-----------------------------------------------------------------------------
(* What the sets hold: of what is being loaded the part before the index,  *)
(* then all of it.                                                         *)

Phases == {"load", "count", "own", "recount", "select", "ask", "fly", "done",
           "failed"}

Stated == section.constraints
Asked == request.constraints

KeptInv ==
  /\ Inputs /\ pc \in Phases /\ at \in Nat \ {0}
  /\ where \in Seq(Members)
  /\ pc \in {"ask", "fly", "done"} => inConstr \in Seq(Members)
  /\ pc = "load" => /\ at <= Len(Stated) + 1
                    /\ Holds(where, SubSeq(Stated, 1, at - 1))
  /\ pc # "load" => Holds(where, Stated)
  /\ pc = "ask" => /\ at <= Len(Asked) + 1
                   /\ Holds(inConstr, SubSeq(Asked, 1, at - 1))
  /\ pc \in {"fly", "done"} => Holds(inConstr, Asked)

LEMMA InputsType ==
  ASSUME Inputs
  PROVE  /\ Stated \in Seq(Universe) /\ Len(Stated) \in Nat
         /\ Asked \in Seq(Universe) /\ Len(Asked) \in Nat
<1>1. Stated \in Seq(Universe) /\ Asked \in Seq(Universe)
  BY DEF Inputs, Stated, Asked
<1> QED
  BY <1>1, LenProperties

\* No step changes the inputs, or what depends on them alone.
LEMMA SameInputs ==
  ASSUME UNCHANGED inputs
  PROVE  /\ Inputs' = Inputs /\ Members' = Members
         /\ Stated' = Stated /\ Asked' = Asked
<1>1. section' = section /\ request' = request /\ other' = other
  BY DEF inputs
<1>2. Members' = Members
  BY <1>1 DEF Members, Elements, Loaded, NeedsSubstitute, Substitutes
<1> QED
  BY <1>1, <1>2 DEF Inputs, Stated, Asked

LEMMA NothingHeld ==
  ASSUME NEW t
  PROVE  Holds(<<>>, SubSeq(t, 1, 0))
<1>1. SubSeq(t, 1, 0) = <<>>
  BY SubSeqEmpty
<1> QED
  BY <1>1 DEF Holds

LEMMA InitKept == Init => KeptInv
<1> SUFFICES ASSUME Init PROVE KeptInv
  OBVIOUS
<1>1. \A n \in Nat : BoundedSeq(Universe, n) \subseteq Seq(Universe)
  BY DEF BoundedSeq, SeqOf
<1>2. MaxWhere \in Nat /\ MaxRequested \in Nat
  BY QueryAssumption
<1>3. Inputs
  BY <1>1, <1>2 DEF Init, Inputs
<1>4. where = <<>> /\ where \in Seq(Members) /\ at = 1 /\ pc = "load"
  BY DEF Init
<1>5. Holds(where, SubSeq(Stated, 1, at - 1))
  BY <1>4, NothingHeld
<1> QED
  BY <1>3, <1>4, <1>5, InputsType DEF KeptInv, Phases

LEMMA LoadKept == KeptInv /\ LoadConstraint => KeptInv'
<1> SUFFICES ASSUME KeptInv, LoadConstraint PROVE KeptInv'
  OBVIOUS
<1> USE DEF Phases
<1>1. UNCHANGED <<inputs, pc>> /\ at' = at + 1 /\ at <= Len(Source) /\ Loading
  BY DEF LoadConstraint
<1>2. /\ Inputs' /\ Members' = Members /\ Stated' = Stated /\ Asked' = Asked
      /\ Inputs
  BY <1>1, SameInputs DEF KeptInv, inputs
<1>3. /\ Stated \in Seq(Universe) /\ Len(Stated) \in Nat
      /\ Asked \in Seq(Universe) /\ Len(Asked) \in Nat
  BY <1>2, InputsType
<1>4. CASE pc = "load"
  <2>1. Source = Stated /\ Set = where /\ OnWhere
    BY <1>4 DEF Source, Set, OnWhere, Stated
  <2>2. PICK p \in Gaps(where, Stated[at]) :
          where' = Inserted(where, Stated[at], p)
    BY <2>1 DEF LoadConstraint, SetOfLoop
  <2>3. at \in 1..Len(Stated) /\ Holds(where, SubSeq(Stated, 1, at - 1))
        /\ where \in Seq(Members)
    BY <1>1, <1>3, <1>4, <2>1 DEF KeptInv
  <2>4. where' \in Seq(Members) /\ Holds(where', SubSeq(Stated, 1, at))
    BY <1>3, <2>2, <2>3, LoadedOne
  <2>5. at' - 1 = at /\ at' \in Nat \ {0} /\ at' <= Len(Stated) + 1
    BY <1>1, <1>3, <2>3
  <2> QED
    BY <1>1, <1>2, <1>4, <2>4, <2>5 DEF KeptInv
<1>5. CASE pc = "ask"
  <2>1. Source = Asked /\ Set = inConstr /\ ~OnWhere
    BY <1>5 DEF Source, Set, OnWhere, Asked
  <2>2. PICK p \in Gaps(inConstr, Asked[at]) :
          inConstr' = Inserted(inConstr, Asked[at], p)
    BY <2>1 DEF LoadConstraint, SetOfLoop
  <2>3. at \in 1..Len(Asked) /\ Holds(inConstr, SubSeq(Asked, 1, at - 1))
        /\ inConstr \in Seq(Members)
    BY <1>1, <1>3, <1>5, <2>1 DEF KeptInv
  <2>4. inConstr' \in Seq(Members) /\ Holds(inConstr', SubSeq(Asked, 1, at))
    BY <1>3, <2>2, <2>3, LoadedOne
  <2>5. at' - 1 = at /\ at' \in Nat \ {0} /\ at' <= Len(Asked) + 1
    BY <1>1, <1>3, <2>3
  <2>6. where' = where
    BY <2>1 DEF LoadConstraint, SetOfLoop
  <2> QED
    BY <1>1, <1>2, <1>5, <2>4, <2>5, <2>6 DEF KeptInv
<1>6. CASE pc = "own"
  <2>1. where' = where
    BY <1>6 DEF LoadConstraint, SetOfLoop, OnWhere
  <2> QED
    BY <1>1, <1>2, <1>6, <2>1 DEF KeptInv
<1> QED
  BY <1>1, <1>4, <1>5, <1>6 DEF Loading

LEMMA EndLoadKept == KeptInv /\ EndLoad => KeptInv'
<1> SUFFICES ASSUME KeptInv, EndLoad PROVE KeptInv'
  OBVIOUS
<1> USE DEF Phases
<1>1. /\ UNCHANGED <<inputs, where, inConstr>> /\ at' = 1 /\ at > Len(Source)
      /\ pc \in {"load", "own", "ask"} /\ pc' = AfterLoad[pc]
  BY DEF EndLoad, Loading
<1>2. /\ Inputs' /\ Members' = Members /\ Stated' = Stated /\ Asked' = Asked
      /\ Inputs
  BY <1>1, SameInputs DEF KeptInv, inputs
<1>3. /\ Stated \in Seq(Universe) /\ Len(Stated) \in Nat
      /\ Asked \in Seq(Universe) /\ Len(Asked) \in Nat
      /\ SubSeq(Stated, 1, Len(Stated)) = Stated
      /\ SubSeq(Asked, 1, Len(Asked)) = Asked
  BY <1>2, InputsType, SubSeqFull
<1>4. CASE pc = "load"
  <2>1. pc' = "count"
    BY <1>1, <1>4 DEF AfterLoad
  <2>2. at - 1 = Len(Stated)
    BY <1>1, <1>3, <1>4 DEF KeptInv, Source, Stated
  <2>3. Holds(where, Stated)
    BY <1>3, <1>4, <2>2 DEF KeptInv
  <2> QED
    BY <1>1, <1>2, <2>1, <2>3 DEF KeptInv
<1>5. CASE pc = "ask"
  <2>1. pc' = "fly"
    BY <1>1, <1>5 DEF AfterLoad
  <2>2. at - 1 = Len(Asked)
    BY <1>1, <1>3, <1>5 DEF KeptInv, Source, Asked
  <2>3. Holds(inConstr, Asked)
    BY <1>3, <1>5, <2>2 DEF KeptInv
  <2> QED
    BY <1>1, <1>2, <1>5, <2>1, <2>3 DEF KeptInv
<1>6. CASE pc = "own"
  <2>1. pc' = "recount"
    BY <1>1, <1>6 DEF AfterLoad
  <2> QED
    BY <1>1, <1>2, <1>6, <2>1 DEF KeptInv
<1> QED
  BY <1>1, <1>4, <1>5, <1>6

\* One set holds what another does that holds what a third does.
LEMMA HoldsAlong ==
  ASSUME NEW s, NEW t, NEW u, Holds(s, t), Holds(t, u)
  PROVE  Holds(s, u)
  BY DEF Holds

LEMMA ReplaceKept == KeptInv /\ Replace => KeptInv'
<1> SUFFICES ASSUME KeptInv, Replace PROVE KeptInv'
  OBVIOUS
<1> USE DEF Phases
<1>1. /\ UNCHANGED <<inputs, pc>> /\ NeedsSubstitute(Set[at])
      /\ pc \in {"count", "recount", "select", "fly"} /\ at <= Len(Set)
  BY DEF Replace, InLoop
<1>2. /\ Inputs' /\ Members' = Members /\ Stated' = Stated /\ Asked' = Asked
  BY <1>1, SameInputs DEF KeptInv, inputs
<1>3. PICK p \in Gaps(RemoveAt(Set, at), Substituted(Set[at])) :
        /\ SetOfLoop(Inserted(RemoveAt(Set, at), Substituted(Set[at]), p))
        /\ at' \in Increments(at, p)
  BY DEF Replace
<1>4. at' \in Nat \ {0}
  <2>1. at \in Nat /\ p \in Nat
    BY <1>3 DEF Gaps, KeptInv
  <2> QED
    BY <1>3, <2>1 DEF Increments, KeptInv
<1>5. CASE pc \in {"count", "select"}
  <2>1. Set = where /\ inConstr' = inConstr
        /\ where' = Inserted(RemoveAt(where, at), Substituted(where[at]), p)
    BY <1>3, <1>5 DEF Set, OnWhere, SetOfLoop
  <2>2. where \in Seq(Members) /\ at \in 1..Len(where) /\ Holds(where, Stated)
    BY <1>1, <1>5, <2>1, LenProperties DEF KeptInv
  <2>3. where' \in Seq(Members) /\ Holds(where', where)
    BY <1>1, <1>3, <2>1, <2>2, ReplacedOne
  <2>4. Holds(where', Stated)
    BY <2>2, <2>3, HoldsAlong
  <2> QED
    BY <1>1, <1>2, <1>4, <1>5, <2>3, <2>4 DEF KeptInv
<1>6. CASE pc = "fly"
  <2>1. Set = inConstr /\ where' = where
        /\ inConstr' =
             Inserted(RemoveAt(inConstr, at), Substituted(inConstr[at]), p)
    BY <1>3, <1>6 DEF Set, OnWhere, SetOfLoop
  <2>2. inConstr \in Seq(Members) /\ at \in 1..Len(inConstr)
        /\ Holds(inConstr, Asked)
    BY <1>1, <1>6, <2>1, LenProperties DEF KeptInv
  <2>3. inConstr' \in Seq(Members) /\ Holds(inConstr', inConstr)
    BY <1>1, <1>3, <2>1, <2>2, ReplacedOne
  <2>4. Holds(inConstr', Asked)
    BY <2>2, <2>3, HoldsAlong
  <2> QED
    BY <1>1, <1>2, <1>4, <1>6, <2>1, <2>3, <2>4 DEF KeptInv
<1>7. CASE pc = "recount"
  <2>1. where' = where
    BY <1>3, <1>7 DEF SetOfLoop, OnWhere
  <2> QED
    BY <1>1, <1>2, <1>4, <1>7, <2>1 DEF KeptInv
<1> QED
  BY <1>1, <1>5, <1>6, <1>7

LEMMA StepKept == KeptInv /\ [Next]_vars => KeptInv'
<1> SUFFICES ASSUME KeptInv, [Next]_vars PROVE KeptInv'
  OBVIOUS
<1> USE DEF Phases
<1>1. CASE UNCHANGED vars
  <2>1. Inputs' /\ Members' = Members /\ Stated' = Stated /\ Asked' = Asked
    BY <1>1, SameInputs DEF KeptInv, vars, inputs
  <2> QED
    BY <1>1, <2>1 DEF KeptInv, vars
<1>2. ASSUME Next PROVE UNCHANGED inputs
  BY <1>2 DEF Next, Step, LoadConstraint, EndLoad, Pass, Replace, StartCount,
              EndCount, StartSelect, EndSelect, BreakDown
<1>3. ASSUME Next
      PROVE  /\ Inputs' /\ Members' = Members
             /\ Stated' = Stated /\ Asked' = Asked
  BY <1>2, <1>3, SameInputs DEF KeptInv
<1>4. CASE LoadConstraint
  BY <1>4, LoadKept
<1>5. CASE EndLoad
  BY <1>5, EndLoadKept
<1>6. CASE Pass
  BY <1>3, <1>6 DEF KeptInv, Pass, InLoop, Next, Step
<1>7. CASE Replace
  BY <1>7, ReplaceKept
<1>8. CASE StartCount
  BY <1>3, <1>8 DEF KeptInv, StartCount, Next, Step
<1>9. CASE EndCount
  BY <1>3, <1>9 DEF KeptInv, EndCount, Next, Step
<1>10. CASE StartSelect
  <2>1. pc' = "ask" /\ at' = 1 /\ inConstr' = <<>> /\ where' = where
        /\ pc = "select"
    BY <1>10 DEF StartSelect
  <2>2. Holds(inConstr', SubSeq(Asked, 1, at' - 1)) /\ Len(Asked) \in Nat
    BY <2>1, NothingHeld, InputsType DEF KeptInv
  <2>3. inConstr' \in Seq(Members)
    BY <2>1
  <2> QED
    BY <1>3, <1>10, <2>1, <2>2, <2>3 DEF KeptInv, Next, Step
<1>11. CASE EndSelect
  BY <1>3, <1>11 DEF KeptInv, EndSelect, Next, Step
<1>12. CASE BreakDown
  BY <1>3, <1>12 DEF KeptInv, BreakDown, InLoop, Next, Step
<1> QED
  BY <1>1, <1>4, <1>5, <1>6, <1>7, <1>8, <1>9, <1>10, <1>11, <1>12 DEF Next, Step

LEMMA AlwaysKept == Spec => []KeptInv
<1> QED
  BY InitKept, StepKept, PTL DEF Spec

\* The where set holds the section's constraints, and the set of the request
\* those of the request, each as often as it was stated, through all the
\* erasing and inserting of comparatorSubst() and with an operator< that is no
\* order.
THEOREM QueryConstraintsKept == Spec => []ConstraintsKept
<1>1. KeptInv => ConstraintsKept
  BY DEF KeptInv, ConstraintsKept, SameConstraints, Holds, Stated, Asked
<1> QED
  BY <1>1, AlwaysKept, PTL

-----------------------------------------------------------------------------
(* The text of the statements.                                             *)

\* The predicates with AND before each.
Each(predicates) == [i \in 1..2 * Len(predicates) |->
                       IF i % 2 = 1 THEN And ELSE predicates[i \div 2]]

LEMMA HalfOf ==
  ASSUME NEW i \in Nat
  PROVE  /\ i % 2 \in {0, 1}
         /\ i = 2 * (i \div 2) + (i % 2)
         /\ (i + 1) % 2 = 1 - (i % 2)
         /\ i % 2 = 1 => (i + 1) \div 2 = (i \div 2) + 1
         /\ i % 2 = 0 => (i + 1) \div 2 = i \div 2
         /\ i \div 2 \in Nat
  BY Z3

LEMMA EachIs ==
  ASSUME NEW T, And \in T, NEW q \in Seq(T)
  PROVE  /\ Each(q) \in Seq(T) /\ Len(Each(q)) = 2 * Len(q)
         /\ \A i \in 1..2 * Len(q) :
              Each(q)[i] = IF i % 2 = 1 THEN And ELSE q[i \div 2]
<1>1. Len(q) \in Nat
  BY LenProperties
<1>2. ASSUME NEW i \in 1..2 * Len(q)
      PROVE  (IF i % 2 = 1 THEN And ELSE q[i \div 2]) \in T
  <2>1. i \in Nat
    BY <1>1
  <2>2. i % 2 \in {0, 1} /\ i = 2 * (i \div 2) + (i % 2) /\ i \div 2 \in Nat
    BY <2>1, HalfOf
  <2>3. CASE i % 2 = 0
    <3>1. i \div 2 \in 1..Len(q)
      BY <1>1, <2>2, <2>3
    <3> QED
      BY <2>3, <3>1, ElementOfSeq
  <2>4. CASE i % 2 = 1
    BY <2>4
  <2> QED
    BY <2>2, <2>3, <2>4
<1>3. Each(q) \in [1..2 * Len(q) -> T]
  BY <1>2 DEF Each
<1>4. 2 * Len(q) \in Nat
  BY <1>1
<1>5. Each(q) \in Seq(T) /\ Len(Each(q)) = 2 * Len(q)
  <2> DEFINE n == 2 * Len(q)
             f == Each(q)
  <2>1. n \in Nat /\ f \in [1..n -> T]
    BY <1>3, <1>4
  <2> HIDE DEF n, f
  <2>2. f \in Seq(T) /\ Len(f) = n
    BY <2>1
  <2> QED
    BY <2>2 DEF n, f
<1> QED
  BY <1>5 DEF Each

\* A text that begins with its first predicate.
LEMMA JoinedIs ==
  ASSUME NEW T, And \in T, NEW q \in Seq(T)
  PROVE  /\ Joined(<<>>, q) \in Seq(T)
         /\ Len(Joined(<<>>, q)) = IF q = <<>> THEN 0 ELSE 2 * Len(q) - 1
         /\ \A i \in 1..Len(Joined(<<>>, q)) :
              Joined(<<>>, q)[i] = IF i % 2 = 0 THEN And ELSE q[(i + 1) \div 2]
<1> DEFINE e == Each(q)
           j == Joined(<<>>, q)
<1>1. /\ e \in Seq(T) /\ Len(e) = 2 * Len(q) /\ Len(q) \in Nat
      /\ \A i \in 1..2 * Len(q) : e[i] = IF i % 2 = 1 THEN And ELSE q[i \div 2]
  BY EachIs, LenProperties
<1>2. j = IF q # <<>> THEN Tail(e) ELSE <<>> \o e
  BY DEF Joined, Each
<1> HIDE DEF e, j
<1>3. CASE q = <<>>
  <2>1. Len(e) = 0
    BY <1>1, <1>3
  <2>2. e = <<>>
    BY <1>1, <2>1, EmptySeq
  <2>3. j = <<>>
    BY <1>2, <1>3, <2>2
  <2>4. j \in Seq(T) /\ Len(j) = 0
    BY <2>3
  <2>5. \A i \in 1..Len(j) :
          j[i] = IF i % 2 = 0 THEN And ELSE q[(i + 1) \div 2]
    BY <2>4
  <2> QED
    BY <1>3, <2>4, <2>5 DEF j
<1>4. CASE q # <<>>
  <2>1. Len(q) # 0
    BY <1>4, EmptySeq
  <2>2. e # <<>>
    BY <1>1, <2>1
  <2>3. /\ j \in Seq(T) /\ Len(j) = 2 * Len(q) - 1
        /\ \A i \in 1..Len(j) : j[i] = e[i + 1]
    <3>1. /\ Tail(e) \in Seq(T) /\ Len(Tail(e)) = Len(e) - 1
          /\ \A i \in 1..Len(Tail(e)) : Tail(e)[i] = e[i + 1]
      BY <1>1, <2>2, HeadTailProperties
    <3> QED
      BY <1>1, <1>2, <1>4, <3>1
  <2>4. ASSUME NEW i \in 1..Len(j)
        PROVE  j[i] = IF i % 2 = 0 THEN And ELSE q[(i + 1) \div 2]
    <3> DEFINE k == i + 1
    <3>1. k \in 1..2 * Len(q) /\ i \in Nat
      BY <1>1, <2>3
    <3>2. k % 2 = 1 - (i % 2) /\ i % 2 \in {0, 1}
      BY <3>1, HalfOf
    <3> HIDE DEF k
    <3>3. e[k] = IF k % 2 = 1 THEN And ELSE q[k \div 2]
      BY <1>1, <3>1
    <3>4. k % 2 = 1 <=> i % 2 = 0
      BY <3>2
    <3>5. j[i] = e[k]
      BY <2>3 DEF k
    <3> QED
      BY <3>3, <3>4, <3>5 DEF k
  <2> QED
    BY <1>4, <2>3, <2>4 DEF j
<1> QED
  BY <1>3, <1>4

\* The places before and after the end of the first of two such texts.
LEMMA PlacesBefore ==
  ASSUME NEW x \in Nat, NEW i \in Nat, i >= 1, i <= 2 * x - 1
  PROVE  i % 2 = 0 \/ (i % 2 = 1 /\ (i + 1) \div 2 \in 1..x)
<1> DEFINE h == i \div 2
           m == i % 2
           k == (i + 1) \div 2
<1>1. m \in {0, 1} /\ i = 2 * h + m /\ h \in Nat /\ (m = 1 => k = h + 1)
  BY HalfOf
<1> HIDE DEF h, m, k
<1>2. m = 0 \/ (m = 1 /\ k \in 1..x)
  BY <1>1
<1> QED
  BY <1>2 DEF m, k

LEMMA PlacesAfter ==
  ASSUME NEW x \in Nat, NEW y \in Nat, NEW i \in Nat, NEW d \in Nat,
         i = 2 * x - 1 + d, d >= 1, d <= 2 * y
  PROVE  \/ i % 2 = 0 /\ d % 2 = 1
         \/ /\ i % 2 = 1 /\ d % 2 = 0
            /\ d \div 2 = (i + 1) \div 2 - x
            /\ (i + 1) \div 2 \in x + 1..x + y
<1> DEFINE h == i \div 2
           m == i % 2
           k == (i + 1) \div 2
           g == d \div 2
           l == d % 2
<1>1. m \in {0, 1} /\ i = 2 * h + m /\ h \in Nat /\ (m = 1 => k = h + 1)
  BY HalfOf
<1>2. l \in {0, 1} /\ d = 2 * g + l /\ g \in Nat
  BY HalfOf
<1> HIDE DEF h, m, k, g, l
<1>3. \/ m = 0 /\ l = 1
      \/ m = 1 /\ l = 0 /\ g = k - x /\ k \in x + 1..x + y
  BY <1>1, <1>2
<1> QED
  BY <1>3 DEF m, k, g, l

\* What is appended to such a text goes on with the predicates.
LEMMA JoinedOn ==
  ASSUME NEW T, And \in T, NEW q \in Seq(T), NEW r \in Seq(T)
  PROVE  Joined(Joined(<<>>, q), r) = Joined(<<>>, q \o r)
<1> DEFINE j == Joined(<<>>, q)
           e == Each(r)
           o == q \o r
           b == Joined(<<>>, o)
<1>1. /\ j \in Seq(T)
      /\ Len(j) = IF q = <<>> THEN 0 ELSE 2 * Len(q) - 1
      /\ \A i \in 1..Len(j) :
           j[i] = IF i % 2 = 0 THEN And ELSE q[(i + 1) \div 2]
  BY JoinedIs
<1>2. o \in Seq(T) /\ Len(o) = Len(q) + Len(r)
      /\ \A i \in 1..Len(q) + Len(r) :
           o[i] = IF i <= Len(q) THEN q[i] ELSE r[i - Len(q)]
  BY ConcatProperties
<1>3. Len(q) \in Nat /\ Len(r) \in Nat
  BY LenProperties
<1>4. /\ e \in Seq(T) /\ Len(e) = 2 * Len(r)
      /\ \A i \in 1..2 * Len(r) : e[i] = IF i % 2 = 1 THEN And ELSE r[i \div 2]
  BY EachIs
<1>5. CASE q = <<>>
  <2>1. Joined(<<>>, q) = <<>> /\ q \o r = r
    BY <1>1, <1>5, EmptySeq, ConcatEmptySeq
  <2> QED
    BY <2>1
<1>6. CASE q # <<>>
  <2>1. Len(q) >= 1
    BY <1>3, <1>6, EmptySeq
  <2>2. j # <<>>
    BY <1>1, <1>6, <2>1, EmptySeq
  <2>3. Joined(j, r) = j \o e
    BY <2>2 DEF Joined, Each
  <2> HIDE DEF o
  <2>4. Len(o) >= 1 /\ Len(o) \in Nat /\ o # <<>>
    BY <1>2, <1>3, <2>1, EmptySeq
  <2>5. /\ b \in Seq(T) /\ Len(b) = 2 * Len(o) - 1
        /\ \A i \in 1..Len(b) :
             b[i] = IF i % 2 = 0 THEN And ELSE o[(i + 1) \div 2]
    BY <1>2, <2>4, JoinedIs
  <2> HIDE DEF j, e, b
  <2>6. Len(j) = 2 * Len(q) - 1 /\ Len(j) \in Nat
    BY <1>1, <1>3, <1>6, <2>1
  <2>7. j \o e \in Seq(T) /\ Len(j \o e) = Len(j) + Len(e)
        /\ \A i \in 1..Len(j) + Len(e) :
             (j \o e)[i] = IF i <= Len(j) THEN j[i] ELSE e[i - Len(j)]
    BY <1>1, <1>4, ConcatProperties
  <2>8. Len(j) + Len(e) = Len(b) /\ Len(b) = 2 * Len(q) + 2 * Len(r) - 1
    BY <1>2, <1>3, <1>4, <2>5, <2>6
  <2>9. ASSUME NEW i \in 1..Len(b) PROVE (j \o e)[i] = b[i]
    <3> DEFINE k == (i + 1) \div 2
               d == i - Len(j)
    <3>1. i \in Nat /\ i >= 1 /\ i <= 2 * Len(q) + 2 * Len(r) - 1
      BY <1>3, <2>8
    <3>2. b[i] = IF i % 2 = 0 THEN And ELSE o[k]
      BY <2>5
    <3>3. CASE i <= Len(j)
      <4>1. (j \o e)[i] = j[i]
        BY <2>7, <2>8, <3>3
      <4>2. i % 2 = 0 \/ (i % 2 = 1 /\ k \in 1..Len(q))
        BY <1>3, <2>6, <3>1, <3>3, PlacesBefore
      <4>3. j[i] = IF i % 2 = 0 THEN And ELSE q[k]
        BY <1>1, <2>6, <3>1, <3>3
      <4> HIDE DEF k
      <4>4. k \in 1..Len(q) => o[k] = q[k]
        BY <1>2, <1>3
      <4> QED
        BY <3>2, <4>1, <4>2, <4>3, <4>4
    <3>4. CASE ~(i <= Len(j))
      <4>1. (j \o e)[i] = e[d]
        BY <2>6, <2>7, <2>8, <3>4
      <4>2. d \in Nat /\ d >= 1 /\ d <= 2 * Len(r) /\ i = 2 * Len(q) - 1 + d
        BY <1>3, <2>6, <3>1, <3>4
      <4> HIDE DEF d
      <4>3. \/ i % 2 = 0 /\ d % 2 = 1
            \/ /\ i % 2 = 1 /\ d % 2 = 0
               /\ d \div 2 = k - Len(q)
               /\ k \in Len(q) + 1..Len(q) + Len(r)
        BY <1>3, <3>1, <4>2, PlacesAfter
      <4>4. e[d] = IF d % 2 = 1 THEN And ELSE r[d \div 2]
        BY <1>3, <1>4, <4>2
      <4> HIDE DEF k
      <4>5. ASSUME k \in Len(q) + 1..Len(q) + Len(r)
            PROVE  o[k] = r[k - Len(q)]
        <5>1. k \in 1..Len(q) + Len(r) /\ ~(k <= Len(q))
          BY <1>3, <4>5
        <5> QED
          BY <1>2, <5>1
      <4> QED
        BY <3>2, <4>1, <4>3, <4>4, <4>5
    <3> QED
      BY <3>3, <3>4
  <2>10. j \o e = b
    BY <2>5, <2>7, <2>8, <2>9, SeqEqual
  <2> QED
    BY <2>3, <2>10 DEF j, b, o
<1> QED
  BY <1>5, <1>6

\* A text that begins with its first predicate is well joined, and its
\* predicates are those it was made of.
LEMMA JoinedWell ==
  ASSUME NEW T, And \in T, NEW q \in Seq(T), \A i \in 1..Len(q) : q[i] # And
  PROVE  WellJoined(Joined(<<>>, q)) /\ Predicates(Joined(<<>>, q)) = q
<1> DEFINE j == Joined(<<>>, q)
           n == Len(q)
<1>1. n \in Nat /\ (q = <<>> <=> n = 0) /\ DOMAIN q = 1..n
  BY LenProperties, EmptySeq
<1>2. /\ j \in Seq(T) /\ Len(j) = (IF n = 0 THEN 0 ELSE 2 * n - 1)
      /\ \A i \in 1..Len(j) : j[i] = IF i % 2 = 0 THEN And ELSE q[(i + 1) \div 2]
  BY <1>1, JoinedIs
<1> HIDE DEF j, n
<1>3. DOMAIN j = 1..Len(j)
  BY <1>2, LenProperties
<1>4. \A i \in 1..n : q[i] # And
  BY DEF n
<1>5. ASSUME NEW i \in 1..Len(j)
      PROVE  i % 2 = 0 \/ (i % 2 = 1 /\ (i + 1) \div 2 \in 1..n)
  <2>1. i \in Nat /\ i >= 1 /\ i <= 2 * n - 1
    BY <1>1, <1>2
  <2> QED
    BY <1>1, <2>1, PlacesBefore
<1>6. WellJoined(j)
  <2>1. ASSUME j # <<>> PROVE Len(j) % 2 = 1
    <3>1. n # 0
      BY <1>2, <2>1, EmptySeq
    <3>2. Len(j) = 2 * n - 1 /\ n >= 1
      BY <1>1, <1>2, <3>1
    <3>3. (2 * n - 1) % 2 = 1
      BY <1>1, <3>2, Z3
    <3> QED
      BY <3>2, <3>3
  <2>2. ASSUME NEW i \in DOMAIN j PROVE (j[i] = And) <=> (i % 2 = 0)
    <3>1. j[i] = IF i % 2 = 0 THEN And ELSE q[(i + 1) \div 2]
      BY <1>2, <1>3
    <3>2. i % 2 = 0 \/ (i % 2 = 1 /\ (i + 1) \div 2 \in 1..n)
      BY <1>3, <1>5
    <3> DEFINE k == (i + 1) \div 2
    <3>3. k \in 1..n => q[k] # And
      BY <1>4
    <3> HIDE DEF k
    <3> QED
      BY <3>1, <3>2, <3>3 DEF k
  <2> QED
    BY <2>1, <2>2 DEF WellJoined
<1>7. (Len(j) + 1) \div 2 = n
  <2>1. CASE n = 0
    <3>1. (0 + 1) \div 2 = 0
      BY Z3
    <3> QED
      BY <1>2, <2>1, <3>1
  <2>2. CASE n # 0
    <3>1. (2 * n - 1 + 1) \div 2 = n
      BY <1>1, Z3
    <3> QED
      BY <1>1, <1>2, <2>2, <3>1
  <2> QED
    BY <2>1, <2>2
<1>8. ASSUME NEW i \in 1..n PROVE j[2 * i - 1] = q[i]
  <2> DEFINE k == 2 * i - 1
  <2>1. k \in 1..Len(j)
    BY <1>1, <1>2
  <2>2. k % 2 = 1 /\ (k + 1) \div 2 = i
    <3>1. i \in Nat /\ i >= 1
      BY <1>1
    <3> QED
      BY <3>1, Z3
  <2> HIDE DEF k
  <2>3. j[k] = IF k % 2 = 0 THEN And ELSE q[(k + 1) \div 2]
    BY <1>2, <2>1
  <2>4. j[k] = q[i]
    BY <2>2, <2>3
  <2> QED
    BY <2>4 DEF k
<1>9. Predicates(j) = [i \in 1..n |-> q[i]]
  BY <1>7, <1>8 DEF Predicates
<1>10. q = [i \in 1..n |-> q[i]]
  BY LenProperties DEF n
<1> QED
  BY <1>6, <1>9, <1>10 DEF j

-----------------------------------------------------------------------------
(* What the SELECT statement is made of.                                   *)

Tokens == {And} \cup {Predicate(c) : c \in Members}
                \cup {ByName(c) : c \in Members}

\* A predicate is no AND: it has a comparator.
LEMMA NoAnd ==
  ASSUME NEW c \in Members
  PROVE  Written(c) # "" /\ Predicate(c) # And /\ ByName(c) # And
<1>1. c.comp # ""
  <2>1. c.comp \in ToSet(Comparators)
    BY DEF Members, Elements
  <2>2. DOMAIN Comparators = 1..8
    BY DEF Comparators
  <2>3. PICK i \in 1..8 : c.comp = Comparators[i]
    BY <2>1, <2>2 DEF ToSet
  <2>4. /\ Comparators[1] # "" /\ Comparators[2] # "" /\ Comparators[3] # ""
        /\ Comparators[4] # "" /\ Comparators[5] # "" /\ Comparators[6] # ""
        /\ Comparators[7] # "" /\ Comparators[8] # ""
    BY DEF Comparators
  <2>5. \/ i = 1 \/ i = 2 \/ i = 3 \/ i = 4
        \/ i = 5 \/ i = 6 \/ i = 7 \/ i = 8
    BY <2>3
  <2> QED
    BY <2>3, <2>4, <2>5
<1>2. Written(c) # ""
  BY <1>1 DEF Written
<1>3. Predicate(c).comp # ""
  BY <1>2 DEF Predicate
<1>4. ByName(c).comp = Predicate(c).comp
  BY DEF ByName, Predicate
<1>5. And.comp = ""
  BY DEF And
<1> QED
  BY <1>2, <1>3, <1>4, <1>5

LEMMA ImagesAreTokens ==
  ASSUME NEW s \in Seq(Members)
  PROVE  /\ Image(Predicate, s) \in Seq(Tokens)
         /\ Image(ByName, s) \in Seq(Tokens)
         /\ Len(Image(Predicate, s)) = Len(s) /\ Len(Image(ByName, s)) = Len(s)
         /\ \A i \in 1..Len(s) : /\ Image(Predicate, s)[i] = Predicate(s[i])
                                 /\ Image(ByName, s)[i] = ByName(s[i])
                                 /\ Image(Predicate, s)[i] # And
                                 /\ Image(ByName, s)[i] # And
<1>1. DOMAIN s = 1..Len(s) /\ Len(s) \in Nat /\ \A i \in 1..Len(s) : s[i] \in Members
  BY LenProperties, ElementOfSeq
<1> DEFINE f == Image(Predicate, s)
           g == Image(ByName, s)
           n == Len(s)
<1>2. f = [i \in 1..n |-> Predicate(s[i])] /\ g = [i \in 1..n |-> ByName(s[i])]
  BY <1>1 DEF Image
<1> HIDE DEF f, g, n
<1>3. \A i \in 1..n : Predicate(s[i]) \in Tokens /\ ByName(s[i]) \in Tokens
  BY <1>1 DEF Tokens, n
<1>4. f \in [1..n -> Tokens] /\ g \in [1..n -> Tokens]
  BY <1>2, <1>3
<1>5. n \in Nat
  BY <1>1 DEF n
<1>6. f \in Seq(Tokens) /\ g \in Seq(Tokens) /\ Len(f) = n /\ Len(g) = n
  BY <1>4, <1>5
<1>7. ASSUME NEW i \in 1..n
      PROVE  /\ f[i] = Predicate(s[i]) /\ g[i] = ByName(s[i])
             /\ f[i] # And /\ g[i] # And
  <2>1. f[i] = Predicate(s[i]) /\ g[i] = ByName(s[i])
    BY <1>2
  <2>2. s[i] \in Members
    BY <1>1 DEF n
  <2> QED
    BY <2>1, <2>2, NoAnd
<1> QED
  BY <1>6, <1>7 DEF f, g, n

\* The text of the where set stands in the builder of the SELECT, and the
\* predicates of the request are appended to it.
TextInv ==
  /\ pc \in {"ask", "fly"} => text = WhereText
  /\ pc = "done" => selecting = Joined(WhereText, Image(ByName, inConstr))

LEMMA StepText == KeptInv /\ TextInv /\ [Next]_vars => TextInv'
<1> SUFFICES ASSUME KeptInv, TextInv, [Next]_vars PROVE TextInv'
  OBVIOUS
<1>1. ASSUME where' = where PROVE WhereText' = WhereText
  BY <1>1 DEF WhereText, Joined, Image, Predicate, Written
<1>2. CASE UNCHANGED vars
  <2>1. UNCHANGED <<pc, where, inConstr, text, selecting, section>>
    BY <1>2 DEF vars, inputs
  <2>2. Image(ByName, inConstr)' = Image(ByName, inConstr)
    BY <2>1 DEF Image, ByName, Select, Predicate, Written
  <2> QED
    BY <1>1, <2>1, <2>2 DEF TextInv, Joined
<1>3. CASE LoadConstraint
  <2>1. pc' = pc /\ text' = text /\ (pc = "ask" => where' = where) /\ Loading
    BY <1>3 DEF LoadConstraint, SetOfLoop, OnWhere
  <2> QED
    BY <1>1, <2>1 DEF TextInv, Loading
<1>4. CASE EndLoad
  <2>1. /\ pc \in {"load", "own", "ask"} /\ pc' = AfterLoad[pc]
        /\ text' = text /\ where' = where
    BY <1>4 DEF EndLoad, Loading
  <2>2. pc' # "done" /\ (pc' \in {"ask", "fly"} => pc = "ask")
    BY <2>1 DEF AfterLoad
  <2> QED
    BY <1>1, <2>1, <2>2 DEF TextInv
<1>5. CASE Pass
  <2>1. UNCHANGED <<pc, where, text>> /\ pc # "done"
    BY <1>5 DEF Pass, InLoop
  <2> QED
    BY <1>1, <2>1 DEF TextInv
<1>6. CASE Replace
  <2>1. pc' = pc /\ text' = text /\ pc \in {"count", "recount", "select", "fly"}
    BY <1>6 DEF Replace, InLoop
  <2>2. pc = "fly" => where' = where
    BY <1>6 DEF Replace, SetOfLoop, OnWhere
  <2> QED
    BY <1>1, <2>1, <2>2 DEF TextInv
<1>7. CASE StartCount
  BY <1>7 DEF StartCount, TextInv
<1>8. CASE EndCount
  BY <1>8 DEF EndCount, TextInv
<1>9. CASE StartSelect
  <2>1. pc' = "ask" /\ text' = WhereText /\ where' = where
    BY <1>9 DEF StartSelect
  <2>2. WhereText' = WhereText
    BY <1>1, <2>1
  <2> QED
    BY <2>1, <2>2 DEF TextInv
<1>10. CASE EndSelect
  <2>1. /\ UNCHANGED <<section, where, inConstr, text>> /\ pc' = "done"
        /\ selecting' = Joined(text, Image(ByName, inConstr)) /\ pc = "fly"
    BY <1>10 DEF EndSelect, inputs
  <2>2. Image(ByName, inConstr)' = Image(ByName, inConstr)
    BY <2>1 DEF Image, ByName, Select, Predicate, Written
  <2>3. selecting' = Joined(WhereText, Image(ByName, inConstr))
    BY <2>1 DEF TextInv
  <2>4. WhereText' = WhereText
    BY <1>1, <2>1
  <2>5. selecting' = Joined(WhereText', Image(ByName, inConstr)')
    BY <2>2, <2>3, <2>4
  <2>6. Joined(WhereText, Image(ByName, inConstr))' =
          Joined(WhereText', Image(ByName, inConstr)')
    BY DEF Joined, And, NoName
  <2> QED
    BY <2>1, <2>5, <2>6 DEF TextInv
<1>11. CASE BreakDown
  BY <1>11 DEF BreakDown, TextInv
<1> QED
  BY <1>2, <1>3, <1>4, <1>5, <1>6, <1>7, <1>8, <1>9, <1>10, <1>11 DEF Next, Step

LEMMA AlwaysText == Spec => []TextInv
<1>1. Init => TextInv
  BY DEF Init, TextInv
<1> QED
  BY <1>1, StepText, AlwaysKept, PTL DEF Spec

LEMMA SelectingIs ==
  ASSUME KeptInv, TextInv, pc = "done"
  PROVE  /\ selecting = Joined(<<>>, Image(Predicate, where)
                                       \o Image(ByName, inConstr))
         /\ where \in Seq(Members) /\ inConstr \in Seq(Members)
         /\ WellJoined(selecting)
         /\ Predicates(selecting) =
              Image(Predicate, where) \o Image(ByName, inConstr)
<1> DEFINE q == Image(Predicate, where)
           r == Image(ByName, inConstr)
           o == q \o r
<1>1. where \in Seq(Members) /\ inConstr \in Seq(Members)
  BY DEF KeptInv
<1>2. /\ q \in Seq(Tokens) /\ \A i \in 1..Len(q) : q[i] # And
      /\ r \in Seq(Tokens) /\ \A i \in 1..Len(r) : r[i] # And
      /\ Len(q) \in Nat /\ Len(r) \in Nat
  BY <1>1, ImagesAreTokens, LenProperties
<1>3. selecting = Joined(Joined(<<>>, q), r)
  BY DEF TextInv, WhereText
<1>4. And \in Tokens
  BY DEF Tokens
<1> HIDE DEF q, r
<1>5. selecting = Joined(<<>>, o)
  BY <1>2, <1>3, <1>4, JoinedOn
<1>6. o \in Seq(Tokens) /\ Len(o) = Len(q) + Len(r)
      /\ \A i \in 1..Len(q) + Len(r) :
           o[i] = IF i <= Len(q) THEN q[i] ELSE r[i - Len(q)]
  BY <1>2, ConcatProperties
<1>7. ASSUME NEW i \in 1..Len(o) PROVE o[i] # And
  BY <1>2, <1>6
<1> HIDE DEF o
<1>8. WellJoined(Joined(<<>>, o)) /\ Predicates(Joined(<<>>, o)) = o
  BY <1>4, <1>6, <1>7, JoinedWell
<1> QED
  BY <1>1, <1>5, <1>8 DEF o, q, r

\* The SELECT statement has every constraint of the section and of the request
\* as a predicate, those of the section first, joined by AND: what the loops
\* do to the sets loses none and repeats none (buildQuery()).
THEOREM QuerySelectHasAll == Spec => []SelectHasAll
<1>1. KeptInv /\ TextInv => SelectHasAll
  <2> SUFFICES ASSUME KeptInv, TextInv, pc = "done" PROVE SelectHasAll
    BY DEF SelectHasAll
  <2>1. /\ Len(where) = Len(section.constraints)
        /\ Len(inConstr) = Len(request.constraints)
    BY DEF KeptInv, Holds, Stated, Asked
  <2> QED
    BY <2>1, SelectingIs DEF SelectHasAll
<1> QED
  BY <1>1, AlwaysKept, AlwaysText, PTL

-----------------------------------------------------------------------------
(* The words of the comparators.                                           *)

\* The constraints before a place have the substitutes of their comparators.
Treated(s, n) ==
  \A i \in DOMAIN s : i < n /\ NeedsSubstitute(s[i]) =>
                        s[i].subst = Substitutes[s[i].comp]

AllTreated(s) == Treated(s, Len(s) + 1)

\* The neighbours of a set of two.
Ordered(s) == Len(s) = 2 => Less(s[1], s[2])

LEMMA OrderedInserted ==
  ASSUME NEW s \in Seq(Elements), NEW key \in Elements, NEW p \in Gaps(s, key)
  PROVE  Ordered(InsertAt(s, p, key))
<1> DEFINE u == InsertAt(s, p, key)
<1>1. /\ p \in 1..Len(s) + 1
      /\ p > 1 => ~Less(key, s[p - 1])
      /\ p <= Len(s) => Less(key, s[p])
  BY DEF Gaps
<1>2. /\ Len(u) = Len(s) + 1
      /\ \A i \in 1..p - 1 : u[i] = s[i]
      /\ u[p] = key
      /\ \A i \in p + 1..Len(s) + 1 : u[i] = s[i - 1]
  BY <1>1, InsertAtIs
<1> HIDE DEF u
<1>3. CASE Len(s) = 1
  <2>1. s[1] \in Elements
    BY <1>3, ElementOfSeq
  <2>2. CASE p = 1
    <3>1. u[1] = key /\ u[2] = s[1] /\ Less(key, s[1])
      BY <1>1, <1>2, <1>3, <2>2
    <3> QED
      BY <3>1 DEF Ordered, u
  <2>3. CASE p = 2
    <3>1. u[1] = s[1] /\ u[2] = key /\ ~Less(key, s[1])
      BY <1>1, <1>2, <1>3, <2>3
    <3>2. s[1].attr \in Nat /\ key.attr \in Nat
      BY <2>1 DEF Elements
    <3>3. Less(s[1], key)
      BY <3>1, <3>2 DEF Less
    <3> QED
      BY <3>1, <3>3 DEF Ordered, u
  <2> QED
    BY <1>1, <1>3, <2>2, <2>3
<1>4. CASE Len(s) # 1
  <2> DEFINE n == Len(s)
             m == Len(u)
  <2>1. n \in Nat /\ n # 1 /\ m = n + 1
    BY <1>2, <1>4, LenProperties
  <2> HIDE DEF n, m
  <2>2. m # 2
    BY <2>1
  <2> QED
    BY <2>2 DEF Ordered, u, m
<1> QED
  BY <1>3, <1>4

\* Where a constraint needs a substitute is a place of Few.
LEMMA PlacesNeeding ==
  ASSUME NEW s \in Seq(Members), NEW i \in DOMAIN s, NeedsSubstitute(s[i])
  PROVE  i \in Substitutable(s)
<1>1. s[i] \in Members
  BY ElementOfSeq, LenProperties
<1>2. Base(s[i]) \in Universe /\ Base(s[i]).comp = s[i].comp
  BY <1>1 DEF Members, Base, Elements
<1>3. NeedsSubstitute(Base(s[i]))
  BY <1>2 DEF NeedsSubstitute
<1> QED
  BY <1>2, <1>3 DEF Substitutable, Places

LEMMA FewHeld ==
  ASSUME NEW s, NEW t, Holds(s, t), Few(t)
  PROVE  Few(s)
  BY DEF Holds, Few, Substitutable

\* What a turn of the loop makes of a set, element by element.
LEMMA ReplacedIs ==
  ASSUME NEW s \in Seq(Members), NEW i \in 1..Len(s), NEW p \in 1..Len(s),
         NeedsSubstitute(s[i])
  PROVE  LET t == InsertAt(RemoveAt(s, i), p, Substituted(s[i]))
         IN  /\ DOMAIN t = 1..Len(s)
             /\ t[p] = Substituted(s[i])
             /\ \A k \in 1..Len(s) : k # p =>
                  \E j \in 1..Len(s) : j # i /\ t[k] = s[j]
<1> DEFINE r == RemoveAt(s, i)
           d == Substituted(s[i])
           t == InsertAt(r, p, d)
<1>1. /\ r \in Seq(Members) /\ Len(r) = Len(s) - 1
      /\ \A j \in 1..Len(s) - 1 : r[j] = IF j < i THEN s[j] ELSE s[j + 1]
  BY RemoveAtIs
<1>2. d \in Members
  <2>1. s[i] \in Members
    BY ElementOfSeq
  <2> QED
    BY <2>1, SubstitutedIs DEF Members
<1> HIDE DEF r, d
<1>3. p \in 1..Len(r) + 1 /\ Len(r) + 1 = Len(s) /\ Len(s) \in Nat
  BY <1>1, LenProperties
<1>4. /\ t \in Seq(Members) /\ Len(t) = Len(r) + 1
      /\ \A k \in 1..p - 1 : t[k] = r[k]
      /\ t[p] = d
      /\ \A k \in p + 1..Len(r) + 1 : t[k] = r[k - 1]
  BY <1>1, <1>2, <1>3, InsertAtIs
<1> HIDE DEF t
<1>5. ASSUME NEW k \in 1..Len(s) - 1
      PROVE  \E j \in 1..Len(s) : j # i /\ r[k] = s[j]
  <2>1. k \in 1..Len(s) /\ k + 1 \in 1..Len(s)
    BY <1>3
  <2>2. CASE k < i
    BY <1>1, <2>1, <2>2
  <2>3. CASE ~(k < i)
    <3>1. r[k] = s[k + 1] /\ k + 1 # i
      BY <1>1, <2>3
    <3> QED
      BY <2>1, <3>1
  <2> QED
    BY <2>2, <2>3
<1>6. ASSUME NEW k \in 1..Len(s), k # p
      PROVE  \E j \in 1..Len(s) : j # i /\ t[k] = s[j]
  <2>1. CASE k < p
    <3>1. k \in 1..Len(s) - 1 /\ t[k] = r[k]
      BY <1>3, <1>4, <2>1
    <3> QED
      BY <1>5, <3>1
  <2>2. CASE k > p
    <3>1. k - 1 \in 1..Len(s) - 1 /\ t[k] = r[k - 1]
      BY <1>3, <1>4, <2>2
    <3> QED
      BY <1>5, <3>1
  <2> QED
    BY <1>6, <2>1, <2>2
<1>7. DOMAIN t = 1..Len(s)
  BY <1>3, <1>4, LenProperties
<1> QED
  BY <1>4, <1>6, <1>7 DEF t, r, d

\* A set whose constraints are treated stays one.
LEMMA AllTreatedReplaced ==
  ASSUME NEW s \in Seq(Members), NEW i \in 1..Len(s), NEW p \in 1..Len(s),
         NeedsSubstitute(s[i]), \A j \in 1..Len(s) : j # i =>
           (NeedsSubstitute(s[j]) => s[j].subst = Substitutes[s[j].comp])
  PROVE  LET t == InsertAt(RemoveAt(s, i), p, Substituted(s[i]))
         IN  \A n : Treated(t, n)
<1> DEFINE d == Substituted(s[i])
           t == InsertAt(RemoveAt(s, i), p, d)
<1>1. /\ DOMAIN t = 1..Len(s) /\ t[p] = d
      /\ \A k \in 1..Len(s) : k # p =>
           \E j \in 1..Len(s) : j # i /\ t[k] = s[j]
  BY ReplacedIs
<1>2. d.subst = Substitutes[d.comp]
  <2>1. s[i] \in Elements
    BY ElementOfSeq DEF Members
  <2> QED
    BY <2>1, SubstitutedIs
<1> HIDE DEF t, d
<1>3. ASSUME NEW k \in 1..Len(s), NeedsSubstitute(t[k])
      PROVE  t[k].subst = Substitutes[t[k].comp]
  <2>1. CASE k = p
    BY <1>1, <1>2, <2>1
  <2>2. CASE k # p
    <3>1. PICK j \in 1..Len(s) : j # i /\ t[k] = s[j]
      BY <1>1, <2>2
    <3> QED
      BY <1>3, <3>1
  <2> QED
    BY <2>1, <2>2
<1> QED
  BY <1>1, <1>3 DEF Treated, t, d

\* A turn of the loop of comparatorSubst() over a set of few: what is before
\* the iterator is treated, wherever the increment of the old node leads.
LEMMA TreatedReplaced ==
  ASSUME NEW s \in Seq(Members), NEW i \in 1..Len(s), NeedsSubstitute(s[i]),
         NEW p \in Gaps(RemoveAt(s, i), Substituted(s[i])),
         NEW n \in Increments(i, p),
         Few(s), Ordered(s), Treated(s, i)
  PROVE  Treated(InsertAt(RemoveAt(s, i), p, Substituted(s[i])), n)
<1> DEFINE r == RemoveAt(s, i)
           d == Substituted(s[i])
           t == InsertAt(r, p, d)
<1>1. p \in 1..Len(s) /\ Len(s) \in Nat /\ DOMAIN s = 1..Len(s)
  BY ReplacedOne, LenProperties
<1>2. CASE \A j \in 1..Len(s) : j # i =>
             (NeedsSubstitute(s[j]) => s[j].subst = Substitutes[s[j].comp])
  BY <1>1, <1>2, AllTreatedReplaced
<1>3. CASE \E j \in 1..Len(s) : /\ j # i /\ NeedsSubstitute(s[j])
                                /\ s[j].subst # Substitutes[s[j].comp]
  <2>1. PICK j \in 1..Len(s) : /\ j # i /\ NeedsSubstitute(s[j])
                               /\ s[j].subst # Substitutes[s[j].comp]
    BY <1>3
  <2>2. j > i
    BY <1>1, <2>1 DEF Treated
  <2>3. Cardinality(Substitutable(s)) > 1
    <3>1. i \in Substitutable(s) /\ j \in Substitutable(s)
      BY <1>1, <2>1, PlacesNeeding
    <3>2. IsFiniteSet(Substitutable(s)) /\ Cardinality(Substitutable(s)) \in Nat
      BY PlacesFinite DEF Substitutable
    <3>3. Cardinality(Substitutable(s)) # 0 /\ Cardinality(Substitutable(s)) # 1
      BY <2>1, <3>1, <3>2, FS_EmptySet, FS_Singleton
    <3> QED
      BY <3>2, <3>3
  <2>4. Len(s) = 2 /\ i = 1 /\ j = 2
    BY <1>1, <2>2, <2>3, PlacesFinite DEF Few, Substitutable
  <2>5. /\ r \in Seq(Members) /\ Len(r) = 1 /\ r[1] = s[2]
    <3>1. /\ r \in Seq(Members) /\ Len(r) = Len(s) - 1
          /\ \A k \in 1..Len(s) - 1 : r[k] = IF k < i THEN s[k] ELSE s[k + 1]
      BY RemoveAtIs
    <3> QED
      BY <2>4, <3>1
  <2>6. s[1] \in Elements /\ s[2] \in Elements
    BY <2>4, ElementOfSeq DEF Members
  <2>7. d.attr = s[1].attr /\ d.comp = s[1].comp /\ d.val = s[1].val
    BY <2>4, <2>6, SubstitutedIs
  <2>8. Less(d, s[2])
    BY <2>4, <2>7 DEF Ordered, Less
  <2>9. p = 1
    <3>1. p \in 1..Len(r) + 1 /\ (p > 1 => ~Less(d, r[p - 1]))
      BY DEF Gaps
    <3> HIDE DEF r, d
    <3> QED
      BY <2>5, <2>8, <3>1
  <2>10. n = 2
    BY <2>4, <2>9 DEF Increments
  <2>11. DOMAIN t = 1..Len(s) /\ t[p] = d
    BY <1>1, ReplacedIs
  <2>12. d.subst = Substitutes[d.comp]
    BY <2>4, <2>6, SubstitutedIs
  <2> HIDE DEF t, d
  <2>13. ASSUME NEW k \in DOMAIN t, k < n
         PROVE  t[k].subst = Substitutes[t[k].comp]
    <3>1. k = 1
      BY <2>4, <2>10, <2>11, <2>13
    <3> QED
      BY <2>9, <2>11, <2>12, <3>1
  <2>14. Treated(t, n)
    BY <2>13 DEF Treated
  <2> QED
    BY <2>14 DEF t, d
<1> QED
  BY <1>2, <1>3

\* Of few constraints of the section, and of the request, those the loop has
\* left behind are treated; after the loop all are, and stay so.
TreatedInv ==
  /\ Ordered(where)
  /\ pc \in {"ask", "fly", "done"} => Ordered(inConstr)
  /\ Few(Stated) =>
       /\ pc = "count" => Treated(where, at)
       /\ pc \in {"own", "recount", "select", "ask", "fly", "done"} =>
            AllTreated(where)
  /\ Few(Asked) =>
       /\ pc = "fly" => Treated(inConstr, at)
       /\ pc = "done" => AllTreated(inConstr)

\* What is said of a set and the inputs, while neither changes.
LEMMA SameTreated ==
  ASSUME UNCHANGED inputs
  PROVE  /\ where' = where =>
              /\ Ordered(where)' = Ordered(where)
              /\ Treated(where, at)' = Treated(where, at')
              /\ AllTreated(where)' = AllTreated(where)
         /\ inConstr' = inConstr =>
              /\ Ordered(inConstr)' = Ordered(inConstr)
              /\ Treated(inConstr, at)' = Treated(inConstr, at')
              /\ AllTreated(inConstr)' = AllTreated(inConstr)
         /\ Few(Stated)' = Few(Stated) /\ Few(Asked)' = Few(Asked)
<1>1. section' = section /\ request' = request /\ other' = other
  BY DEF inputs
<1> QED
  BY <1>1 DEF Ordered, AllTreated, Treated, NeedsSubstitute, Substitutes, Few,
              Substitutable, Places, Stated, Asked, Less, Base

LEMMA AfterAll ==
  ASSUME NEW s \in Seq(Members), NEW n, n > Len(s), n \in Nat, Treated(s, n)
  PROVE  AllTreated(s)
<1>1. Len(s) \in Nat /\ DOMAIN s = 1..Len(s)
  BY LenProperties
<1> QED
  BY <1>1 DEF AllTreated, Treated

LEMMA StartTreated ==
  ASSUME NEW s \in Seq(Members)
  PROVE  Treated(s, 1)
<1>1. DOMAIN s = 1..Len(s)
  BY LenProperties
<1> QED
  BY <1>1 DEF Treated

LEMMA LoadTreated == KeptInv /\ TreatedInv /\ LoadConstraint => TreatedInv'
<1> SUFFICES ASSUME KeptInv, TreatedInv, LoadConstraint PROVE TreatedInv'
  OBVIOUS
<1>1. UNCHANGED <<inputs, pc>> /\ Loading /\ at <= Len(Source)
  BY DEF LoadConstraint
<1>2. /\ Stated \in Seq(Universe) /\ Len(Stated) \in Nat
      /\ Asked \in Seq(Universe) /\ Len(Asked) \in Nat /\ at \in Nat \ {0}
      /\ Universe \subseteq Elements
  BY InputsType, UniverseIsMembers DEF KeptInv, Members
<1>3. ASSUME NEW s \in Seq(Members), NEW key \in Universe,
             NEW p \in Gaps(s, key)
      PROVE  Ordered(Inserted(s, key, p))
  <2>1. s \in Seq(Elements) /\ key \in Elements
    BY <1>2, SeqMonotonic DEF Members
  <2> QED
    BY <2>1, AlwaysInserted, OrderedInserted
<1>4. CASE pc = "load"
  <2>1. Source = Stated /\ Set = where /\ OnWhere
    BY <1>4 DEF Source, Set, OnWhere, Stated
  <2>2. PICK p \in Gaps(where, Stated[at]) :
          where' = Inserted(where, Stated[at], p)
    BY <2>1 DEF LoadConstraint, SetOfLoop
  <2>3. Stated[at] \in Universe
    BY <1>1, <1>2, <2>1, ElementOfSeq
  <2>4. Ordered(where')
    BY <1>3, <2>2, <2>3 DEF KeptInv
  <2> QED
    BY <1>1, <1>4, <2>4 DEF TreatedInv, Ordered, Less
<1>5. CASE pc = "ask"
  <2>1. Source = Asked /\ Set = inConstr /\ ~OnWhere
    BY <1>5 DEF Source, Set, OnWhere, Asked
  <2>2. PICK p \in Gaps(inConstr, Asked[at]) :
          inConstr' = Inserted(inConstr, Asked[at], p)
    BY <2>1 DEF LoadConstraint, SetOfLoop
  <2>3. Asked[at] \in Universe /\ where' = where
    BY <1>1, <1>2, <2>1, ElementOfSeq DEF LoadConstraint, SetOfLoop
  <2>4. Ordered(inConstr')
    BY <1>3, <1>5, <2>2, <2>3 DEF KeptInv
  <2>5. Ordered(inConstr)'
    BY <2>4 DEF Ordered, Less
  <2> QED
    BY <1>1, <1>5, <2>3, <2>5, SameTreated DEF TreatedInv
<1>6. CASE pc = "own"
  <2>1. where' = where
    BY <1>6 DEF LoadConstraint, SetOfLoop, OnWhere
  <2> QED
    BY <1>1, <1>6, <2>1, SameTreated DEF TreatedInv
<1> QED
  BY <1>1, <1>4, <1>5, <1>6 DEF Loading

LEMMA EndLoadTreated == KeptInv /\ TreatedInv /\ EndLoad => TreatedInv'
<1> SUFFICES ASSUME KeptInv, TreatedInv, EndLoad PROVE TreatedInv'
  OBVIOUS
<1>1. /\ UNCHANGED <<inputs, where, inConstr>> /\ at' = 1
      /\ pc \in {"load", "own", "ask"} /\ pc' = AfterLoad[pc]
  BY DEF EndLoad, Loading
<1>2. /\ pc = "load" => pc' = "count"
      /\ pc = "own" => pc' = "recount"
      /\ pc = "ask" => pc' = "fly"
  BY <1>1 DEF AfterLoad
<1>3. /\ where \in Seq(Members) /\ Treated(where, 1)
      /\ pc = "ask" => Treated(inConstr, 1)
  BY StartTreated DEF KeptInv
<1> QED
  BY <1>1, <1>2, <1>3, SameTreated DEF TreatedInv

LEMMA PassTreated == KeptInv /\ TreatedInv /\ Pass => TreatedInv'
<1> SUFFICES ASSUME KeptInv, TreatedInv, Pass PROVE TreatedInv'
  OBVIOUS
<1>1. /\ UNCHANGED <<inputs, where, inConstr, pc>> /\ at' = at + 1
      /\ ~NeedsSubstitute(Set[at]) /\ at \in Nat \ {0}
      /\ pc \in {"count", "recount", "select", "fly"}
  BY DEF Pass, InLoop, KeptInv
<1>2. ASSUME NEW s \in Seq(Members), ~NeedsSubstitute(s[at]), Treated(s, at)
      PROVE  Treated(s, at + 1)
  <2>1. DOMAIN s = 1..Len(s) /\ Len(s) \in Nat
    BY LenProperties
  <2>2. ASSUME NEW i \in DOMAIN s, i < at + 1, NeedsSubstitute(s[i])
        PROVE  s[i].subst = Substitutes[s[i].comp]
    <3>1. i # at
      BY <1>2, <2>2
    <3>2. i < at
      BY <1>1, <2>1, <2>2, <3>1
    <3> QED
      BY <1>2, <2>2, <3>2 DEF Treated
  <2> QED
    BY <2>2 DEF Treated
<1>3. CASE pc = "count"
  <2>1. Set = where /\ where \in Seq(Members)
    BY <1>3 DEF Set, OnWhere, KeptInv
  <2>2. Treated(where, at) => Treated(where, at + 1)
    BY <1>1, <1>2, <2>1
  <2> QED
    BY <1>1, <1>3, <2>2, SameTreated DEF TreatedInv
<1>4. CASE pc = "fly"
  <2>1. Set = inConstr /\ inConstr \in Seq(Members)
    BY <1>4 DEF Set, OnWhere, KeptInv
  <2>2. Treated(inConstr, at) => Treated(inConstr, at + 1)
    BY <1>1, <1>2, <2>1
  <2> QED
    BY <1>1, <1>4, <2>2, SameTreated DEF TreatedInv
<1>5. CASE pc \in {"recount", "select"}
  BY <1>1, <1>5, SameTreated DEF TreatedInv
<1> QED
  BY <1>1, <1>3, <1>4, <1>5

LEMMA ReplaceTreated == KeptInv /\ TreatedInv /\ Replace => TreatedInv'
<1> SUFFICES ASSUME KeptInv, TreatedInv, Replace PROVE TreatedInv'
  OBVIOUS
<1>1. /\ UNCHANGED <<inputs, pc>> /\ NeedsSubstitute(Set[at]) /\ other' = other
      /\ pc \in {"count", "recount", "select", "fly"} /\ at <= Len(Set)
      /\ at \in Nat \ {0}
  BY DEF Replace, InLoop, KeptInv, inputs
<1>2. PICK p \in Gaps(RemoveAt(Set, at), Substituted(Set[at])) :
        /\ SetOfLoop(Inserted(RemoveAt(Set, at), Substituted(Set[at]), p))
        /\ at' \in Increments(at, p)
  BY DEF Replace
<1> DEFINE t == InsertAt(RemoveAt(Set, at), p, Substituted(Set[at]))
<1>3. ASSUME Set \in Seq(Members)
      PROVE  /\ Inserted(RemoveAt(Set, at), Substituted(Set[at]), p) = t
             /\ Ordered(t) /\ Holds(t, Set) /\ p \in 1..Len(Set)
             /\ at \in 1..Len(Set)
             /\ AllTreated(Set) => AllTreated(t)
             /\ Few(Set) /\ Ordered(Set) /\ Treated(Set, at) => Treated(t, at')
  <2>1. at \in 1..Len(Set)
    BY <1>1, <1>3, LenProperties
  <2>2. /\ Inserted(RemoveAt(Set, at), Substituted(Set[at]), p) = t
        /\ Holds(t, Set) /\ p \in 1..Len(Set)
    BY <1>1, <1>2, <1>3, <2>1, ReplacedOne
  <2>3. Ordered(t)
    <3> DEFINE r == RemoveAt(Set, at)
               d == Substituted(Set[at])
    <3>1. r \in Seq(Elements)
      <4>1. r \in Seq(Members)
        BY <1>3, <2>1, RemoveAtIs
      <4> QED
        BY <4>1, SeqMonotonic DEF Members
    <3>2. d \in Elements
      BY <1>1, <1>3, <2>1, ElementOfSeq, SubstitutedIs DEF Members
    <3> HIDE DEF r, d
    <3>3. p \in Gaps(r, d)
      BY <1>2 DEF r, d
    <3>4. Ordered(InsertAt(r, p, d))
      BY <3>1, <3>2, <3>3, OrderedInserted
    <3> QED
      BY <3>4 DEF r, d
  <2>4. AllTreated(Set) => AllTreated(t)
    <3> SUFFICES ASSUME AllTreated(Set) PROVE AllTreated(t)
      OBVIOUS
    <3>1. \A j \in 1..Len(Set) : j # at =>
            (NeedsSubstitute(Set[j]) => Set[j].subst = Substitutes[Set[j].comp])
      BY <1>3, LenProperties DEF AllTreated, Treated
    <3>2. \A n : Treated(t, n)
      BY <1>1, <1>3, <2>1, <2>2, <3>1, AllTreatedReplaced
    <3> HIDE DEF t
    <3> QED
      BY <3>2 DEF AllTreated
  <2>5. Few(Set) /\ Ordered(Set) /\ Treated(Set, at) => Treated(t, at')
    BY <1>1, <1>2, <1>3, <2>1, TreatedReplaced
  <2> QED
    BY <2>1, <2>2, <2>3, <2>4, <2>5
<1> HIDE DEF t
<1>4. CASE pc \in {"count", "select"}
  <2>1. Set = where /\ Set \in Seq(Members) /\ Holds(where, Stated)
    BY <1>4 DEF Set, OnWhere, KeptInv
  <2>2. where' = t /\ inConstr' = inConstr
    BY <1>2, <1>3, <1>4, <2>1 DEF OnWhere, SetOfLoop
  <2>3. /\ Ordered(where') /\ (AllTreated(where) => AllTreated(where'))
        /\ Few(Stated) /\ Treated(where, at) => Treated(where', at')
    BY <1>3, <2>1, <2>2, FewHeld DEF TreatedInv
  <2>4. /\ Ordered(where)' /\ (AllTreated(where') => AllTreated(where)')
        /\ Treated(where', at') => Treated(where, at)'
    BY <1>1, <2>3 DEF Ordered, AllTreated, Treated, Less, NeedsSubstitute,
                      Substitutes
  <2> QED
    BY <1>1, <1>4, <2>2, <2>3, <2>4, SameTreated DEF TreatedInv
<1>5. CASE pc = "fly"
  <2>1. Set = inConstr /\ Set \in Seq(Members) /\ Holds(inConstr, Asked)
    BY <1>5 DEF Set, OnWhere, KeptInv
  <2>2. inConstr' = t /\ where' = where
    BY <1>2, <1>3, <1>5, <2>1 DEF OnWhere, SetOfLoop
  <2>3. /\ Ordered(inConstr')
        /\ Few(Asked) /\ Treated(inConstr, at) => Treated(inConstr', at')
    BY <1>3, <1>5, <2>1, <2>2, FewHeld DEF TreatedInv
  <2>4. /\ Ordered(inConstr)'
        /\ Treated(inConstr', at') => Treated(inConstr, at)'
    BY <1>1, <2>3 DEF Ordered, Treated, Less, NeedsSubstitute, Substitutes
  <2> QED
    BY <1>1, <1>5, <2>2, <2>3, <2>4, SameTreated DEF TreatedInv
<1>6. CASE pc = "recount"
  <2>1. where' = where
    BY <1>2, <1>6 DEF SetOfLoop, OnWhere
  <2> QED
    BY <1>1, <1>6, <2>1, SameTreated DEF TreatedInv
<1> QED
  BY <1>1, <1>4, <1>5, <1>6

LEMMA StepTreated == KeptInv /\ TreatedInv /\ [Next]_vars => TreatedInv'
<1> SUFFICES ASSUME KeptInv, TreatedInv, [Next]_vars PROVE TreatedInv'
  OBVIOUS
<1>1. CASE UNCHANGED vars
  <2>1. UNCHANGED <<inputs, pc, where, inConstr, at>>
    BY <1>1 DEF vars
  <2> QED
    BY <2>1, SameTreated DEF TreatedInv
<1>2. CASE LoadConstraint
  BY <1>2, LoadTreated
<1>3. CASE EndLoad
  BY <1>3, EndLoadTreated
<1>4. CASE Pass
  BY <1>4, PassTreated
<1>5. CASE Replace
  BY <1>5, ReplaceTreated
<1>6. CASE StartCount
  <2>1. /\ UNCHANGED <<inputs, where>> /\ pc = "count" /\ at > Len(where)
        /\ pc' \in {"select", "own"} /\ where \in Seq(Members) /\ at \in Nat
    BY <1>6 DEF StartCount, KeptInv
  <2>2. Treated(where, at) => AllTreated(where)
    BY <2>1, AfterAll
  <2> QED
    BY <2>1, <2>2, SameTreated DEF TreatedInv
<1>7. CASE EndCount
  <2>1. UNCHANGED <<inputs, where>> /\ pc = "recount" /\ pc' = "select"
    BY <1>7 DEF EndCount
  <2> QED
    BY <2>1, SameTreated DEF TreatedInv
<1>8. CASE StartSelect
  <2>1. /\ UNCHANGED <<inputs, where>> /\ pc = "select" /\ pc' = "ask"
        /\ inConstr' = <<>>
    BY <1>8 DEF StartSelect
  <2>2. Ordered(inConstr)'
    BY <2>1 DEF Ordered
  <2> QED
    BY <2>1, <2>2, SameTreated DEF TreatedInv
<1>9. CASE EndSelect
  <2>1. /\ UNCHANGED <<inputs, where, inConstr>> /\ pc = "fly" /\ pc' = "done"
        /\ at > Len(inConstr) /\ inConstr \in Seq(Members) /\ at \in Nat
    BY <1>9 DEF EndSelect, KeptInv
  <2>2. Treated(inConstr, at) => AllTreated(inConstr)
    BY <2>1, AfterAll
  <2> QED
    BY <2>1, <2>2, SameTreated DEF TreatedInv
<1>10. CASE BreakDown
  <2>1. UNCHANGED <<inputs, where, inConstr>> /\ pc' = "failed"
    BY <1>10 DEF BreakDown
  <2> QED
    BY <2>1, SameTreated DEF TreatedInv
<1> QED
  BY <1>1, <1>2, <1>3, <1>4, <1>5, <1>6, <1>7, <1>8, <1>9, <1>10 DEF Next, Step

LEMMA AlwaysTreated == Spec => []TreatedInv
<1>1. Init => TreatedInv
  BY DEF Init, TreatedInv, Ordered
<1> QED
  BY <1>1, StepTreated, AlwaysKept, PTL DEF Spec

\* A substitute is never empty, so that it is what is written.
LEMMA SubstituteNotEmpty ==
  ASSUME Inputs, NEW k \in DOMAIN Substitutes
  PROVE  Substitutes[k] # ""
<1>1. other \in [DOMAIN other -> STRING \ {""}]
  BY QueryAssumption DEF Inputs
<1>2. ASSUME NEW x \in DOMAIN Standard PROVE Standard[x] # ""
  BY <1>2 DEF Standard
<1> QED
  BY <1>1, <1>2 DEF Substitutes

\* What is written of a constraint that is treated is the word for it.
LEMMA WrittenIsWord ==
  ASSUME Inputs, NEW c \in Members,
         NeedsSubstitute(c) => c.subst = Substitutes[c.comp]
  PROVE  Written(c) = Word(c.comp)
<1>1. CASE NeedsSubstitute(c)
  <2>1. c.comp \in DOMAIN other \cup DOMAIN Standard
    BY <1>1 DEF NeedsSubstitute, Substitutes
  <2>2. Written(c) = Substitutes[c.comp]
    BY <1>1, SubstituteNotEmpty DEF Written, NeedsSubstitute
  <2>3. CASE c.comp \in DOMAIN other
    BY <2>1, <2>2, <2>3 DEF Substitutes, Word
  <2>4. CASE c.comp \notin DOMAIN other
    <3>1. c.comp \in {"!=", "~="} /\ Written(c) = Standard[c.comp]
      BY <2>1, <2>2, <2>4 DEF Substitutes, Standard
    <3> QED
      BY <2>4, <3>1 DEF Standard, Word
  <2> QED
    BY <2>3, <2>4
<1>2. CASE ~NeedsSubstitute(c)
  <2>1. c.subst = ""
    BY <1>2 DEF Members, Loaded
  <2>2. c.comp \notin DOMAIN other /\ c.comp # "!=" /\ c.comp # "~="
    BY <1>2 DEF NeedsSubstitute, Substitutes, Standard
  <2> QED
    BY <2>1, <2>2 DEF Written, Word
<1> QED
  BY <1>1, <1>2

LEMMA WordsOfSet ==
  ASSUME Inputs, NEW s \in Seq(Members), AllTreated(s), NEW i \in 1..Len(s)
  PROVE  /\ Predicate(s[i]).comp = Word(s[i].comp)
         /\ ByName(s[i]).comp = Word(s[i].comp)
<1>1. s[i] \in Members /\ Len(s) \in Nat /\ DOMAIN s = 1..Len(s)
  BY ElementOfSeq, LenProperties
<1>2. i < Len(s) + 1
  BY <1>1
<1>3. NeedsSubstitute(s[i]) => s[i].subst = Substitutes[s[i].comp]
  BY <1>1, <1>2 DEF AllTreated, Treated
<1>4. Written(s[i]) = Word(s[i].comp)
  BY <1>1, <1>3, WrittenIsWord
<1>5. ByName(s[i]).comp = Predicate(s[i]).comp
  BY DEF ByName, Predicate
<1>6. Predicate(s[i]).comp = Written(s[i])
  BY DEF Predicate
<1> QED
  BY <1>4, <1>5, <1>6

\* With few constraints - at most two, or one that needs a substitute - in the
\* section and in the request, every comparator of the SELECT statement is the
\* database's word for it, whatever the loops of comparatorSubst() meet twice
\* or take in which order.
THEOREM QueryWordsOfDatabase == Spec => []WordsOfDatabase
<1>1. KeptInv /\ TextInv /\ TreatedInv => WordsOfDatabase
  <2> SUFFICES ASSUME KeptInv, TextInv, TreatedInv, pc = "done",
                      Few(section.constraints), Few(request.constraints)
               PROVE  ForDatabase
    BY DEF WordsOfDatabase
  <2> DEFINE q == Image(Predicate, where)
             r == Image(ByName, inConstr)
             p == Predicates(selecting)
             c == where \o inConstr
  <2>1. /\ where \in Seq(Members) /\ inConstr \in Seq(Members)
        /\ p = q \o r /\ Inputs
        /\ AllTreated(where) /\ AllTreated(inConstr)
    BY SelectingIs DEF KeptInv, TreatedInv, Stated, Asked
  <2>2. /\ q \in Seq(Tokens) /\ Len(q) = Len(where)
        /\ \A i \in 1..Len(where) : q[i] = Predicate(where[i])
        /\ r \in Seq(Tokens) /\ Len(r) = Len(inConstr)
        /\ \A i \in 1..Len(inConstr) : r[i] = ByName(inConstr[i])
    BY <2>1, ImagesAreTokens
  <2> HIDE DEF q, r, p, c
  <2>3. /\ q \o r \in Seq(Tokens) /\ Len(q \o r) = Len(q) + Len(r)
        /\ \A i \in 1..Len(q) + Len(r) :
             (q \o r)[i] = IF i <= Len(q) THEN q[i] ELSE r[i - Len(q)]
    <3>1. q \in Seq(Tokens) /\ r \in Seq(Tokens)
      BY <2>2
    <3> QED
      BY <3>1, ConcatProperties
  <2>4. \A i \in 1..Len(where) + Len(inConstr) :
          c[i] = IF i <= Len(where) THEN where[i] ELSE inConstr[i - Len(where)]
    BY <2>1, ConcatProperties DEF c
  <2>5. DOMAIN p = 1..Len(where) + Len(inConstr)
        /\ Len(where) \in Nat /\ Len(inConstr) \in Nat
    BY <2>1, <2>2, <2>3, LenProperties
  <2>6. ASSUME NEW i \in DOMAIN p PROVE p[i].comp = Word(c[i].comp)
    <3>1. CASE i <= Len(where)
      <4>1. i \in 1..Len(where)
        BY <2>5, <3>1
      <4>2. p[i] = Predicate(where[i]) /\ c[i] = where[i]
        BY <2>1, <2>2, <2>3, <2>4, <2>5, <3>1, <4>1
      <4> QED
        BY <2>1, <4>1, <4>2, WordsOfSet
    <3>2. CASE ~(i <= Len(where))
      <4> DEFINE k == i - Len(where)
      <4>1. k \in 1..Len(inConstr)
        BY <2>5, <3>2
      <4>2. p[i] = r[k] /\ c[i] = inConstr[k]
        BY <2>1, <2>2, <2>3, <2>4, <2>5, <3>2
      <4> HIDE DEF k
      <4>3. p[i] = ByName(inConstr[k])
        BY <2>2, <4>1, <4>2
      <4> QED
        BY <2>1, <4>1, <4>2, <4>3, WordsOfSet
    <3> QED
      BY <3>1, <3>2
  <2> QED
    BY <2>6 DEF ForDatabase, p, c
<1> QED
  BY <1>1, AlwaysKept, AlwaysText, AlwaysTreated, PTL

-----------------------------------------------------------------------------
(* The places of a sequence in their order.                                *)

\* There is a first of every set of numbers.
LEMMA LeastOf ==
  ASSUME NEW P \in SUBSET Nat, P # {}
  PROVE  \E n \in P : \A m \in P : n <= m
<1> DEFINE U == {0..n : n \in P}
<1>1. U \subseteq FiniteSubsetsOf(Nat)
  <2>1. ASSUME NEW n \in P PROVE 0..n \in FiniteSubsetsOf(Nat)
    <3>1. IsFiniteSet(0..n)
      BY FS_Interval
    <3>2. 0..n \in SUBSET Nat
      OBVIOUS
    <3> QED
      BY <3>1, <3>2 DEF FiniteSubsetsOf
  <2> QED
    BY <2>1
<1>2. PICK x \in U : \A y \in U : ~(<<y, x>> \in StrictSubsetOrdering(Nat))
  <2>1. U # {}
    OBVIOUS
  <2> HIDE DEF U
  <2> QED
    BY <1>1, <2>1, FS_StrictSubsetOrderingWellFounded, WFMin, Zenon
<1>3. PICK n \in P : \A m \in P : ~(<<0..m, 0..n>> \in StrictSubsetOrdering(Nat))
  BY <1>2
<1>4. ASSUME NEW m \in P, m < n PROVE FALSE
  <2>1. /\ 0..m \subseteq 0..n /\ 0..m # 0..n
        /\ 0..m \in SUBSET Nat /\ 0..n \in SUBSET Nat
    BY <1>4
  <2> QED
    BY <1>3, <2>1 DEF StrictSubsetOrdering
<1> QED
  BY <1>3, <1>4

\* How many of the places are not behind one.
Before(P, i) == {j \in P : j <= i}

LEMMA BeforeGrows ==
  ASSUME NEW P \in SUBSET Nat, IsFiniteSet(P), NEW i \in P, NEW j \in P, i < j
  PROVE  Cardinality(Before(P, i)) < Cardinality(Before(P, j))
<1>1. Before(P, i) \subseteq Before(P, j) /\ Before(P, i) # Before(P, j)
      /\ Before(P, j) \subseteq P
  <2>1. j \in Before(P, j) /\ j \notin Before(P, i)
    BY DEF Before
  <2>2. ASSUME NEW k \in Before(P, i) PROVE k \in Before(P, j)
    <3>1. k \in P /\ k <= i /\ k \in Nat /\ i \in Nat /\ j \in Nat
      BY DEF Before
    <3> QED
      BY <3>1 DEF Before
  <2> QED
    BY <2>1, <2>2 DEF Before
<1>2. IsFiniteSet(Before(P, j))
  BY <1>1, FS_Subset
<1>3. IsFiniteSet(Before(P, i))
      /\ Cardinality(Before(P, i)) <= Cardinality(Before(P, j))
      /\ Cardinality(Before(P, i)) # Cardinality(Before(P, j))
  BY <1>1, <1>2, FS_Subset
<1>4. Cardinality(Before(P, i)) \in Nat /\ Cardinality(Before(P, j)) \in Nat
  BY <1>2, <1>3, FS_CardinalityType
<1> QED
  BY <1>3, <1>4

LEMMA BeforeType ==
  ASSUME NEW P \in SUBSET Nat, IsFiniteSet(P), NEW i \in P
  PROVE  Cardinality(Before(P, i)) \in 1..Cardinality(P)
<1>1. Before(P, i) \subseteq P /\ i \in Before(P, i)
  BY DEF Before
<1>2. IsFiniteSet(Before(P, i)) /\ Cardinality(Before(P, i)) <= Cardinality(P)
  BY <1>1, FS_Subset
<1>3. Cardinality(Before(P, i)) \in Nat /\ Cardinality(P) \in Nat
  BY <1>2, FS_CardinalityType
<1>4. Cardinality(Before(P, i)) # 0
  BY <1>1, <1>2, FS_EmptySet
<1> QED
  BY <1>2, <1>3, <1>4

\* Nth() counts the places through, each once and in their order.
LEMMA NthIs ==
  ASSUME NEW P \in SUBSET Nat, IsFiniteSet(P)
  PROVE  /\ Cardinality(P) \in Nat
         /\ \A k \in 1..Cardinality(P) :
              Nth(P, k) \in P /\ Cardinality(Before(P, Nth(P, k))) = k
         /\ \A i \in P : \E k \in 1..Cardinality(P) : Nth(P, k) = i
         /\ \A k, l \in 1..Cardinality(P) : k < l => Nth(P, k) < Nth(P, l)
<1> DEFINE n == Cardinality(P)
           f == [i \in P |-> Cardinality(Before(P, i))]
<1>1. n \in Nat
  BY FS_CardinalityType
<1>2. f \in [P -> 1..n]
  BY BeforeType
<1>3. ASSUME NEW i \in P, NEW j \in P, f[i] = f[j] PROVE i = j
  <2>1. f[i] \in Nat /\ f[j] \in Nat
    BY <1>1, <1>2
  <2>2. i < j => f[i] < f[j]
    BY BeforeGrows
  <2>3. j < i => f[j] < f[i]
    BY BeforeGrows
  <2> HIDE DEF f
  <2> QED
    BY <1>3, <2>1, <2>2, <2>3
<1> HIDE DEF f
<1>4. f \in Injection(P, 1..n)
  BY <1>2, <1>3, Fun_IsInj
<1>5. IsFiniteSet(1..n) /\ Cardinality(1..n) = n
  BY <1>1, FS_Interval
<1>6. f \in Surjection(P, 1..n)
  BY <1>4, <1>5, FS_Injection
<1>7. ASSUME NEW k \in 1..n
      PROVE  Nth(P, k) \in P /\ f[Nth(P, k)] = k
  <2>1. \E i \in P : f[i] = k
    <3>1. \A l \in 1..n : \E i \in P : f[i] = l
      BY <1>6, Fun_SurjectionProperties
    <3> QED
      BY <3>1
  <2>2. \E i \in P : Cardinality({j \in P : j <= i}) = k
    BY <2>1 DEF f, Before
  <2>3. Nth(P, k) \in P /\ Cardinality({j \in P : j <= Nth(P, k)}) = k
    BY <2>2 DEF Nth
  <2> QED
    BY <2>3 DEF f, Before
<1>8. ASSUME NEW i \in P PROVE \E k \in 1..n : Nth(P, k) = i
  <2>1. f[i] \in 1..n
    BY <1>2
  <2>2. Nth(P, f[i]) \in P /\ f[Nth(P, f[i])] = f[i]
    BY <1>7, <2>1
  <2>3. Nth(P, f[i]) = i
    BY <1>3, <2>2
  <2> QED
    BY <2>1, <2>3
<1>9. ASSUME NEW k \in 1..n, NEW l \in 1..n, k < l
      PROVE  Nth(P, k) < Nth(P, l)
  <2> DEFINE i == Nth(P, k)
             j == Nth(P, l)
  <2>1. i \in P /\ j \in P /\ f[i] = k /\ f[j] = l
    BY <1>7
  <2> HIDE DEF i, j
  <2>2. i # j /\ i \in Nat /\ j \in Nat /\ k \in Nat /\ l \in Nat
    BY <1>1, <1>9, <2>1
  <2>3. j < i => f[j] < f[i]
    BY <2>1, BeforeGrows DEF f
  <2>4. i < j
    BY <1>9, <2>1, <2>2, <2>3
  <2> QED
    BY <2>4 DEF i, j
<1>10. \A k \in 1..n : Cardinality(Before(P, Nth(P, k))) = k
  BY <1>7 DEF f
<1> QED
  BY <1>1, <1>7, <1>8, <1>9, <1>10

\* The first place of a name.
LEMMA PositionIs ==
  ASSUME NEW T, NEW s \in Seq(T), NEW n \in Names(s)
  PROVE  PositionOf(s, n) \in 1..Len(s) /\ s[PositionOf(s, n)].name = n
<1> DEFINE P == {i \in 1..Len(s) : s[i].name = n}
<1>1. DOMAIN s = 1..Len(s) /\ Len(s) \in Nat
  BY LenProperties
<1>2. P # {} /\ P \in SUBSET Nat
  BY <1>1 DEF Names
<1> HIDE DEF P
<1>3. PICK i \in P : \A j \in P : i <= j
  BY <1>2, LeastOf
<1>4. i \in 1..Len(s) /\ s[i].name = n
  BY <1>3 DEF P
<1>5. ASSUME NEW j \in 1..i - 1 PROVE s[j].name # n
  <2>1. j \in 1..Len(s) /\ ~(i <= j)
    BY <1>1, <1>4
  <2>2. j \notin P
    BY <1>3, <2>1
  <2> QED
    BY <2>1, <2>2 DEF P
<1>6. \E k \in DOMAIN s : s[k].name = n /\ \A j \in 1..k - 1 : s[j].name # n
  BY <1>1, <1>4, <1>5
<1>7. PositionOf(s, n) \in DOMAIN s /\ s[PositionOf(s, n)].name = n
  BY <1>6 DEF PositionOf
<1> QED
  BY <1>1, <1>7

\* The set ordered by position.
LEMMA ByPositionIs ==
  ASSUME NEW T, NEW s \in Seq(T), NEW N, N \subseteq Names(s), N # {}
  PROVE  LET t == ByPosition(s, N)
         IN  /\ t \in Seq(T) /\ t # <<>> /\ DOMAIN t = 1..Len(t)
             /\ Names(t) = N /\ ToSet(t) \subseteq ToSet(s)
             /\ \A i, j \in DOMAIN t :
                  i < j => PositionOf(s, t[i].name) < PositionOf(s, t[j].name)
<1> DEFINE P == {PositionOf(s, n) : n \in N}
           m == Cardinality(P)
           t == ByPosition(s, N)
<1>1. DOMAIN s = 1..Len(s) /\ Len(s) \in Nat /\ \A i \in 1..Len(s) : s[i] \in T
  BY LenProperties, ElementOfSeq
<1>2. \A n \in N : PositionOf(s, n) \in 1..Len(s) /\ s[PositionOf(s, n)].name = n
  BY PositionIs
<1>3. P \subseteq 1..Len(s) /\ P # {}
  BY <1>2
<1>4. P \in SUBSET Nat /\ IsFiniteSet(P)
  <2>1. IsFiniteSet(1..Len(s))
    BY <1>1, FS_Interval
  <2> HIDE DEF P
  <2>2. P \in SUBSET (1..Len(s))
    BY <1>3
  <2>3. IsFiniteSet(P)
    BY <2>1, <2>2, FS_Subset
  <2>4. 1..Len(s) \subseteq Nat
    BY <1>1
  <2> QED
    BY <2>2, <2>3, <2>4
<1>5. t = [k \in 1..m |-> s[Nth(P, k)]]
  BY DEF ByPosition, Picked
<1>6. ASSUME NEW i \in P PROVE s[i].name \in N /\ PositionOf(s, s[i].name) = i
  BY <1>2
<1>7. ASSUME NEW n \in N PROVE PositionOf(s, n) \in P /\ s[PositionOf(s, n)].name = n
  BY <1>2
<1> HIDE DEF P
<1>8. /\ m \in Nat /\ m # 0
      /\ \A k \in 1..m : Nth(P, k) \in P
      /\ \A i \in P : \E k \in 1..m : Nth(P, k) = i
      /\ \A k, l \in 1..m : k < l => Nth(P, k) < Nth(P, l)
  BY <1>3, <1>4, NthIs, FS_EmptySet
<1> HIDE DEF m, t
<1>9. t \in [1..m -> T] /\ \A k \in 1..m : t[k] = s[Nth(P, k)]
  BY <1>1, <1>3, <1>5, <1>8
<1>10. t \in Seq(T) /\ Len(t) = m
  BY <1>8, <1>9
<1>11. DOMAIN t = 1..m /\ t # <<>>
  BY <1>8, <1>9, <1>10, EmptySeq
<1>12. Names(t) = N
  <2>1. ASSUME NEW k \in 1..m PROVE t[k].name \in N
    BY <1>6, <1>8, <1>9
  <2>2. ASSUME NEW n \in N PROVE \E k \in 1..m : t[k].name = n
    <3>1. PICK k \in 1..m : Nth(P, k) = PositionOf(s, n)
      BY <1>7, <1>8
    <3> QED
      BY <1>7, <1>9, <3>1
  <2> QED
    BY <1>11, <2>1, <2>2 DEF Names
<1>13. ToSet(t) \subseteq ToSet(s)
  <2>1. ASSUME NEW k \in 1..m PROVE t[k] \in ToSet(s)
    <3>1. Nth(P, k) \in DOMAIN s /\ t[k] = s[Nth(P, k)]
      BY <1>1, <1>3, <1>8, <1>9
    <3> QED
      BY <3>1 DEF ToSet
  <2> QED
    BY <1>11, <2>1 DEF ToSet
<1>14. ASSUME NEW i \in DOMAIN t, NEW j \in DOMAIN t, i < j
       PROVE  PositionOf(s, t[i].name) < PositionOf(s, t[j].name)
  <2>1. PositionOf(s, t[i].name) = Nth(P, i) /\ PositionOf(s, t[j].name) = Nth(P, j)
    BY <1>6, <1>8, <1>9, <1>11
  <2> QED
    BY <1>8, <1>11, <1>14, <2>1
<1> QED
  BY <1>10, <1>11, <1>12, <1>13, <1>14 DEF t

-----------------------------------------------------------------------------
(* The columns.                                                            *)

ColumnsInv ==
  pc \in {"ask", "fly", "done"} => columns = AttrToSelect(Select, request.asked)

LEMMA StepColumns == ColumnsInv /\ [Next]_vars => ColumnsInv'
<1> SUFFICES ASSUME ColumnsInv, [Next]_vars PROVE ColumnsInv'
  OBVIOUS
<1>1. ASSUME UNCHANGED inputs
      PROVE  AttrToSelect(Select, request.asked)' =
               AttrToSelect(Select, request.asked)
  <2>1. section' = section /\ request' = request
    BY <1>1 DEF inputs
  <2> QED
    BY <2>1 DEF AttrToSelect, Select, ByPosition, Requested, Names, PositionOf,
                Picked, Nth, Attribute
<1>2. CASE UNCHANGED vars
  <2>1. UNCHANGED <<inputs, pc, columns>>
    BY <1>2 DEF vars
  <2> QED
    BY <1>1, <2>1 DEF ColumnsInv
<1>3. CASE LoadConstraint
  BY <1>1, <1>3 DEF LoadConstraint, ColumnsInv
<1>4. CASE EndLoad
  <2>1. /\ UNCHANGED <<inputs, columns>> /\ pc \in {"load", "own", "ask"}
        /\ pc' = AfterLoad[pc]
    BY <1>4 DEF EndLoad, Loading
  <2>2. pc' \in {"ask", "fly", "done"} => pc = "ask"
    BY <2>1 DEF AfterLoad
  <2> QED
    BY <1>1, <2>1, <2>2 DEF ColumnsInv
<1>5. CASE Pass
  BY <1>1, <1>5 DEF Pass, ColumnsInv
<1>6. CASE Replace
  BY <1>1, <1>6 DEF Replace, ColumnsInv
<1>7. CASE StartCount
  BY <1>7 DEF StartCount, ColumnsInv
<1>8. CASE EndCount
  BY <1>8 DEF EndCount, ColumnsInv
<1>9. CASE StartSelect
  BY <1>1, <1>9 DEF StartSelect, ColumnsInv
<1>10. CASE EndSelect
  BY <1>1, <1>10 DEF EndSelect, ColumnsInv
<1>11. CASE BreakDown
  BY <1>11 DEF BreakDown, ColumnsInv
<1> QED
  BY <1>2, <1>3, <1>4, <1>5, <1>6, <1>7, <1>8, <1>9, <1>10, <1>11 DEF Next, Step

LEMMA AlwaysColumns == Spec => []ColumnsInv
<1>1. Init => ColumnsInv
  BY DEF Init, ColumnsInv
<1> QED
  BY <1>1, StepColumns, PTL DEF Spec

LEMMA RequestedIs ==
  ASSUME NEW a \in Seq(Nat)
  PROVE  /\ Requested(a) \in Seq([name : Nat, column : Nat])
         /\ Names(Requested(a)) = ToSet(a)
         /\ a # <<>> => ToSet(a) # {}
<1> DEFINE r == Requested(a)
           R == [name : Nat, column : Nat]
<1>1. DOMAIN a = 1..Len(a) /\ Len(a) \in Nat /\ \A i \in 1..Len(a) : a[i] \in Nat
  BY LenProperties, ElementOfSeq
<1>2. r = [i \in 1..Len(a) |-> [name |-> a[i], column |-> a[i]]]
  BY <1>1 DEF Requested, Attribute
<1>3. r \in [1..Len(a) -> R]
  BY <1>1, <1>2
<1> HIDE DEF r, R
<1>4. r \in Seq(R) /\ DOMAIN r = 1..Len(a)
  BY <1>1, <1>3
<1>5. \A i \in 1..Len(a) : r[i].name = a[i]
  BY <1>2
<1>6. Names(r) = ToSet(a)
  BY <1>1, <1>4, <1>5 DEF Names, ToSet
<1>7. ASSUME a # <<>> PROVE ToSet(a) # {}
  <2>1. 1 \in 1..Len(a)
    BY <1>1, <1>7, EmptySeq
  <2> QED
    BY <1>1, <2>1 DEF ToSet
<1> QED
  BY <1>4, <1>6, <1>7 DEF r, R

\* The SELECT has columns; unless the section selects "*" they are columns of
\* the section in the order of its text, each once, and all of those that a
\* request asks for by a known name (attrToSelect() and the set ordered by
\* position).
THEOREM QueryColumnsOfSection == Spec => []ColumnsOfSection
<1>1. KeptInv /\ ColumnsInv => ColumnsOfSection
  <2> SUFFICES ASSUME KeptInv, ColumnsInv, pc = "done" PROVE ColumnsOfSection
    BY DEF ColumnsOfSection
  <2> DEFINE R == [name : Nat, column : Nat]
             asked == request.asked
             r == Requested(asked)
             known == ToSet(asked) \cap Names(Select)
  <2>1. Select \in Seq(R) /\ Select # <<>> /\ asked \in Seq(Nat)
    BY QueryAssumption DEF KeptInv, Inputs, Select
  <2>2. /\ r \in Seq(R) /\ Names(r) = ToSet(asked)
        /\ asked # <<>> => Names(r) # {}
    BY <2>1, RequestedIs
  <2>3. Names(Select) # {}
    <3>1. 1 \in DOMAIN Select
      BY <2>1, EmptySeq, LenProperties
    <3> QED
      BY <3>1 DEF Names
  <2>4. columns = IF Star \in Names(Select)
                    THEN IF asked # <<>> THEN ByPosition(r, Names(r))
                                         ELSE ByPosition(Select, Names(Select))
                    ELSE ByPosition(Select, IF known # {} THEN known
                                            ELSE Names(Select))
    <3>1. Names(Select) \cap Names(r) = known
      BY <2>2
    <3>2. columns = AttrToSelect(Select, asked)
      BY DEF ColumnsInv
    <3> HIDE DEF known
    <3> QED
      BY <3>1, <3>2 DEF AttrToSelect
  <2> HIDE DEF R, r
  <2>5. CASE Star \in Names(Select)
    <3>1. CASE asked # <<>>
      <4>1. ByPosition(r, Names(r)) # <<>>
        BY <2>2, <3>1, ByPositionIs
      <4> QED
        BY <2>4, <2>5, <3>1, <4>1 DEF ColumnsOfSection
    <3>2. CASE asked = <<>>
      <4>1. ByPosition(Select, Names(Select)) # <<>>
        BY <2>1, <2>3, ByPositionIs
      <4> QED
        BY <2>4, <2>5, <3>2, <4>1 DEF ColumnsOfSection
    <3> QED
      BY <3>1, <3>2
  <2>6. CASE Star \notin Names(Select)
    <3> DEFINE N == IF known # {} THEN known ELSE Names(Select)
    <3>1. columns = ByPosition(Select, N)
      BY <2>4, <2>6
    <3>2. N \subseteq Names(Select) /\ N # {} /\ (known # {} => N = known)
      BY <2>3
    <3> HIDE DEF N
    <3>3. /\ columns # <<>> /\ Names(columns) = N
          /\ ToSet(columns) \subseteq ToSet(Select)
          /\ \A i, j \in DOMAIN columns :
               i < j => PositionOf(Select, columns[i].name)
                          < PositionOf(Select, columns[j].name)
      BY <2>1, <3>1, <3>2, ByPositionIs
    <3> QED
      BY <3>2, <3>3 DEF ColumnsOfSection
  <2> QED
    BY <2>5, <2>6
<1> QED
  BY <1>1, AlwaysKept, AlwaysColumns, PTL

-----------------------------------------------------------------------------
(* The COUNT statement of a section with at most one constraint.           *)

LEMMA JoinedOne ==
  ASSUME NEW x
  PROVE  Joined(<<>>, <<x>>) = <<x>>
<1> DEFINE T == {And, x}
           j == Joined(<<>>, <<x>>)
<1>1. And \in T /\ <<x>> \in Seq(T) /\ Len(<<x>>) = 1 /\ <<x>> # <<>>
  OBVIOUS
<1>2. /\ j \in Seq(T) /\ Len(j) = 2 * 1 - 1
      /\ \A i \in 1..Len(j) :
           j[i] = IF i % 2 = 0 THEN And ELSE <<x>>[(i + 1) \div 2]
  BY <1>1, JoinedIs
<1>3. 1 % 2 = 1 /\ (1 + 1) \div 2 = 1
  BY Z3
<1> HIDE DEF j, T
<1>4. Len(j) = 1 /\ j[1] = x
  BY <1>2, <1>3
<1>5. \A i \in 1..Len(j) : j[i] = <<x>>[i]
  BY <1>4
<1>6. j = <<x>>
  BY <1>1, <1>2, <1>4, <1>5, SeqEqual
<1> QED
  BY <1>6 DEF j

LEMMA JoinedNone ==
  ASSUME NEW T, And \in T, NEW t \in Seq(T)
  PROVE  Joined(t, <<>>) = t
<1> DEFINE e == Each(<<>>)
<1>1. <<>> \in Seq(T) /\ Len(<<>>) = 0
  BY EmptySeq
<1>2. e \in Seq(T) /\ Len(e) = 2 * 0
  BY <1>1, EachIs
<1>3. Joined(t, <<>>) = t \o e
  BY DEF Joined, Each
<1> HIDE DEF e
<1>4. e = <<>>
  BY <1>2, EmptySeq
<1> QED
  BY <1>3, <1>4, ConcatEmptySeq

\* What stands at the places of a set of one or of none.
LEMMA PickedFew ==
  /\ \A s : Picked(s, {}) = <<>>
  /\ \A x : Picked(<<x>>, {1}) = <<x>>
<1>1. ASSUME NEW s PROVE Picked(s, {}) = <<>>
  <2>1. Cardinality({}) = 0
    BY FS_EmptySet
  <2> QED
    BY <2>1 DEF Picked
<1>2. ASSUME NEW x PROVE Picked(<<x>>, {1}) = <<x>>
  <2>1. IsFiniteSet({1}) /\ Cardinality({1}) = 1 /\ {1} \in SUBSET Nat
    <3>1. IsFiniteSet({1}) /\ Cardinality({1}) = 1
      BY FS_Singleton, Zenon
    <3> QED
      BY <3>1
  <2>2. Nth({1}, 1) \in {1}
    BY <2>1, NthIs
  <2>3. Picked(<<x>>, {1}) = [k \in 1..1 |-> <<x>>[Nth({1}, k)]]
    BY <2>1 DEF Picked
  <2> DEFINE n == Nth({1}, 1)
             f == [k \in 1..1 |-> <<x>>[Nth({1}, k)]]
  <2>4. n = 1
    BY <2>2
  <2>5. DOMAIN f = 1..1 /\ f[1] = <<x>>[n]
    OBVIOUS
  <2>6. f = [k \in 1..1 |-> x]
    BY <2>4
  <2>7. <<x>> = [k \in 1..1 |-> x]
    OBVIOUS
  <2> QED
    BY <2>3, <2>6, <2>7
<1> QED
  BY <1>1, <1>2

\* The predicate of the one constraint, with the word for its comparator.
TheOne == [attr |-> Stated[1].attr, comp |-> Word(Stated[1].comp),
           val |-> Stated[1].val]

Sent == IF Stated = <<>> THEN <<>> ELSE <<TheOne>>

LEMMA WhereTextIs ==
  ASSUME KeptInv, pc # "load", Len(Stated) <= 1, AllTreated(where)
  PROVE  /\ WhereText = Sent
         /\ where = <<>> <=> Stated = <<>>
         /\ Stated # <<>> => Written(where[1]) # "" /\ TheOne.comp = Written(where[1])
                              /\ Stated = <<Stated[1]>>
<1>1. /\ Inputs /\ where \in Seq(Members) /\ Holds(where, Stated)
      /\ Stated \in Seq(Universe) /\ Len(Stated) \in Nat
  BY InputsType DEF KeptInv
<1>2. Len(where) = Len(Stated)
  BY <1>1 DEF Holds
<1>3. where = <<>> <=> Stated = <<>>
  BY <1>1, <1>2, EmptySeq
<1>4. CASE Stated = <<>>
  <2>1. Image(Predicate, where) = <<>>
    BY <1>3, <1>4 DEF Image
  <2>2. Joined(<<>>, <<>>) = <<>>
    BY JoinedNone, EmptySeq
  <2> QED
    BY <1>3, <1>4, <2>1, <2>2 DEF WhereText, Sent
<1>5. CASE Stated # <<>>
  <2> DEFINE c == where[1]
             d == Stated[1]
  <2>1. Len(Stated) = 1
    <3> DEFINE n == Len(Stated)
    <3>1. n \in Nat \ {0} /\ n <= 1
      BY <1>1, <1>5, EmptySeq
    <3> HIDE DEF n
    <3>2. n = 1
      BY <3>1
    <3> QED
      BY <3>2 DEF n
  <2>2. c \in Members /\ d \in Universe /\ Base(d) = d
    BY <1>1, <1>2, <2>1, ElementOfSeq, UniverseIsMembers
  <2>3. Base(c) = d
    <3>1. DOMAIN where = 1..1 /\ DOMAIN Stated = 1..1
      BY <1>1, <1>2, <2>1, LenProperties
    <3>2. Places(Stated, {d}) = {1}
      BY <2>2, <3>1 DEF Places
    <3>3. Cardinality(Places(where, {d})) = 1
      BY <1>1, <3>2, FS_Singleton DEF Holds
    <3>4. Places(where, {d}) # {}
      <4>1. Cardinality({}) = 0
        BY FS_EmptySet
      <4>2. Cardinality({}) # 1
        BY <4>1
      <4> QED
        BY <3>3, <4>2
    <3> QED
      BY <3>1, <3>4 DEF Places
  <2> HIDE DEF c, d
  <2>4. c.attr = d.attr /\ c.comp = d.comp /\ c.val = d.val
    BY <2>2, <2>3 DEF Base, Members, Elements
  <2>5. Predicate(c).comp = Word(c.comp) /\ Predicate(c).comp = Written(c)
    BY <1>1, <1>2, <2>1, WordsOfSet DEF c, Predicate
  <2>6. Written(c) # ""
    BY <2>2, NoAnd
  <2>7. Predicate(c) = TheOne
    BY <2>4, <2>5 DEF Predicate, TheOne, d
  <2>8. Image(Predicate, where) = <<TheOne>>
    <3>1. DOMAIN where = 1..1
      BY <1>1, <1>2, <2>1, LenProperties
    <3>2. Image(Predicate, where) = [i \in 1..1 |-> Predicate(where[i])]
      BY <3>1 DEF Image
    <3>3. \A i \in 1..1 : Predicate(where[i]) = TheOne
      BY <2>7 DEF c
    <3>4. Image(Predicate, where) = [i \in 1..1 |-> TheOne]
      BY <3>2, <3>3
    <3> HIDE DEF TheOne
    <3> QED
      BY <3>4
  <2>9. Stated = <<Stated[1]>>
    <3>1. Stated = [i \in 1..1 |-> Stated[i]]
      BY <1>1, <2>1, LenProperties
    <3>2. Stated = [i \in 1..1 |-> Stated[1]]
      BY <3>1
    <3> QED
      BY <3>2
  <2>10. WhereText = <<TheOne>>
    BY <2>8, JoinedOne DEF WhereText
  <2>11. TheOne.comp = Written(c)
    BY <2>5, <2>4 DEF TheOne, d
  <2> QED
    BY <1>3, <1>5, <2>6, <2>9, <2>10, <2>11 DEF Sent, c
<1> QED
  BY <1>4, <1>5

\* The constraint that match() makes of the predicate, and what the second loop
\* may make of it.
Reread == AsConstraint(TheOne)
Rereads == [attr : {TheOne.attr}, comp : {TheOne.comp}, val : {TheOne.val},
            subst : {"", TheOne.comp}]

LEMMA OneIs ==
  ASSUME NEW x
  PROVE  DOMAIN <<x>> = {1} /\ <<x>>[1] = x /\ <<x>> = [i \in {1} |-> x]
<1>1. DOMAIN <<x>> = 1..1 /\ <<x>> = [i \in 1..1 |-> x] /\ <<x>>[1] = x
  OBVIOUS
<1>2. 1..1 = {1}
  OBVIOUS
<1> QED
  BY <1>1, <1>2

LEMMA FoundNone ==
  ASSUME NEW e, e = <<>>
  PROVE  Found(e) = <<>> /\ Erased(e) = <<>> /\ Image(AsConstraint, e) = <<>>
<1>1. DOMAIN e = {}
  OBVIOUS
<1>2. Matched(e) = {} /\ DOMAIN e \ Matched(e) = {}
  BY <1>1 DEF Matched
<1>3. Picked(e, Matched(e)) = <<>> /\ Picked(e, DOMAIN e \ Matched(e)) = <<>>
  BY <1>2, PickedFew
<1>4. Image(AsConstraint, e) = <<>>
  BY DEF Image
<1>5. Image(AsConstraint, Picked(e, Matched(e))) = <<>>
  BY <1>3, <1>4
<1> QED
  BY <1>3, <1>4, <1>5 DEF Found, Erased

\* A text of one predicate is found and erased, or neither.
LEMMA FoundOne ==
  ASSUME NEW x, x # And, NEW e, e = <<x>>
  PROVE  IF x.comp \in ToSet(Comparators)
           THEN Found(e) = <<AsConstraint(x)>> /\ Erased(e) = <<>>
           ELSE Found(e) = <<>> /\ Erased(e) = e
<1>1. DOMAIN e = {1} /\ e[1] = x
  BY OneIs
<1>2. CASE x.comp \in ToSet(Comparators)
  <2>1. Matched(e) = {1}
    BY <1>1, <1>2 DEF Matched
  <2>2. DOMAIN e \ Matched(e) = {}
    BY <1>1, <2>1
  <2>3. Erased(e) = <<>> /\ Picked(e, Matched(e)) = e
    BY <2>1, <2>2, PickedFew DEF Erased
  <2>4. Image(AsConstraint, e) = [i \in {1} |-> AsConstraint(x)]
    BY <1>1 DEF Image
  <2>5. <<AsConstraint(x)>> = [i \in {1} |-> AsConstraint(x)]
    BY OneIs
  <2>6. Found(e) = Image(AsConstraint, e)
    BY <2>3 DEF Found
  <2> QED
    BY <1>2, <2>3, <2>4, <2>5, <2>6
<1>3. CASE x.comp \notin ToSet(Comparators)
  <2>1. Matched(e) = {}
    BY <1>1, <1>3 DEF Matched
  <2>2. DOMAIN e \ Matched(e) = {1}
    BY <1>1, <2>1
  <2>3. Erased(e) = e /\ Picked(e, Matched(e)) = <<>>
    BY <2>1, <2>2, PickedFew DEF Erased
  <2>4. Image(AsConstraint, Picked(e, Matched(e))) = <<>>
    BY <2>3, FoundNone
  <2>5. Found(e) = <<>>
    BY <2>4 DEF Found
  <2> QED
    BY <1>3, <2>3, <2>5
<1> QED
  BY <1>2, <1>3

\* What match() leaves and finds of the text: all and nothing, when the word is
\* no comparator, or nothing and all.
LEMMA SentIs ==
  ASSUME Stated # <<>> => TheOne.comp # ""
  PROVE  \/ Found(Sent) = <<>> /\ Erased(Sent) = Sent
         \/ /\ Sent = <<TheOne>> /\ Stated # <<>>
            /\ Found(Sent) = <<Reread>> /\ Erased(Sent) = <<>>
<1>1. CASE Stated = <<>>
  <2>1. Sent = <<>>
    BY <1>1 DEF Sent
  <2> QED
    BY <2>1, FoundNone
<1>2. CASE Stated # <<>>
  <2>1. Sent = <<TheOne>>
    BY <1>2 DEF Sent
  <2>2. TheOne # And
    <3>1. And.comp = ""
      BY DEF And
    <3> QED
      BY <1>2, <3>1
  <2>3. IF TheOne.comp \in ToSet(Comparators)
          THEN Found(Sent) = <<AsConstraint(TheOne)>> /\ Erased(Sent) = <<>>
          ELSE Found(Sent) = <<>> /\ Erased(Sent) = Sent
    BY <2>1, <2>2, FoundOne
  <2> QED
    BY <1>2, <2>1, <2>3 DEF Reread
<1> QED
  BY <1>1, <1>2

LEMMA InsertedIntoNone ==
  ASSUME NEW x, NEW e, e = <<>>, NEW p \in Gaps(e, x)
  PROVE  Inserted(e, x, p) = <<x>>
<1> DEFINE T == {x}
           u == InsertAt(e, p, x)
<1>1. e \in Seq(T) /\ Len(e) = 0 /\ x \in T
  BY EmptySeq
<1>2. p \in 1..Len(e) + 1 /\ p = 1
  BY <1>1 DEF Gaps
<1> HIDE DEF T
<1>3. u \in Seq(T) /\ Len(u) = Len(e) + 1 /\ u[p] = x
  <2>1. ASSUME NEW f \in Seq(T), NEW q \in 1..Len(f) + 1
        PROVE  LET g == InsertAt(f, q, x)
               IN  g \in Seq(T) /\ Len(g) = Len(f) + 1 /\ g[q] = x
    BY <1>1, <2>1, InsertAtIs
  <2> QED
    BY <1>1, <1>2, <2>1
<1>4. Inserted(e, x, p) = u
  BY <1>2 DEF Inserted
<1> HIDE DEF u
<1>5. Len(u) = 1 /\ u[1] = x
  BY <1>1, <1>2, <1>3
<1>6. u = [i \in 1..1 |-> u[i]]
  BY <1>3, <1>5, LenProperties
<1>7. u = [i \in 1..1 |-> x]
  BY <1>5, <1>6
<1>8. u = <<x>>
  BY <1>7
<1> QED
  BY <1>4, <1>8

LEMMA RemovedFromOne ==
  ASSUME NEW x
  PROVE  RemoveAt(<<x>>, 1) = <<>>
<1> DEFINE T == {x}
           r == RemoveAt(<<x>>, 1)
<1>1. <<x>> \in Seq(T) /\ Len(<<x>>) = 1 /\ 1 \in 1..Len(<<x>>)
  OBVIOUS
<1>2. r \in Seq(T) /\ Len(r) = Len(<<x>>) - 1
  BY <1>1, RemoveAtIs
<1> HIDE DEF r, T
<1>3. Len(r) = 0
  BY <1>1, <1>2
<1> QED
  BY <1>2, <1>3, EmptySeq DEF r

\* Through the builder of the COUNT statement: its text keeps the predicate, or
\* the one constraint it loads from it has it.
CountInv ==
  /\ pc \in {"load", "count", "own", "recount"} => counting = <<>>
  /\ PlainCount =>
       /\ pc = "own" =>
            /\ WhereText = Sent
            /\ \/ Found(Sent) = <<>> /\ inConstr = <<>> /\ text = Sent
               \/ /\ Stated # <<>> /\ Found(Sent) = <<Reread>> /\ text = <<>>
                  /\ inConstr = IF at = 1 THEN <<>> ELSE <<Reread>>
       /\ pc = "recount" =>
            \/ inConstr = <<>> /\ text = Sent
            \/ /\ Stated # <<>> /\ text = <<>>
               /\ \E c \in Rereads : inConstr = <<c>>
       /\ pc \in {"select", "ask", "fly", "done"} => counting = Sent

LEMMA SameCount ==
  ASSUME UNCHANGED inputs
  PROVE  /\ PlainCount' = PlainCount /\ Sent' = Sent
         /\ Found(Sent)' = Found(Sent) /\ Stated' = Stated
         /\ Reread' = Reread /\ Rereads' = Rereads
<1>1. section' = section /\ request' = request /\ other' = other
  BY DEF inputs
<1>2. Stated' = Stated /\ TheOne' = TheOne
  BY <1>1 DEF Stated, TheOne, Word
<1>3. PlainCount' = PlainCount
  BY <1>1 DEF PlainCount, WordsAreFinal, Substitutes, Select, Names, PositionOf
<1>4. Sent' = Sent
  BY <1>2 DEF Sent
<1>5. Reread' = Reread /\ Rereads' = Rereads
  BY <1>2 DEF Reread, Rereads, AsConstraint, Constraint
<1>6. Found(Sent)' = Found(Sent)
  BY <1>4 DEF Found, Picked, Nth, Matched, Image, AsConstraint, Constraint,
              And, NoName
<1> QED
  BY <1>2, <1>3, <1>4, <1>5, <1>6

LEMMA FewIfPlain ==
  ASSUME KeptInv, PlainCount
  PROVE  Len(Stated) <= 1 /\ Few(Stated)
<1>1. Len(Stated) <= 1
  BY DEF PlainCount, Stated
<1>2. Len(Stated) \in Nat
  BY InputsType DEF KeptInv
<1>3. Len(Stated) <= 2
  BY <1>1, <1>2
<1> QED
  BY <1>1, <1>3 DEF Few

LEMMA SameWhereText ==
  ASSUME where' = where
  PROVE  WhereText' = WhereText
  BY DEF WhereText, Joined, Image, Predicate, Written, And, NoName

\* The constraint read again gives the predicate back, substituted or not.
LEMMA PredicateAgain ==
  ASSUME PlainCount, Stated \in Seq(Universe), Stated # <<>>, NEW c \in Rereads
  PROVE  ByName(c) = TheOne
<1> DEFINE a == Stated[1].attr
           w == Word(Stated[1].comp)
           v == Stated[1].val
<1>1. a \in Names(Select) /\ Select[PositionOf(Select, a)].column = a
  <2>1. 1 \in DOMAIN Stated
    BY EmptySeq, LenProperties
  <2> QED
    BY <2>1 DEF PlainCount, Stated
<1>2. TheOne = [attr |-> a, comp |-> w, val |-> v]
  BY DEF TheOne
<1> HIDE DEF a, w, v
<1>3. TheOne.attr = a /\ TheOne.comp = w /\ TheOne.val = v
  BY <1>2
<1>4. c.attr = a /\ c.comp = w /\ c.val = v /\ (c.subst = "" \/ c.subst = w)
  BY <1>3 DEF Rereads
<1>5. Written(c) = w
  BY <1>4 DEF Written
<1>6. Predicate(c) = [attr |-> a, comp |-> w, val |-> v]
  BY <1>4, <1>5 DEF Predicate
<1>7. ByName(c) = [Predicate(c) EXCEPT !.attr = a]
  BY <1>1, <1>4 DEF ByName
<1> DEFINE r == [attr |-> a, comp |-> w, val |-> v]
<1>8. [r EXCEPT !.attr = a] = r
  OBVIOUS
<1> HIDE DEF r
<1>9. Predicate(c) = r /\ TheOne = r
  BY <1>2, <1>6 DEF r
<1> QED
  BY <1>7, <1>8, <1>9

\* The second loop leaves the word for the comparator as it is.
LEMMA SubstitutedAgain ==
  ASSUME WordsAreFinal, NEW c \in Rereads, NeedsSubstitute(c)
  PROVE  Substituted(c) \in Rereads
<1> DEFINE k == Stated[1].comp
           w == TheOne.comp
<1>1. w = Word(k) /\ c.comp = w
  BY DEF TheOne, Rereads
<1>2. w \in DOMAIN Substitutes
  BY <1>1 DEF NeedsSubstitute
<1>3. DOMAIN Substitutes = DOMAIN other \cup {"!=", "~="}
  BY DEF Substitutes, Standard
<1> HIDE DEF k, w
<1>4. k \in DOMAIN Substitutes
  BY <1>1, <1>2, <1>3 DEF Word
<1>5. w = Substitutes[k]
  <2>1. CASE k \in DOMAIN other
    BY <1>1, <2>1 DEF Word, Substitutes
  <2>2. CASE k \notin DOMAIN other
    <3>1. k \in {"!=", "~="} /\ Substitutes[k] = Standard[k]
      BY <1>3, <1>4, <2>2 DEF Substitutes, Standard
    <3> QED
      BY <1>1, <2>2, <3>1 DEF Word, Standard
  <2> QED
    BY <2>1, <2>2
<1>6. Substitutes[w] = w
  BY <1>2, <1>4, <1>5 DEF WordsAreFinal
<1>7. Substituted(c) = [c EXCEPT !.subst = w]
  BY <1>1, <1>6 DEF Substituted
<1> QED
  BY <1>7 DEF Rereads, w

LEMMA SentJoined == Joined(Sent, <<>>) = Sent
<1> DEFINE T == {And, TheOne}
<1>1. And \in T /\ TheOne \in T
  OBVIOUS
<1> HIDE DEF T
<1>2. <<>> \in Seq(T)
  BY EmptySeq
<1>3. <<TheOne>> \in Seq(T)
  <2> HIDE DEF TheOne
  <2> QED
    BY <1>1
<1>4. Sent \in Seq(T)
  BY <1>2, <1>3 DEF Sent
<1> QED
  BY <1>1, <1>4, JoinedNone

LEMMA StartCountAgrees ==
  KeptInv /\ TreatedInv /\ CountInv /\ StartCount => CountInv'
<1> SUFFICES ASSUME KeptInv, TreatedInv, CountInv, StartCount PROVE CountInv'
  OBVIOUS
<1>1. /\ UNCHANGED <<inputs, where, counting>> /\ pc = "count" /\ at > Len(where)
      /\ inConstr' = <<>> /\ at' = 1 /\ pc' \in {"select", "own"}
      /\ where = <<>> => pc' = "select"
      /\ where # <<>> => pc' = "own" /\ text' = Erased(WhereText)
  BY DEF StartCount
<1>2. counting = <<>>
  BY <1>1 DEF CountInv
<1>3. CASE ~PlainCount
  BY <1>1, <1>2, <1>3, SameCount DEF CountInv
<1>4. CASE PlainCount
  <2>1. Len(Stated) <= 1 /\ Few(Stated)
    BY <1>4, FewIfPlain
  <2>2. Treated(where, at) /\ where \in Seq(Members) /\ at \in Nat
    BY <1>1, <2>1 DEF TreatedInv, KeptInv
  <2>3. AllTreated(where)
    BY <1>1, <2>2, AfterAll
  <2>4. /\ WhereText = Sent
        /\ where = <<>> <=> Stated = <<>>
        /\ Stated # <<>> => TheOne.comp # ""
    BY <1>1, <2>1, <2>3, WhereTextIs
  <2>5. WhereText' = Sent'
    BY <1>1, <2>4, SameWhereText, SameCount
  <2>6. CASE where = <<>>
    <3>1. Sent = <<>> /\ pc' = "select" /\ counting' = <<>>
      BY <1>1, <1>2, <2>4, <2>6 DEF Sent
    <3> QED
      BY <1>1, <3>1, SameCount DEF CountInv
  <2>7. CASE where # <<>>
    <3>1. pc' = "own" /\ text' = Erased(Sent) /\ Stated # <<>> /\ counting' = <<>>
      BY <1>1, <1>2, <2>4, <2>7
    <3>2. \/ Found(Sent) = <<>> /\ Erased(Sent) = Sent
          \/ Found(Sent) = <<Reread>> /\ Erased(Sent) = <<>>
      BY <2>4, SentIs
    <3> QED
      BY <1>1, <2>5, <3>1, <3>2, SameCount DEF CountInv
  <2> QED
    BY <2>6, <2>7
<1> QED
  BY <1>3, <1>4

LEMMA LoadCountAgrees ==
  KeptInv /\ CountInv /\ LoadConstraint => CountInv'
<1> SUFFICES ASSUME KeptInv, CountInv, LoadConstraint PROVE CountInv'
  OBVIOUS
<1>1. /\ UNCHANGED <<inputs, pc, text, counting>> /\ at' = at + 1
      /\ Loading /\ at <= Len(Source)
      /\ \E p \in Gaps(Set, Source[at]) :
           SetOfLoop(Inserted(Set, Source[at], p))
  BY DEF LoadConstraint
<1>2. CASE ~(PlainCount /\ pc = "own")
  BY <1>1, <1>2, SameCount DEF CountInv, Loading
<1>3. CASE PlainCount /\ pc = "own"
  <2>1. Source = Found(Sent) /\ Set = inConstr /\ ~OnWhere
    BY <1>3 DEF CountInv, Source, Set, OnWhere
  <2>2. at \in Nat \ {0}
    BY DEF KeptInv
  <2>3. Found(Sent) # <<>>
    BY <1>1, <2>1, <2>2
  <2>4. /\ Stated # <<>> /\ Found(Sent) = <<Reread>> /\ text = <<>>
        /\ inConstr = IF at = 1 THEN <<>> ELSE <<Reread>>
    BY <1>3, <2>3 DEF CountInv
  <2>5. at = 1 /\ inConstr = <<>> /\ Source[at] = Reread
    <3>1. Len(<<Reread>>) = 1 /\ <<Reread>>[1] = Reread
      OBVIOUS
    <3>2. at = 1
      BY <1>1, <2>1, <2>2, <2>4, <3>1
    <3> QED
      BY <2>1, <2>4, <3>1, <3>2
  <2>6. PICK p \in Gaps(inConstr, Reread) :
          inConstr' = Inserted(inConstr, Reread, p) /\ UNCHANGED where
    BY <1>1, <2>1, <2>5 DEF SetOfLoop
  <2>7. inConstr' = <<Reread>> /\ at' # 1
    <3>1. Inserted(inConstr, Reread, p) = <<Reread>>
      BY <2>5, InsertedIntoNone
    <3> QED
      BY <1>1, <2>5, <2>6, <3>1
  <2>8. WhereText' = WhereText
    BY <2>6, SameWhereText
  <2> QED
    BY <1>1, <1>3, <2>4, <2>7, <2>8, SameCount DEF CountInv
<1> QED
  BY <1>2, <1>3

LEMMA EndLoadCountAgrees == KeptInv /\ CountInv /\ EndLoad => CountInv'
<1> SUFFICES ASSUME KeptInv, CountInv, EndLoad PROVE CountInv'
  OBVIOUS
<1>1. /\ UNCHANGED <<inputs, inConstr, text, counting>>
      /\ pc \in {"load", "own", "ask"} /\ at > Len(Source)
      /\ pc = "load" => pc' = "count"
      /\ pc = "own" => pc' = "recount"
      /\ pc = "ask" => pc' = "fly"
  BY DEF EndLoad, Loading, AfterLoad
<1>2. CASE ~(PlainCount /\ pc = "own")
  BY <1>1, <1>2, SameCount DEF CountInv
<1>3. CASE PlainCount /\ pc = "own"
  <2>1. Source = Found(Sent)
    BY <1>3 DEF CountInv, Source
  <2>2. \/ inConstr = <<>> /\ text = Sent
        \/ Stated # <<>> /\ text = <<>> /\ inConstr = <<Reread>>
    <3>1. Len(<<Reread>>) = 1
      OBVIOUS
    <3>2. Found(Sent) = <<Reread>> => at # 1
      BY <1>1, <2>1, <3>1
    <3> QED
      BY <1>3, <3>2 DEF CountInv
  <2>3. Reread \in Rereads
    BY DEF Reread, Rereads, AsConstraint, Constraint
  <2> QED
    BY <1>1, <1>3, <2>2, <2>3, SameCount DEF CountInv
<1> QED
  BY <1>2, <1>3

LEMMA ReplaceCountAgrees == KeptInv /\ CountInv /\ Replace => CountInv'
<1> SUFFICES ASSUME KeptInv, CountInv, Replace PROVE CountInv'
  OBVIOUS
<1> DEFINE d == Substituted(Set[at])
           rest == RemoveAt(Set, at)
<1>1. /\ UNCHANGED <<inputs, pc, text, counting>>
      /\ pc \in {"count", "recount", "select", "fly"} /\ at <= Len(Set)
      /\ NeedsSubstitute(Set[at])
      /\ \E p \in Gaps(rest, d) : SetOfLoop(Inserted(rest, d, p))
  BY DEF Replace, InLoop
<1> HIDE DEF d, rest
<1>2. CASE ~(PlainCount /\ pc = "recount")
  BY <1>1, <1>2, SameCount DEF CountInv
<1>3. CASE PlainCount /\ pc = "recount"
  <2>1. Set = inConstr /\ ~OnWhere
    BY <1>3 DEF Set, OnWhere
  <2>2. at \in Nat \ {0}
    BY DEF KeptInv
  <2>3. inConstr # <<>>
    BY <1>1, <2>1, <2>2
  <2>4. Stated # <<>> /\ text = <<>> /\ \E c \in Rereads : inConstr = <<c>>
    BY <1>3, <2>3 DEF CountInv
  <2>5. PICK c \in Rereads : inConstr = <<c>>
    BY <2>4
  <2>6. at = 1 /\ Set[at] = c
    <3>1. Len(<<c>>) = 1 /\ <<c>>[1] = c
      OBVIOUS
    <3>2. at = 1
      BY <1>1, <2>1, <2>2, <2>5, <3>1
    <3> QED
      BY <2>1, <2>5, <3>1, <3>2
  <2>7. rest = <<>> /\ d \in Rereads
    <3>1. NeedsSubstitute(c) /\ WordsAreFinal
      BY <1>1, <1>3, <2>6 DEF PlainCount
    <3>2. Substituted(c) \in Rereads
      BY <3>1, SubstitutedAgain
    <3>3. RemoveAt(<<c>>, 1) = <<>>
      BY RemovedFromOne
    <3> QED
      BY <2>1, <2>5, <2>6, <3>2, <3>3 DEF rest, d
  <2>8. PICK p \in Gaps(rest, d) : inConstr' = Inserted(rest, d, p)
    BY <1>1, <2>1 DEF SetOfLoop
  <2>9. inConstr' = <<d>>
    <3>1. Inserted(rest, d, p) = <<d>>
      BY <2>7, InsertedIntoNone
    <3> QED
      BY <2>8, <3>1
  <2> QED
    BY <1>1, <1>3, <2>4, <2>7, <2>9, SameCount DEF CountInv
<1> QED
  BY <1>2, <1>3

LEMMA EndCountAgrees == KeptInv /\ CountInv /\ EndCount => CountInv'
<1> SUFFICES ASSUME KeptInv, CountInv, EndCount PROVE CountInv'
  OBVIOUS
<1>1. /\ UNCHANGED inputs /\ pc = "recount" /\ pc' = "select"
      /\ counting' = Joined(text, Image(ByName, inConstr))
  BY DEF EndCount
<1>2. CASE ~PlainCount
  BY <1>1, <1>2, SameCount DEF CountInv
<1>3. CASE PlainCount
  <2>1. CASE inConstr = <<>> /\ text = Sent
    <3>1. Image(ByName, inConstr) = <<>>
      BY <2>1 DEF Image
    <3>2. counting' = Sent
      BY <1>1, <2>1, <3>1, SentJoined
    <3> QED
      BY <1>1, <3>2, SameCount DEF CountInv
  <2>2. CASE Stated # <<>> /\ text = <<>> /\ \E c \in Rereads : inConstr = <<c>>
    <3>1. PICK c \in Rereads : inConstr = <<c>>
      BY <2>2
    <3>2. ByName(c) = TheOne
      BY <1>3, <2>2, InputsType, PredicateAgain DEF KeptInv
    <3>3. Image(ByName, inConstr) = <<TheOne>>
      <4>1. DOMAIN inConstr = {1} /\ inConstr[1] = c
        BY <3>1, OneIs
      <4>2. Image(ByName, inConstr) = [i \in {1} |-> ByName(inConstr[i])]
        BY <4>1 DEF Image
      <4>3. Image(ByName, inConstr) = [i \in {1} |-> TheOne]
        BY <3>2, <4>1, <4>2
      <4> QED
        BY <4>3, OneIs
    <3>4. counting' = Sent
      BY <1>1, <2>2, <3>3, JoinedOne DEF Sent
    <3> QED
      BY <1>1, <3>4, SameCount DEF CountInv
  <2> QED
    BY <1>1, <1>3, <2>1, <2>2 DEF CountInv
<1> QED
  BY <1>2, <1>3

LEMMA StepCount ==
  KeptInv /\ TreatedInv /\ CountInv /\ [Next]_vars => CountInv'
<1> SUFFICES ASSUME KeptInv, TreatedInv, CountInv, [Next]_vars PROVE CountInv'
  OBVIOUS
<1>1. CASE UNCHANGED vars
  <2>1. /\ UNCHANGED <<inputs, pc, where, inConstr, at, text, counting>>
    BY <1>1 DEF vars
  <2> QED
    BY <2>1, SameCount, SameWhereText DEF CountInv
<1>2. CASE LoadConstraint
  BY <1>2, LoadCountAgrees
<1>3. CASE EndLoad
  BY <1>3, EndLoadCountAgrees
<1>4. CASE Pass
  <2>1. UNCHANGED <<inputs, pc, inConstr, text, counting>>
        /\ pc \in {"count", "recount", "select", "fly"}
    BY <1>4 DEF Pass, InLoop
  <2> QED
    BY <2>1, SameCount DEF CountInv
<1>5. CASE Replace
  BY <1>5, ReplaceCountAgrees
<1>6. CASE StartCount
  BY <1>6, StartCountAgrees
<1>7. CASE EndCount
  BY <1>7, EndCountAgrees
<1>8. CASE StartSelect
  <2>1. UNCHANGED <<inputs, counting>> /\ pc = "select" /\ pc' = "ask"
    BY <1>8 DEF StartSelect
  <2> QED
    BY <2>1, SameCount DEF CountInv
<1>9. CASE EndSelect
  <2>1. UNCHANGED <<inputs, counting>> /\ pc = "fly" /\ pc' = "done"
    BY <1>9 DEF EndSelect
  <2> QED
    BY <2>1, SameCount DEF CountInv
<1>10. CASE BreakDown
  <2>1. UNCHANGED inputs /\ pc' = "failed"
    BY <1>10 DEF BreakDown
  <2> QED
    BY <2>1 DEF CountInv
<1> QED
  BY <1>1, <1>2, <1>3, <1>4, <1>5, <1>6, <1>7, <1>8, <1>9, <1>10 DEF Next, Step

LEMMA AlwaysCount == Spec => []CountInv
<1>1. Init => CountInv
  BY DEF Init, CountInv
<1> QED
  BY <1>1, StepCount, AlwaysKept, AlwaysTreated, PTL DEF Spec

\* The COUNT statement has the predicate of the SELECT and no other, when the
\* request has no constraint and the section at most one, on a column it
\* selects by its name, and no word for a comparator is replaced in its turn
\* (buildCountQuery(), which reads its own text again).
THEOREM QueryCountAgrees == Spec => []CountAgrees
<1>1. KeptInv /\ TextInv /\ TreatedInv /\ CountInv => CountAgrees
  <2> SUFFICES ASSUME KeptInv, TextInv, TreatedInv, CountInv, pc = "done",
                      PlainCount
               PROVE  counting = selecting
    BY DEF CountAgrees
  <2>1. counting = Sent
    BY DEF CountInv
  <2>2. inConstr = <<>>
    <3>1. Asked = <<>> /\ Len(Asked) = 0
      BY DEF PlainCount, Asked
    <3>2. inConstr \in Seq(Members) /\ Len(inConstr) = Len(Asked)
      BY DEF KeptInv, Holds
    <3> QED
      BY <3>1, <3>2, EmptySeq
  <2>3. Len(Stated) <= 1 /\ AllTreated(where)
    BY FewIfPlain DEF TreatedInv
  <2>4. WhereText = Sent
    BY <2>3, WhereTextIs
  <2>5. Image(ByName, inConstr) = <<>>
    BY <2>2 DEF Image
  <2>6. selecting = Joined(Sent, <<>>)
    BY <2>4, <2>5 DEF TextInv
  <2> QED
    BY <2>1, <2>6, SentJoined
<1> QED
  BY <1>1, AlwaysKept, AlwaysText, AlwaysTreated, AlwaysCount, PTL
=============================================================================
