---------------------------- MODULE DatasetProofs ----------------------------
(***************************************************************************)
(* The proofs about the parser of dataset files.  Its first part is about  *)
(* DatasetFile, for files of any length, with any tags, known or not, and  *)
(* with or without rows before the first one: the sections stored are as   *)
(* many as the file has, whole, and made of their own rows.  FileInv adds  *)
(* what makes this inductive: where the rows of the section being read     *)
(* stand (SectionInv), and that a mark in the diary means that what it     *)
(* marks was read (DiaryInv).                                              *)
(*                                                                         *)
(* The second part is about AttributeList, for rows of any length, any     *)
(* names and any values: the attributes matched in a [select] part are     *)
(* attributes of the list in their order, and those with nothing malformed *)
(* before them are all found.  SplitInv makes this inductive: the text is  *)
(* always a piece with no attribute in it, then the list from one of its   *)
(* commas on.                                                              *)
(***************************************************************************)
EXTENDS DatasetFile, AttributeList, FiniteSetTheorems, SequenceTheorems, TLAPS

\* The number of the section being read; rows before the first tag count to it.
Current == IF start THEN 1 ELSE label[1]

-----------------------------------------------------------------------------
(* A label is a number and a tag.                                          *)
LEMMA LabelParts ==
  ASSUME NEW l \in Labels
  PROVE  /\ l[1] \in Nat /\ l[1] <= MaxSections
         /\ l[2] \in Tags \cup {"none"} /\ l = <<l[1], l[2]>>
BY DatasetFileAssumption DEF Labels

LEMMA NewLabel ==
  ASSUME NEW n \in Nat, n <= MaxSections, NEW tag \in Tags \cup {"none"}
  PROVE  /\ <<n, tag>> \in Labels
         /\ <<n, tag>>[1] = n /\ <<n, tag>>[2] = tag
BY DatasetFileAssumption DEF Labels

LEMMA FileInit == Init => FileInv
<1> SUFFICES ASSUME Init PROVE FileInv
  OBVIOUS
<1>1. label = <<0, "none">> /\ label \in Labels /\ label[1] = 0 /\ label[2] = "none"
  BY NewLabel, DatasetFileAssumption DEF Init
<1>2. section \in [Fields -> SUBSET Labels] /\ \A f \in Fields : section[f] = {}
  BY DEF Init, NewSection
<1>3. dataset \in Seq([Fields -> SUBSET Labels]) /\ Len(dataset) = 0
  BY DEF Init
<1>4. DatasetTypeOK
  BY <1>1, <1>2, <1>3, DatasetFileAssumption DEF Init, DatasetTypeOK
<1>5. SectionInv /\ DiaryInv
  BY <1>2 DEF Init, SectionInv, DiaryInv
<1>6. PartInv /\ LengthInv
  BY <1>1, <1>3 DEF Init, PartInv, LengthInv, KnownTags
<1>7. SectionsHaveRequired /\ RowsOfOwnSection
  BY <1>3 DEF SectionsHaveRequired, RowsOfOwnSection
<1> QED
  BY <1>4, <1>5, <1>6, <1>7 DEF FileInv

(* A step that ends the reading without storing anything.                  *)
LEMMA ThrowKeeps ==
  ASSUME FileInv, status = "reading", Throw
  PROVE  FileInv'
BY DEF FileInv, Throw, DatasetTypeOK, PartInv, LengthInv, SectionsHaveRequired,
       RowsOfOwnSection

-----------------------------------------------------------------------------
(* Where a row is put, while its part is open, is its place.               *)
LEMMA ReadInPlace ==
  ASSUME FileInv, NEW f \in Fields, part = PartOf(f)
  PROVE  InPlace(label, f, Current)
<1>1. label \in Labels /\ (start <=> label[1] = 0)
  BY DEF FileInv, DatasetTypeOK
<1>2. label[2] \in KnownTags => label[2] = PartOf(f)
  BY DEF FileInv, PartInv
<1> QED
  BY <1>1, <1>2 DEF InPlace, Current

(* A row that is put into a field of the section.                          *)
LEMMA FieldRowKeeps ==
  ASSUME FileInv, status = "reading",
         NEW f \in Fields \ {"select", "where"}, part = PartOf(f),
         NEW rows \in {{label}, section[f] \cup {label}},
         section' = [section EXCEPT ![f] = rows],
         complete' \in SUBSET Parts, complete \subseteq complete',
         complete' \subseteq complete \cup {f, "section"},
         "section" \in complete' => {"api", "server"} \subseteq complete',
         UNCHANGED <<status, start, part, attribute, where, dataset, known, label>>
  PROVE  FileInv'
<1> USE DEF FileInv
<1>1. InPlace(label, f, Current)
  BY ReadInPlace
<1>2. section \in [Fields -> SUBSET Labels] /\ label \in Labels
  BY DEF DatasetTypeOK
<1>3. section' \in [Fields -> SUBSET Labels]
  BY <1>2
<1>4. DatasetTypeOK'
  BY <1>3 DEF DatasetTypeOK
<1>5. section'[f] = rows /\ \A g \in Fields \ {f} : section'[g] = section[g]
  BY <1>2
<1>6. \A l \in rows : InPlace(l, f, Current)
  BY <1>1 DEF SectionInv, Current
<1>7. \A g \in Fields : \A l \in section'[g] : InPlace(l, g, Current)
  BY <1>5, <1>6 DEF SectionInv, Current
<1>8. SectionInv'
  BY <1>7 DEF SectionInv, Current, InPlace
<1>9. DiaryInv'
  BY <1>5 DEF DiaryInv, Fields
<1>10. PartInv' /\ LengthInv' /\ SectionsHaveRequired' /\ RowsOfOwnSection'
  BY DEF PartInv, LengthInv, SectionsHaveRequired, RowsOfOwnSection, InPlace
<1> QED
  BY <1>4, <1>8, <1>9, <1>10

(* A row that is collected in a text.                                      *)
LEMMA TextRowKeeps ==
  ASSUME FileInv, status = "reading", SelectRow \/ WhereRow
  PROVE  FileInv'
<1> USE DEF FileInv
<1>1. CASE SelectRow
  <2>1. InPlace(label, "select", Current)
    BY <1>1, ReadInPlace DEF SelectRow, PartOf, Fields, Keys
  <2>2. DatasetTypeOK'
    BY <1>1 DEF SelectRow, DatasetTypeOK, Parts, KnownTags
  <2>3. SectionInv' /\ DiaryInv'
    BY <1>1, <2>1 DEF SelectRow, SectionInv, DiaryInv, Current, InPlace
  <2>4. PartInv' /\ LengthInv' /\ SectionsHaveRequired' /\ RowsOfOwnSection'
    BY <1>1 DEF SelectRow, PartInv, LengthInv, SectionsHaveRequired,
                RowsOfOwnSection, InPlace
  <2> QED
    BY <2>2, <2>3, <2>4
<1>2. CASE WhereRow
  <2>1. InPlace(label, "where", Current)
    BY <1>2, ReadInPlace DEF WhereRow, PartOf, Fields, Keys
  <2>2. DatasetTypeOK'
    BY <1>2 DEF WhereRow, DatasetTypeOK, Parts, KnownTags
  <2>3. SectionInv' /\ DiaryInv'
    BY <1>2, <2>1 DEF WhereRow, SectionInv, DiaryInv, Current, InPlace
  <2>4. PartInv' /\ LengthInv' /\ SectionsHaveRequired' /\ RowsOfOwnSection'
    BY <1>2 DEF WhereRow, PartInv, LengthInv, SectionsHaveRequired,
                RowsOfOwnSection, InPlace
  <2> QED
    BY <2>2, <2>3, <2>4
<1> QED
  BY <1>1, <1>2

(* The rows that are no tags.                                              *)
LEMMA RowKeeps ==
  ASSUME FileInv, status = "reading",
         \/ \E v \in Variables : DefineVariable(v)
         \/ \E key \in Keys : SectionKey(key)
         \/ SelectRow \/ FromRow \/ WhereRow \/ OtherRow
  PROVE  FileInv'
<1>1. CASE \E v \in Variables : DefineVariable(v)
  BY <1>1 DEF FileInv, DefineVariable, DatasetTypeOK, PartInv, SectionInv, DiaryInv,
              LengthInv, SectionsHaveRequired, RowsOfOwnSection, InPlace
<1>2. CASE \E key \in Keys : SectionKey(key)
  <2>1. PICK key \in Keys : SectionKey(key)
    BY <1>2
  <2>2. key \in Fields \ {"select", "where"} /\ part = PartOf(key)
    BY <2>1 DEF SectionKey, Keys, Fields, PartOf
  <2>3. complete \in SUBSET Parts
    BY DEF FileInv, DatasetTypeOK
  <2>4. /\ Marked(key) \in SUBSET Parts /\ complete \subseteq Marked(key)
        /\ Marked(key) \subseteq complete \cup {key, "section"}
    BY <2>3 DEF Marked, Parts, KnownTags
  <2>5. "section" \in Marked(key) => {"api", "server"} \subseteq Marked(key)
    BY DEF Marked, FileInv, DiaryInv, Keys
  <2> HIDE DEF Marked
  <2> QED
    BY <2>1, <2>2, <2>4, <2>5, FieldRowKeeps DEF SectionKey
<1>3. CASE FromRow
  <2>1. "from" \in Fields \ {"select", "where"} /\ part = PartOf("from")
    BY <1>3 DEF FromRow, Fields, PartOf, Keys
  <2>2. complete' \in SUBSET Parts
    BY <1>3 DEF FromRow, FileInv, DatasetTypeOK, Parts, KnownTags
  <2>3. "section" \in complete' => {"api", "server"} \subseteq complete'
    BY <1>3 DEF FromRow, FileInv, DiaryInv
  <2> QED
    BY <1>3, <2>1, <2>2, <2>3, FieldRowKeeps DEF FromRow
<1>4. CASE OtherRow
  <2>1. "other" \in Fields \ {"select", "where"} /\ part = PartOf("other")
    BY <1>4 DEF OtherRow, Fields, PartOf, Keys
  <2>2. complete' \in SUBSET Parts
    BY <1>4 DEF OtherRow, FileInv, DatasetTypeOK, Parts, KnownTags
  <2>3. "section" \in complete' => {"api", "server"} \subseteq complete'
    BY <1>4 DEF OtherRow, FileInv, DiaryInv
  <2> QED
    BY <1>4, <2>1, <2>2, <2>3, FieldRowKeeps DEF OtherRow
<1>5. CASE SelectRow \/ WhereRow
  BY <1>5, TextRowKeeps
<1> QED
  BY <1>1, <1>2, <1>3, <1>4, <1>5

-----------------------------------------------------------------------------
(* What is stored is whole, and of its own rows; nothing is left in the    *)
(* texts.                                                                  *)
LEMMA SectionStored ==
  ASSUME FileInv, status = "reading", ~start, NEW empty \in MayBeEmpty,
         AddNewSection(empty)
  PROVE  /\ dataset' \in Seq([Fields -> SUBSET Labels])
         /\ Len(dataset') = Len(dataset) + 1
         /\ SectionsHaveRequired' /\ RowsOfOwnSection'
         /\ attribute' = {} /\ where' = {}
<1> USE DEF FileInv
<1> DEFINE new == WithTexts(empty)
<1>1. /\ section \in [Fields -> SUBSET Labels]
      /\ attribute \subseteq Labels /\ where \subseteq Labels
      /\ dataset \in Seq([Fields -> SUBSET Labels]) /\ label[1] \in Nat
  BY LabelParts DEF DatasetTypeOK
<1>2. /\ new["select"] = IF "select" \in complete \ empty THEN attribute ELSE section["select"]
      /\ new["where"] = IF "where" \in complete \ empty THEN where ELSE section["where"]
      /\ \A f \in Fields \ {"select", "where"} : new[f] = section[f]
      /\ new \in [Fields -> SUBSET Labels]
  BY <1>1 DEF WithTexts, Fields
<1>3. \A f \in Fields : \A l \in new[f] : InPlace(l, f, label[1])
  BY <1>2 DEF SectionInv, Fields
<1>4. /\ {"section", "select", "from"} \subseteq complete
      /\ "select" \notin empty
  BY DEF AddNewSection, Complete, Loaded, Required
<1>5. \A f \in {"api", "server", "select", "from"} : new[f] # {}
  BY <1>2, <1>4 DEF DiaryInv, Fields
<1>6. Len(dataset) + 1 = label[1]
  BY <1>1 DEF LengthInv
<1> HIDE DEF new
<1>7. dataset' = Append(dataset, new)
  BY DEF AddNewSection, new
<1>8. /\ dataset' \in Seq([Fields -> SUBSET Labels]) /\ Len(dataset') = Len(dataset) + 1
      /\ \A n \in 1..Len(dataset) : dataset'[n] = dataset[n]
      /\ dataset'[Len(dataset) + 1] = new
  BY <1>1, <1>2, <1>7
<1>9. \A n \in 1..Len(dataset') : n \in 1..Len(dataset) \/ n = Len(dataset) + 1
  BY <1>1, <1>8
<1>10. SectionsHaveRequired'
  BY <1>5, <1>8, <1>9 DEF SectionsHaveRequired
<1>11. RowsOfOwnSection'
  BY <1>3, <1>6, <1>8, <1>9 DEF RowsOfOwnSection, InPlace
<1>12. attribute' = {} /\ where' = {}
  BY DEF AddNewSection, Kept, DiaryInv
<1> QED
  BY <1>8, <1>10, <1>11, <1>12

-----------------------------------------------------------------------------
LEMMA FirstTagKeeps == ASSUME FileInv, FirstSectionTag PROVE FileInv'
<1> USE DEF FileInv
<1>1. label[1] = 0 /\ status = "reading"
  BY DEF FirstSectionTag, DatasetTypeOK
<1>2. label' = <<1, "section">>
  BY <1>1, DatasetFileAssumption DEF FirstSectionTag, Counted
<1>3. label' \in Labels /\ label'[1] = 1 /\ label'[2] = "section"
  BY <1>2, NewLabel, DatasetFileAssumption
<1>4. DatasetTypeOK'
  <2>1. start' \in BOOLEAN /\ (start' <=> label'[1] = 0)
    <3>1. ~start' /\ start' \in BOOLEAN
      BY DEF FirstSectionTag
    <3>2. label'[1] # 0
      BY <1>3
    <3> QED
      BY <3>1, <3>2
  <2>2. part' \in Parts
    BY DEF FirstSectionTag, Parts, KnownTags
  <2> QED
    BY <1>3, <2>1, <2>2 DEF FirstSectionTag, DatasetTypeOK
<1>5. SectionInv' /\ DiaryInv'
  BY <1>1, <1>3 DEF FirstSectionTag, SectionInv, DiaryInv, InPlace
<1>6. PartInv' /\ LengthInv' /\ SectionsHaveRequired' /\ RowsOfOwnSection'
  BY <1>1, <1>3 DEF FirstSectionTag, PartInv, LengthInv, SectionsHaveRequired,
                    RowsOfOwnSection, InPlace
<1> QED
  BY <1>4, <1>5, <1>6

LEMMA NextTagKeeps == ASSUME FileInv, NextSectionTag PROVE FileInv'
<1> USE DEF FileInv
<1>1. PICK empty \in MayBeEmpty : AddNewSection(empty)
  BY DEF NextSectionTag
<1>2. status = "reading" /\ ~start /\ label[1] < MaxSections
  BY DEF NextSectionTag
<1>3. /\ dataset' \in Seq([Fields -> SUBSET Labels]) /\ Len(dataset') = Len(dataset) + 1
      /\ SectionsHaveRequired' /\ RowsOfOwnSection'
      /\ attribute' = {} /\ where' = {}
  BY <1>1, <1>2, SectionStored
<1>4. label[1] \in Nat /\ label[1] # 0 /\ Len(dataset) = label[1] - 1
  BY <1>2, LabelParts DEF DatasetTypeOK, LengthInv
<1>5. label' = <<label[1] + 1, "section">>
  BY <1>2 DEF NextSectionTag, Counted
<1>6. label' \in Labels /\ label'[1] = label[1] + 1 /\ label'[2] = "section"
  BY <1>2, <1>4, <1>5, NewLabel, DatasetFileAssumption
<1>7. section' \in [Fields -> SUBSET Labels] /\ \A f \in Fields : section'[f] = {}
  BY DEF NextSectionTag, NewSection
<1>8. DatasetTypeOK'
  BY <1>2, <1>3, <1>4, <1>6, <1>7, DatasetFileAssumption
     DEF NextSectionTag, NewDiary, DatasetTypeOK, Parts, KnownTags
<1>9. SectionInv' /\ DiaryInv'
  BY <1>3, <1>7 DEF NextSectionTag, NewDiary, SectionInv, DiaryInv
<1>10. PartInv' /\ LengthInv'
  BY <1>2, <1>3, <1>4, <1>6 DEF NextSectionTag, PartInv, LengthInv
<1> QED
  BY <1>3, <1>8, <1>9, <1>10

LEMMA OtherTagKeeps ==
  ASSUME FileInv, NEW tag \in Tags, OtherTag(tag) PROVE FileInv'
<1> USE DEF FileInv
<1>1. label[1] \in Nat /\ label[1] <= MaxSections
  BY LabelParts DEF DatasetTypeOK
<1>2. label' \in Labels /\ label'[1] = label[1] /\ label'[2] = tag
  BY <1>1, NewLabel DEF OtherTag
<1>3. DatasetTypeOK'
  BY <1>2 DEF OtherTag, DatasetTypeOK, Parts
<1>4. SectionInv' /\ DiaryInv'
  BY <1>2 DEF OtherTag, SectionInv, DiaryInv, InPlace
<1>5. PartInv' /\ LengthInv' /\ SectionsHaveRequired' /\ RowsOfOwnSection'
  BY <1>2 DEF OtherTag, PartInv, LengthInv, SectionsHaveRequired,
              RowsOfOwnSection, InPlace
<1> QED
  BY <1>3, <1>4, <1>5

LEMMA EndKeeps == ASSUME FileInv, EndOfFile PROVE FileInv'
<1> USE DEF FileInv
<1>1. status = "reading" /\ UNCHANGED <<start, part, complete, section, known, label>>
  BY DEF EndOfFile
<1>2. CASE start
  BY <1>1, <1>2 DEF EndOfFile, StoresLast, DatasetTypeOK, PartInv, LengthInv,
     SectionsHaveRequired, RowsOfOwnSection, InPlace
<1>3. CASE ~start
  <2>1. status' = "true"
    BY <1>3 DEF EndOfFile, StoresLast
  <2>2. PICK empty \in MayBeEmpty : AddNewSection(empty)
    BY <1>3 DEF EndOfFile, StoresLast
  <2>3. /\ dataset' \in Seq([Fields -> SUBSET Labels]) /\ Len(dataset') = Len(dataset) + 1
        /\ SectionsHaveRequired' /\ RowsOfOwnSection'
        /\ attribute' = {} /\ where' = {}
    BY <1>1, <1>3, <2>2, SectionStored
  <2>4. label[1] \in Nat /\ label[1] <= MaxSections /\ Len(dataset) = label[1] - 1
    BY <1>1, <1>3, LabelParts DEF DatasetTypeOK, LengthInv
  <2>5. DatasetTypeOK' /\ PartInv' /\ LengthInv'
    BY <1>1, <1>3, <2>1, <2>3, <2>4, DatasetFileAssumption
       DEF DatasetTypeOK, PartInv, LengthInv
  <2> QED
    BY <2>1, <2>3, <2>5
<1> QED
  BY <1>2, <1>3

-----------------------------------------------------------------------------
LEMMA FileStep == FileInv /\ [Next]_vars => FileInv'
<1> SUFFICES ASSUME FileInv, [Next]_vars PROVE FileInv'
  OBVIOUS
<1>1. CASE UNCHANGED vars
  BY <1>1 DEF vars, FileInv, DatasetTypeOK, PartInv, SectionInv, DiaryInv, LengthInv,
              SectionsHaveRequired, RowsOfOwnSection, InPlace
<1>2. CASE OpenFails \/ SectionIncomplete \/ TextRefused \/ UndefinedVariable
             \/ BadSectionRow
  <2>1. status = "reading" /\ Throw
    BY <1>2 DEF OpenFails, SectionIncomplete, TextRefused, UndefinedVariable,
                BadSectionRow, HasRows
  <2> QED
    BY <2>1, ThrowKeeps
<1>3. CASE FirstSectionTag
  BY <1>3, FirstTagKeeps
<1>4. CASE NextSectionTag
  BY <1>4, NextTagKeeps
<1>5. CASE \E tag \in Tags : OtherTag(tag)
  BY <1>5, OtherTagKeeps
<1>6. CASE \/ \E v \in Variables : DefineVariable(v)
           \/ \E key \in Keys : SectionKey(key)
           \/ SelectRow \/ FromRow \/ WhereRow \/ OtherRow
  <2>1. status = "reading"
    BY <1>6 DEF DefineVariable, SectionKey, SelectRow, FromRow, WhereRow, OtherRow, HasRows
  <2> QED
    BY <1>6, <2>1, RowKeeps
<1>7. CASE EndOfFile
  BY <1>7, EndKeeps
<1> QED
  BY <1>1, <1>2, <1>3, <1>4, <1>5, <1>6, <1>7 DEF Next, ReadRow

LEMMA FileInvariant == Spec => []FileInv
<1>1. Init => FileInv
  BY FileInit
<1>2. FileInv /\ [Next]_vars => FileInv'
  BY FileStep
<1> QED
  BY <1>1, <1>2, PTL DEF Spec

-----------------------------------------------------------------------------
(* No section is stored that lacks a part requirements() names, however    *)
(* many sections come before it (addNewSection, the completion diary).     *)
THEOREM SectionsAreComplete == Spec => []SectionsHaveRequired
<1>1. FileInv => SectionsHaveRequired
  BY DEF FileInv
<1> QED
  BY <1>1, FileInvariant, PTL

(* No row gets into another section than its own, nor, under a tag the     *)
(* parser knows, into another part (_attribute and _where are cleared).    *)
THEOREM RowsStayInSection == Spec => []RowsOfOwnSection
<1>1. FileInv => RowsOfOwnSection
  BY DEF FileInv
<1> QED
  BY <1>1, FileInvariant, PTL

(* A file read to its end gave every section it has, a file that gave none *)
(* has no [section] tag (the two places addNewSection is called from).     *)
THEOREM SectionsAreKept == Spec => []NoSectionLost
<1>1. FileInv => NoSectionLost
  BY DEF FileInv, DatasetTypeOK, LengthInv, NoSectionLost
<1> QED
  BY <1>1, FileInvariant, PTL

-----------------------------------------------------------------------------
(* The lists of attributes: places in a text.                              *)

\* A set of numbers has a least one.
LEMMA LeastPlace ==
  ASSUME NEW P \in SUBSET Nat, P # {}
  PROVE  \E n \in P : \A m \in P : n <= m
<1> DEFINE U == {0..n : n \in P}
<1>1. U \subseteq FiniteSubsetsOf(Nat)
  <2>1. ASSUME NEW n \in P PROVE 0..n \in FiniteSubsetsOf(Nat)
    <3>1. IsFiniteSet(0..n)
      BY FS_Interval
    <3>2. 0..n \in SUBSET Nat
      OBVIOUS
    <3> QED
      BY <3>1, <3>2 DEF FiniteSubsetsOf
  <2> QED
    BY <2>1
<1>2. PICK x \in U : \A y \in U : ~(<<y, x>> \in StrictSubsetOrdering(Nat))
  <2>1. U # {}
    OBVIOUS
  <2> HIDE DEF U
  <2> QED
    BY <1>1, <2>1, FS_StrictSubsetOrderingWellFounded, WFMin, Zenon
<1>3. PICK n \in P : \A m \in P : ~(<<0..m, 0..n>> \in StrictSubsetOrdering(Nat))
  BY <1>2
<1>4. ASSUME NEW m \in P, m < n PROVE FALSE
  <2>1. /\ 0..m \subseteq 0..n /\ 0..m # 0..n
        /\ 0..m \in SUBSET Nat /\ 0..n \in SUBSET Nat
    BY <1>4
  <2> QED
    BY <1>3, <2>1 DEF StrictSubsetOrdering
<1> QED
  BY <1>3, <1>4

Text == Seq(Classes)

\* The characters of an attribute.
Good == {"a", "space"}

\* An attribute is characters of words and spaces, at least one.
LEMMA AttributeIs ==
  ASSUME NEW t \in Text, NEW b \in Nat \ {0}, NEW e \in 0..Len(t)
  PROVE  Attribute(SubSeq(t, b, e)) <=> b <= e /\ \A m \in b..e : t[m] \in Good
<1> DEFINE s == SubSeq(t, b, e)
<1>1. Len(t) \in Nat /\ \A m \in b..e : t[m] \in Classes
  <2>1. Len(t) \in Nat
    BY LenProperties DEF Text
  <2>2. ASSUME NEW m \in b..e PROVE m \in 1..Len(t)
    BY <2>1
  <2> QED
    BY <2>1, <2>2, ElementOfSeq DEF Text
<1>2. b \in Int /\ e \in Int
  BY <1>1
<1>3. /\ s \in Seq(Classes) /\ Len(s) = IF b <= e THEN e - b + 1 ELSE 0
      /\ \A i \in 1..e - b + 1 : s[i] = t[b + i - 1]
  BY <1>1, <1>2, SubSeqProperties
<1> HIDE DEF s
<1>4. ASSUME b <= e, \A m \in b..e : t[m] \in Good
      PROVE  s \in Seq(Good) /\ s # <<>>
  <2>1. Len(s) = e - b + 1 /\ s # <<>>
    BY <1>2, <1>3, <1>4
  <2>2. ASSUME NEW i \in 1..Len(s) PROVE s[i] \in Good
    <3>1. b + i - 1 \in b..e
      BY <1>2, <2>1, <2>2
    <3> QED
      BY <1>3, <1>4, <2>1, <3>1
  <2>3. s \in Seq(Good)
    <3>1. s \in [1..Len(s) -> Classes] /\ Len(s) \in Nat
      BY <1>3, LenProperties
    <3>2. s \in [1..Len(s) -> Good]
      BY <2>2, <3>1
    <3> QED
      BY <3>1, <3>2
  <2> QED
    BY <2>1, <2>3
<1>5. ASSUME s \in Seq(Good), s # <<>>
      PROVE  b <= e /\ \A m \in b..e : t[m] \in Good
  <2>1. Len(s) # 0
    BY <1>5, EmptySeq
  <2>2. b <= e
    BY <1>3, <2>1
  <2>3. ASSUME NEW m \in b..e PROVE t[m] \in Good
    <3> DEFINE i == m - b + 1
    <3>1. i \in 1..Len(s) /\ b + i - 1 = m
      BY <1>2, <1>3, <2>2
    <3>2. s[i] \in Good
      BY <1>5, <3>1, ElementOfSeq
    <3>3. i \in 1..e - b + 1
      BY <1>3, <2>2, <3>1
    <3> QED
      BY <1>3, <3>1, <3>2, <3>3
  <2> QED
    BY <2>2, <2>3
<1> QED
  BY <1>4, <1>5 DEF s, Attribute, Good

\* Where an attribute begins and ends that is matched from i to j.
FirstOf(t, i) == IF t[i] = "comma" THEN i + 1 ELSE i
LastOf(t, j) == IF t[j] = "comma" THEN j - 1 ELSE j

\* A match, character by character.
LEMMA MatchesIs ==
  ASSUME NEW t \in Text, NEW i \in DOMAIN t, NEW j \in DOMAIN t
  PROVE  Matches(t, i, j) <=>
           /\ i <= j
           /\ i = 1 \/ t[i] = "comma"
           /\ j = Len(t) \/ t[j] = "comma"
           /\ FirstOf(t, i) <= LastOf(t, j)
           /\ \A m \in FirstOf(t, i)..LastOf(t, j) : t[m] \in Good
<1>1. Len(t) \in Nat /\ DOMAIN t = 1..Len(t)
  BY LenProperties DEF Text
<1>2. FirstOf(t, i) \in Nat \ {0} /\ LastOf(t, j) \in 0..Len(t)
  BY <1>1 DEF FirstOf, LastOf
<1>3. Inner(t, i, j) = SubSeq(t, FirstOf(t, i), LastOf(t, j))
  BY DEF Inner, FirstOf, LastOf
<1>4. Attribute(Inner(t, i, j)) <=>
        /\ FirstOf(t, i) <= LastOf(t, j)
        /\ \A m \in FirstOf(t, i)..LastOf(t, j) : t[m] \in Good
  BY <1>2, <1>3, AttributeIs
<1> QED
  BY <1>4 DEF Matches

\* There is a leftmost match, and Span is one.
LEMMA SpanIs ==
  ASSUME NEW t \in Text, Spans(t) # {}
  PROVE  /\ Span(t) \in Spans(t)
         /\ \A r \in Spans(t) : Span(t)[1] <= r[1]
<1>1. Len(t) \in Nat /\ DOMAIN t = 1..Len(t)
  BY LenProperties DEF Text
<1>2. \A r \in Spans(t) : r[1] \in 1..Len(t) /\ r[2] \in 1..Len(t)
  BY <1>1 DEF Spans
<1> DEFINE P == {r[1] : r \in Spans(t)}
<1>3. P \in SUBSET Nat /\ P # {}
  BY <1>1, <1>2
<1> HIDE DEF P
<1>4. PICK n \in P : \A m \in P : n <= m
  BY <1>3, LeastPlace
<1> DEFINE Q == {Len(t) - r[2] : r \in {r \in Spans(t) : r[1] = n}}
<1>5. Q \in SUBSET Nat /\ Q # {}
  <2>1. \A r \in Spans(t) : Len(t) - r[2] \in Nat
    BY <1>1, <1>2
  <2>2. \E r \in Spans(t) : r[1] = n
    BY <1>4 DEF P
  <2> QED
    BY <2>1, <2>2
<1> HIDE DEF Q
<1>6. PICK d \in Q : \A m \in Q : d <= m
  BY <1>5, LeastPlace
<1>7. PICK s \in Spans(t) : s[1] = n /\ Len(t) - s[2] = d
  BY <1>6 DEF Q
<1>8. ASSUME NEW r \in Spans(t)
      PROVE  s[1] < r[1] \/ (s[1] = r[1] /\ s[2] >= r[2])
  <2>1. n <= r[1] /\ n \in Nat /\ r[1] \in Nat
    BY <1>1, <1>2, <1>3, <1>4 DEF P
  <2>2. CASE r[1] = n
    <3>1. d <= Len(t) - r[2]
      BY <1>6, <2>2 DEF Q
    <3> QED
      BY <1>1, <1>2, <1>7, <2>2, <3>1
  <2>3. CASE r[1] # n
    BY <1>7, <2>1, <2>3
  <2> QED
    BY <2>2, <2>3
<1>9. /\ Span(t) \in Spans(t)
      /\ \A r \in Spans(t) : \/ Span(t)[1] < r[1]
                             \/ Span(t)[1] = r[1] /\ Span(t)[2] >= r[2]
  BY <1>7, <1>8 DEF Span
<1> QED
  BY <1>1, <1>2, <1>9

\* What holds no attribute ends with a comma or has another character.
LEMMA LooseEnd ==
  ASSUME NEW l \in Text, l # <<>>, Spans(l) = {},
         \A m \in DOMAIN l : l[m] \in Good \cup {"comma"}
  PROVE  l[Len(l)] = "comma"
<1> SUFFICES ASSUME l[Len(l)] # "comma" PROVE FALSE
  OBVIOUS
<1> DEFINE n == Len(l)
<1>1. n \in Nat \ {0} /\ DOMAIN l = 1..n /\ l[n] # "comma"
  BY LenProperties, EmptySeq DEF Text
<1> HIDE DEF n
<1> DEFINE Q == {c \in 0..n : c = n \/ l[n - c] = "comma"}
<1>2. Q \in SUBSET Nat /\ Q # {}
  <2>1. n \in Q
    BY <1>1
  <2> QED
    BY <2>1
<1> HIDE DEF Q
<1>3. PICK c \in Q : \A d \in Q : c <= d
  BY <1>2, LeastPlace
<1>4. c \in 1..n /\ (c = n \/ l[n - c] = "comma")
  <2>1. c \in 0..n /\ (c = n \/ l[n - c] = "comma")
    BY <1>3 DEF Q
  <2>2. n - 0 = n
    BY <1>1
  <2>3. c # 0
    BY <1>1, <2>1, <2>2
  <2> QED
    BY <1>1, <2>1, <2>3
<1>5. ASSUME NEW m \in n - c + 1..n PROVE m \in DOMAIN l /\ l[m] \in Good /\ l[m] # "comma"
  <2> DEFINE d == n - m
  <2>1. d \in 0..n /\ d < c /\ n - d = m /\ m \in 1..n /\ d # n
    BY <1>1, <1>4, <1>5
  <2>2. d \notin Q
    BY <1>3, <1>4, <2>1
  <2>3. l[m] # "comma"
    BY <2>1, <2>2 DEF Q
  <2> QED
    BY <1>1, <2>1, <2>3
<1> DEFINE i == IF c = n THEN 1 ELSE n - c
<1>6. i \in DOMAIN l /\ n \in DOMAIN l /\ i <= n /\ (i = 1 \/ l[i] = "comma")
  BY <1>1, <1>4
<1>7. FirstOf(l, i) = n - c + 1 /\ LastOf(l, n) = n
  <2>1. CASE c = n
    <3>1. i = 1 /\ n - c + 1 = 1
      BY <1>1, <2>1
    <3>2. l[1] # "comma"
      BY <1>1, <1>4, <1>5, <3>1
    <3> QED
      BY <1>1, <3>1, <3>2 DEF FirstOf, LastOf
  <2>2. CASE c # n
    <3>1. i = n - c /\ l[i] = "comma"
      BY <1>4, <2>2
    <3> QED
      BY <1>1, <1>4, <3>1 DEF FirstOf, LastOf
  <2> QED
    BY <2>1, <2>2
<1>8. n - c + 1 <= n
  BY <1>1, <1>4
<1> HIDE DEF i
<1>9. Matches(l, i, n)
  BY <1>5, <1>6, <1>7, <1>8, MatchesIs DEF n
<1>10. <<i, n>> \in Spans(l)
  BY <1>6, <1>9 DEF Spans
<1> QED
  BY <1>10

-----------------------------------------------------------------------------
(* What is left of the list.                                               *)

\* The list has a cut before k: it begins or ends there, or a comma is before it.
CutAt(k) == k = 1 \/ k = Len(list) + 1 \/ list[k - 1] = "comma"

\* Every character of l is one the list has before k.
From(l, k) == \A m \in DOMAIN l : \E q \in 1..k - 1 : l[m] = list[q]

\* The text is what is left of the list before k, in which there is no
\* attribute, and the list from k on; what was found stands before k.
Split(k, left, places) ==
  /\ text = left \o SubSeq(list, k, Len(list))
  /\ Spans(left) = {}
  /\ CutAt(k)
  /\ From(left, k)
  /\ FoundAt(places)
  /\ \A n \in DOMAIN found : places[n][2] < k
  /\ \A s \in FirstOnes(list) : s[2] < k => \E n \in DOMAIN found : places[n] = s

\* The text is split so somewhere.
SplitInv ==
  \E k \in 1..Len(list) + 1, left \in Text,
     places \in [DOMAIN found -> AttributePlaces(list)] : Split(k, left, places)

\* The text, character by character.
LEMMA TextIs ==
  ASSUME list \in Text, NEW k \in 1..Len(list) + 1, NEW left \in Text,
         text = left \o SubSeq(list, k, Len(list))
  PROVE  /\ text \in Text /\ Len(list) \in Nat /\ Len(left) \in Nat
         /\ Len(text) = Len(left) + (Len(list) + 1 - k)
         /\ \A i \in 1..Len(left) : text[i] = left[i]
         /\ \A i \in k..Len(list) : text[Len(left) + (i + 1 - k)] = list[i]
<1> DEFINE r == SubSeq(list, k, Len(list))
           n == Len(list)
           p == Len(left)
<1>1. n \in Nat /\ p \in Nat /\ \A i \in 1..n : list[i] \in Classes
  BY LenProperties, ElementOfSeq DEF Text
<1>2. k \in Int /\ n \in Int /\ \A i \in k..n : list[i] \in Classes
  BY <1>1
<1>3. /\ r \in Seq(Classes) /\ Len(r) = IF k <= n THEN n - k + 1 ELSE 0
      /\ \A i \in 1..n - k + 1 : r[i] = list[k + i - 1]
  BY <1>2, SubSeqProperties
<1>4. Len(r) = n + 1 - k
  BY <1>1, <1>3
<1> HIDE DEF r
<1>5. left \in Seq(Classes)
  BY DEF Text
<1>6. /\ left \o r \in Seq(Classes) /\ Len(left \o r) = p + Len(r)
      /\ \A i \in 1..p + Len(r) :
           (left \o r)[i] = IF i <= p THEN left[i] ELSE r[i - p]
  BY <1>3, <1>5, ConcatProperties
<1> HIDE DEF n, p
<1>7. text = left \o r
  BY DEF r
<1>8. \A i \in 1..p : text[i] = left[i]
  BY <1>1, <1>4, <1>6, <1>7
<1>9. ASSUME NEW i \in k..n PROVE text[p + (i + 1 - k)] = list[i]
  <2> DEFINE m == i + 1 - k
  <2>1. m \in 1..n - k + 1 /\ k + m - 1 = i /\ p + m \in 1..p + Len(r)
        /\ ~(p + m <= p) /\ (p + m) - p = m
    BY <1>1, <1>4, <1>9
  <2> HIDE DEF m
  <2>2. text[p + m] = r[m] /\ r[m] = list[i]
    BY <1>3, <1>6, <1>7, <2>1
  <2> QED
    BY <2>2 DEF m
<1> QED
  BY <1>1, <1>4, <1>6, <1>7, <1>8, <1>9 DEF n, p, Text

\* An attribute with nothing malformed before it is matched in the text, or one
\* before it is.
LEMMA FirstOneMatches ==
  ASSUME list \in Text, NEW k \in 1..Len(list) + 1, NEW left \in Text,
         NEW places, Split(k, left, places),
         NEW s \in FirstOnes(list), s[1] >= k
  PROVE  LET b == Len(left) + (s[1] + 1 - k)
         IN  \E i, j \in DOMAIN text :
               /\ Matches(text, i, j) /\ FirstOf(text, i) = b /\ i <= b
<1> DEFINE n == Len(list)
           p == Len(left)
           u == s[1]
           v == s[2]
           w == Len(text)
<1>1. /\ text \in Text /\ n \in Nat /\ p \in Nat /\ k \in 1..n + 1
      /\ w = p + (n + 1 - k)
      /\ \A i \in 1..p : text[i] = left[i]
      /\ \A i \in k..n : text[p + (i + 1 - k)] = list[i]
  BY TextIs DEF Split
<1>2. DOMAIN text = 1..w /\ DOMAIN list = 1..n /\ DOMAIN left = 1..p
  BY <1>1, LenProperties DEF Text
<1>3. /\ u \in 1..n /\ v \in 1..n /\ u >= k
      /\ u = 1 \/ list[u - 1] = "comma"
      /\ v = n \/ list[v + 1] = "comma"
      /\ Attribute(SubSeq(list, u, v))
      /\ \A m \in 1..v : list[m] \in Good \cup {"comma"}
  BY <1>2 DEF FirstOnes, AttributePlaces, Good
<1>4. u <= v /\ \A m \in u..v : list[m] \in Good
  <2>1. u \in Nat \ {0} /\ v \in 0..Len(list)
    BY <1>1, <1>3
  <2> HIDE DEF u, v, n
  <2> QED
    BY <1>3, <2>1, AttributeIs
<1> HIDE DEF n, p, u, v, w
<1> DEFINE b == p + (u + 1 - k)
           e == p + (v + 1 - k)
<1>5. k \in Nat \ {0} /\ w \in Nat /\ b \in 1..w /\ e \in 1..w /\ b <= e
  BY <1>1, <1>3, <1>4
<1>6. \A m \in b..e : text[m] \in Good
  <2>1. ASSUME NEW m \in b..e PROVE text[m] \in Good
    <3> DEFINE i == m - p - 1 + k
    <3>1. i \in k..n /\ i \in u..v /\ p + (i + 1 - k) = m
      BY <1>1, <1>3, <1>5, <2>1
    <3> HIDE DEF i
    <3>2. text[p + (i + 1 - k)] = list[i]
      BY <1>1, <3>1
    <3> QED
      BY <1>4, <3>1, <3>2
  <2> QED
    BY <2>1
<1>7. b = 1 \/ (b - 1 \in 1..w /\ text[b - 1] = "comma")
  <2>1. CASE u > k
    <3> DEFINE i == u - 1
    <3>1. i \in k..n /\ u # 1 /\ p + (i + 1 - k) = b - 1 /\ b - 1 \in 1..w
      BY <1>1, <1>3, <1>5, <2>1
    <3>2. list[i] = "comma"
      BY <1>3, <3>1
    <3> HIDE DEF i
    <3>3. text[p + (i + 1 - k)] = "comma"
      BY <1>1, <3>1, <3>2
    <3> QED
      BY <3>1, <3>3
  <2>2. CASE u = k
    <3>1. b = p + 1
      BY <1>1, <1>5, <2>2
    <3>2. CASE left = <<>>
      <4>1. p = 0
        BY <3>2 DEF p
      <4>2. b = 1
        BY <1>1, <1>5, <3>1, <4>1
      <4> HIDE DEF b
      <4> QED
        BY <4>2
    <3>3. CASE left # <<>>
      <4>1. ASSUME NEW m \in DOMAIN left PROVE left[m] \in Good \cup {"comma"}
        <5>1. PICK q \in 1..k - 1 : left[m] = list[q]
          BY <4>1 DEF Split, From
        <5>2. q \in 1..v
          BY <1>1, <1>3, <1>4, <1>5, <2>2
        <5> QED
          BY <1>3, <5>1, <5>2
      <4>2. Spans(left) = {}
        BY DEF Split
      <4>3. left[p] = "comma"
        BY <3>3, <4>1, <4>2, LooseEnd DEF p
      <4>4. p \in 1..p
        <5>1. p # 0
          BY <3>3, EmptySeq DEF p, Text
        <5> QED
          BY <1>1, <5>1
      <4>5. text[p] = "comma" /\ b - 1 = p
        BY <1>1, <3>1, <4>3, <4>4
      <4>6. p \in 1..w
        BY <1>5, <3>1, <4>4
      <4> QED
        BY <4>5, <4>6
    <3> QED
      BY <3>2, <3>3
  <2> QED
    BY <1>3, <1>5, <2>1, <2>2
<1>8. e = w \/ (e + 1 \in 1..w /\ text[e + 1] = "comma")
  <2>1. CASE v = n
    <3>1. e = w
      BY <1>1, <2>1
    <3> HIDE DEF e
    <3> QED
      BY <3>1
  <2>2. CASE v # n
    <3> DEFINE i == v + 1
    <3>1. i \in k..n /\ p + (i + 1 - k) = e + 1 /\ e + 1 \in 1..w
      BY <1>1, <1>3, <1>4, <1>5, <2>2
    <3>2. list[i] = "comma"
      BY <1>3, <2>2
    <3> HIDE DEF i
    <3>3. text[p + (i + 1 - k)] = "comma"
      BY <1>1, <3>1, <3>2
    <3> QED
      BY <3>1, <3>3
  <2> QED
    BY <2>1, <2>2
<1> HIDE DEF b, e
<1> DEFINE i == IF b = 1 THEN 1 ELSE b - 1
           j == IF e = w THEN e ELSE e + 1
<1>9. text[b] \in Good /\ text[e] \in Good /\ "comma" \notin Good
  BY <1>5, <1>6 DEF Good
<1>10. i \in 1..w /\ i <= b /\ (i = 1 \/ text[i] = "comma")
       /\ FirstOf(text, i) = b
  <2>1. CASE b = 1
    BY <1>5, <1>9, <2>1 DEF FirstOf
  <2>2. CASE b # 1
    BY <1>5, <1>7, <2>2 DEF FirstOf
  <2> QED
    BY <2>1, <2>2
<1>11. j \in 1..w /\ e <= j /\ (j = w \/ text[j] = "comma")
       /\ LastOf(text, j) = e
  <2>1. CASE e = w
    BY <1>5, <1>9, <2>1 DEF LastOf
  <2>2. CASE e # w
    BY <1>5, <1>8, <2>2 DEF LastOf
  <2> QED
    BY <2>1, <2>2
<1> HIDE DEF i, j
<1>12. i \in DOMAIN text /\ j \in DOMAIN text
  BY <1>2, <1>10, <1>11
<1>13. i <= j
  BY <1>5, <1>10, <1>11
<1>14. Matches(text, i, j)
  BY <1>1, <1>5, <1>6, <1>10, <1>11, <1>12, <1>13, MatchesIs DEF w
<1> QED
  BY <1>10, <1>12, <1>14 DEF b, p, u

-----------------------------------------------------------------------------
(* One match.                                                              *)

\* The text has a match from i to j, none begins before it, and left has none.
Matched(k, left, i, j) ==
  /\ i \in DOMAIN text /\ j \in DOMAIN text
  /\ Matches(text, i, j)
  /\ \A r \in Spans(text) : i <= r[1]
  /\ Spans(left) = {}

\* The match ends, and its attribute begins, in what the list has from k on.
LEMMA MatchedBeyond ==
  ASSUME list \in Text, NEW k \in 1..Len(list) + 1, NEW left \in Text,
         text = left \o SubSeq(list, k, Len(list)),
         NEW i, NEW j, Matched(k, left, i, j)
  PROVE  j > Len(left) /\ FirstOf(text, i) > Len(left)
<1> DEFINE n == Len(list)
           p == Len(left)
           w == Len(text)
           b == FirstOf(text, i)
           e == LastOf(text, j)
<1>1. /\ text \in Text /\ n \in Nat /\ p \in Nat /\ k \in 1..n + 1
      /\ w = p + (n + 1 - k)
      /\ \A m \in 1..p : text[m] = left[m]
  BY TextIs
<1>2. DOMAIN text = 1..w /\ DOMAIN left = 1..p
  BY <1>1, LenProperties DEF Text
<1>3. /\ i \in 1..w /\ j \in 1..w /\ i <= j
      /\ i = 1 \/ text[i] = "comma"
      /\ j = w \/ text[j] = "comma"
      /\ b <= e
      /\ \A m \in b..e : text[m] \in Good
  <2> HIDE DEF b, e, w
  <2>1. i \in 1..w /\ j \in 1..w /\ i \in DOMAIN text /\ j \in DOMAIN text
    BY <1>2 DEF Matched
  <2> QED
    BY <1>1, <2>1, MatchesIs DEF Matched, b, e, w
<1>4. (b = i \/ b = i + 1) /\ (e = j \/ e = j - 1)
  BY DEF FirstOf, LastOf
<1>5. \A x, y \in DOMAIN left : ~Matches(left, x, y)
  <2>1. ASSUME NEW x \in DOMAIN left, NEW y \in DOMAIN left, Matches(left, x, y)
        PROVE  <<x, y>> \in Spans(left)
    BY <2>1 DEF Spans
  <2> QED
    BY <2>1 DEF Matched
<1>6. w \in Nat /\ p <= w
  BY <1>1
<1> HIDE DEF n, p, w
<1>7. p < j
  <2> SUFFICES ASSUME j <= p PROVE FALSE
    BY <1>1, <1>3
  <2>1. i \in DOMAIN left /\ j \in DOMAIN left /\ (j = p \/ text[j] = "comma")
    BY <1>1, <1>2, <1>3, <1>6
  <2>2. left[i] = text[i] /\ left[j] = text[j]
    BY <1>1, <1>2, <2>1
  <2>3. FirstOf(left, i) = b /\ LastOf(left, j) = e
    BY <2>2 DEF FirstOf, LastOf
  <2>4. ASSUME NEW m \in b..e PROVE left[m] \in Good
    <3>1. m \in 1..p
      BY <1>1, <1>3, <1>4, <2>4
    <3> QED
      BY <1>1, <1>3, <2>4, <3>1
  <2> HIDE DEF b, e
  <2>5. Matches(left, i, j)
    BY <1>3, <2>1, <2>2, <2>3, <2>4, MatchesIs DEF p
  <2> QED
    BY <1>5, <2>1, <2>5
<1>8. p < b
  <2> SUFFICES ASSUME b <= p PROVE FALSE
    BY <1>1, <1>3, <1>4
  <2>1. i \in 1..p /\ p \in 1..p /\ p \in b..e
    BY <1>1, <1>3, <1>4, <1>7
  <2>2. left[i] = text[i] /\ left[p] = text[p] /\ text[p] \in Good
    BY <1>1, <1>3, <2>1
  <2>3. FirstOf(left, i) = b /\ LastOf(left, p) = p
    BY <2>2 DEF FirstOf, LastOf, Good
  <2>4. ASSUME NEW m \in b..p PROVE left[m] \in Good
    <3>1. m \in 1..p /\ m \in b..e
      BY <1>1, <1>3, <1>4, <1>7, <2>4
    <3> QED
      BY <1>1, <1>3, <3>1
  <2> HIDE DEF b, e
  <2>5. i \in DOMAIN left /\ p \in DOMAIN left /\ i <= p
    BY <1>2, <2>1
  <2>6. Matches(left, i, p)
    BY <1>3, <2>2, <2>3, <2>4, <2>5, MatchesIs DEF p
  <2> QED
    BY <1>5, <2>5, <2>6
<1> QED
  BY <1>7, <1>8 DEF p

-----------------------------------------------------------------------------
\* A part of the text that comes from the list.
LEMMA PartIs ==
  ASSUME list \in Text, NEW k \in 1..Len(list) + 1, NEW left \in Text,
         text = left \o SubSeq(list, k, Len(list)),
         NEW x \in Nat, NEW y \in Nat, x > Len(left), y <= Len(text)
  PROVE  LET d == k - Len(left) - 1
         IN  SubSeq(text, x, y) = SubSeq(list, x + d, y + d)
<1> DEFINE n == Len(list)
           p == Len(left)
           w == Len(text)
           d == k - p - 1
           r == SubSeq(text, x, y)
           q == SubSeq(list, x + d, y + d)
<1>1. /\ text \in Text /\ n \in Nat /\ p \in Nat /\ k \in 1..n + 1
      /\ w = p + (n + 1 - k)
      /\ \A m \in k..n : text[p + (m + 1 - k)] = list[m]
  BY TextIs
<1>2. /\ \A m \in 1..w : text[m] \in Classes
      /\ \A m \in 1..n : list[m] \in Classes
  BY <1>1, ElementOfSeq DEF Text
<1> HIDE DEF n, p, w
<1>3. x > p /\ y <= w /\ d \in Int /\ w + d = n /\ x + d >= k /\ w \in Nat
  BY <1>1 DEF p, w
<1>4. (y + d) - (x + d) = y - x
  BY <1>3
<1> HIDE DEF d
<1>5. \A m \in x..y : text[m] \in Classes
  BY <1>1, <1>2, <1>3
<1>6. \A m \in x + d..y + d : list[m] \in Classes
  BY <1>1, <1>2, <1>3
<1>7. /\ r \in Seq(Classes) /\ Len(r) = IF x <= y THEN y - x + 1 ELSE 0
      /\ \A m \in 1..y - x + 1 : r[m] = text[x + m - 1]
  BY <1>5, SubSeqProperties
<1>8. x + d \in Int /\ y + d \in Int /\ (x <= y <=> x + d <= y + d)
  BY <1>3
<1>9. /\ q \in Seq(Classes)
      /\ Len(q) = IF x + d <= y + d THEN (y + d) - (x + d) + 1 ELSE 0
      /\ \A m \in 1..(y + d) - (x + d) + 1 : q[m] = list[(x + d) + m - 1]
  BY <1>6, <1>8, SubSeqProperties
<1> HIDE DEF r, q
<1>10. Len(q) = Len(r)
  BY <1>4, <1>7, <1>8, <1>9
<1>11. ASSUME NEW m \in 1..Len(r) PROVE r[m] = q[m]
  <2>1. Len(r) = y - x + 1 /\ m \in 1..y - x + 1 /\ x <= y
    BY <1>7, <1>11
  <2>2. r[m] = text[x + m - 1] /\ q[m] = list[(x + d) + m - 1]
    BY <1>4, <1>7, <1>9, <2>1
  <2> DEFINE l == (x + d) + m - 1
  <2>3. l \in k..n /\ p + (l + 1 - k) = x + m - 1
    BY <1>1, <1>3, <2>1 DEF d
  <2> HIDE DEF l
  <2>4. text[p + (l + 1 - k)] = list[l]
    BY <1>1, <2>3
  <2> QED
    BY <2>2, <2>3, <2>4 DEF l
<1>12. r = q
  BY <1>7, <1>9, <1>10, <1>11, SeqEqual
<1> QED
  BY <1>12 DEF r, q, d, p

\* The match is an attribute of the list, and ends at a cut.
LEMMA MatchedPlace ==
  ASSUME list \in Text, NEW k \in 1..Len(list) + 1, NEW left \in Text,
         text = left \o SubSeq(list, k, Len(list)), CutAt(k),
         NEW i, NEW j, Matched(k, left, i, j)
  PROVE  LET d == k - Len(left) - 1
             b == FirstOf(text, i) + d
             e == LastOf(text, j) + d
             c == j + 1 + d
         IN  /\ b \in k..Len(list) /\ e \in b..Len(list)
             /\ e < c /\ k < c /\ c \in 1..Len(list) + 1
             /\ CutAt(c)
             /\ <<b, e>> \in AttributePlaces(list)
             /\ Inner(text, i, j) = SubSeq(list, b, e)
<1> DEFINE n == Len(list)
           p == Len(left)
           w == Len(text)
           d == k - p - 1
           f == FirstOf(text, i)
           l == LastOf(text, j)
           b == f + d
           e == l + d
           c == j + 1 + d
<1>1. /\ text \in Text /\ n \in Nat /\ p \in Nat /\ k \in 1..n + 1
      /\ w = p + (n + 1 - k)
      /\ \A m \in k..n : text[p + (m + 1 - k)] = list[m]
  BY TextIs
<1>2. DOMAIN text = 1..w /\ DOMAIN list = 1..n
  BY <1>1, LenProperties DEF Text
<1>3. /\ i \in 1..w /\ j \in 1..w /\ i <= j
      /\ i = 1 \/ text[i] = "comma"
      /\ j = w \/ text[j] = "comma"
      /\ f <= l
      /\ \A m \in f..l : text[m] \in Good
  <2> HIDE DEF f, l, w
  <2>1. i \in 1..w /\ j \in 1..w /\ i \in DOMAIN text /\ j \in DOMAIN text
    BY <1>2 DEF Matched
  <2> QED
    BY <1>1, <2>1, MatchesIs DEF Matched, f, l, w
<1>4. /\ IF text[i] = "comma" THEN f = i + 1 ELSE f = i
      /\ IF text[j] = "comma" THEN l = j - 1 ELSE l = j
  BY DEF FirstOf, LastOf
<1>5. p < j /\ p < f
  BY MatchedBeyond
<1>6. w + d = n /\ d \in Int /\ w \in Nat
  BY <1>1
\* A character of the text after the place k is one of the list.
<1>7. ASSUME NEW m \in p + 1..w PROVE list[m + d] = text[m] /\ m + d \in k..n
  <2> DEFINE q == m + d
  <2>1. q \in k..n /\ p + (q + 1 - k) = m
    BY <1>1, <1>6, <1>7
  <2> HIDE DEF q
  <2>2. text[p + (q + 1 - k)] = list[q]
    BY <1>1, <2>1
  <2> QED
    BY <2>1, <2>2 DEF q
<1>8. p + 1 + d = k
  BY <1>1
<1> HIDE DEF n, p, w, f, l
<1>9. f \in p + 1..w /\ l \in f..w
  BY <1>1, <1>3, <1>4, <1>5, <1>6
<1> HIDE DEF d
<1>10. b \in k..n /\ e \in b..n
  BY <1>1, <1>6, <1>8, <1>9
<1>11. e < c /\ k < c /\ c \in 1..n + 1
  BY <1>1, <1>3, <1>4, <1>5, <1>6, <1>8, <1>9
<1>12. CutAt(c)
  <2>1. CASE j = w
    <3>1. c = n + 1
      BY <1>6, <2>1
    <3> QED
      BY <3>1 DEF CutAt, n
  <2>2. CASE text[j] = "comma"
    <3>1. j \in p + 1..w /\ c - 1 = j + d
      BY <1>1, <1>3, <1>5, <1>6
    <3>2. list[j + d] = "comma"
      BY <1>7, <2>2, <3>1
    <3> HIDE DEF c
    <3> QED
      BY <3>1, <3>2 DEF CutAt
  <2> QED
    BY <1>3, <2>1, <2>2
<1>13. b = 1 \/ list[b - 1] = "comma"
  <2>1. CASE i > p /\ text[i] = "comma"
    <3>1. i \in p + 1..w /\ b - 1 = i + d
      BY <1>1, <1>3, <1>4, <1>6, <2>1
    <3>2. list[i + d] = "comma"
      BY <1>7, <2>1, <3>1
    <3> HIDE DEF b
    <3> QED
      BY <3>1, <3>2
  <2>2. CASE ~(i > p /\ text[i] = "comma")
    <3>1. f = p + 1
      <4>1. f \in Int /\ p \in Int /\ i \in Int /\ p < f
        BY <1>1, <1>3, <1>4, <1>5
      <4>2. CASE text[i] = "comma"
        <5>1. f = i + 1 /\ ~(i > p)
          BY <1>4, <2>2, <4>2
        <5> QED
          BY <4>1, <5>1
      <4>3. CASE text[i] # "comma"
        <5>1. f = 1
          BY <1>3, <1>4, <4>3
        <5> QED
          BY <1>1, <4>1, <5>1
      <4> QED
        BY <4>2, <4>3
    <3>2. b = k
      BY <1>6, <1>8, <3>1
    <3>3. k # n + 1
      BY <1>1, <1>10, <3>2
    <3> HIDE DEF b
    <3> QED
      BY <3>2, <3>3 DEF CutAt, n
  <2> QED
    BY <2>1, <2>2
<1>14. e = n \/ list[e + 1] = "comma"
  <2>1. CASE text[j] = "comma"
    <3>1. j \in p + 1..w /\ e + 1 = j + d
      BY <1>1, <1>3, <1>4, <1>5, <1>6, <2>1
    <3>2. list[j + d] = "comma"
      BY <1>7, <2>1, <3>1
    <3> HIDE DEF e
    <3> QED
      BY <3>1, <3>2
  <2>2. CASE text[j] # "comma"
    <3>1. e = n
      BY <1>3, <1>4, <1>6, <2>2
    <3> HIDE DEF e
    <3> QED
      BY <3>1
  <2> QED
    BY <2>1, <2>2
<1>15. \A m \in b..e : list[m] \in Good
  <2>1. ASSUME NEW m \in b..e PROVE list[m] \in Good
    <3> DEFINE q == m - d
    <3>1. q \in p + 1..w /\ q \in f..l /\ q + d = m
      BY <1>1, <1>6, <1>9, <1>10, <2>1
    <3> HIDE DEF q
    <3> QED
      BY <1>3, <1>7, <3>1
  <2> QED
    BY <2>1
<1>16. b \in Nat \ {0} /\ e \in 0..n /\ b \in 1..n /\ e \in 1..n /\ b <= e
  BY <1>1, <1>10
<1>17. Inner(text, i, j) = SubSeq(list, b, e)
  <2>1. Inner(text, i, j) = SubSeq(text, f, l)
    BY DEF Inner, FirstOf, LastOf, f, l
  <2>2. f \in Nat /\ l \in Nat /\ f > p /\ l <= w
    BY <1>1, <1>6, <1>9
  <2>3. SubSeq(text, f, l) = SubSeq(list, f + d, l + d)
    BY <2>2, PartIs DEF p, w, d
  <2> QED
    BY <2>1, <2>3
<1> HIDE DEF b, e, c
<1>18. Attribute(SubSeq(list, b, e))
  BY <1>15, <1>16, AttributeIs DEF n
<1>19. <<b, e>> \in AttributePlaces(list)
  BY <1>2, <1>13, <1>14, <1>16, <1>18 DEF AttributePlaces, n
<1> QED
  BY <1>10, <1>11, <1>12, <1>17, <1>19 DEF n, p, d, f, l, b, e, c

\* The beginning of a text.
LEMMA PrefixIs ==
  ASSUME NEW t \in Text, NEW y \in 0..Len(t)
  PROVE  LET l == SubSeq(t, 1, y)
         IN  l \in Text /\ Len(l) = y /\ \A m \in 1..y : l[m] = t[m]
<1> DEFINE l == SubSeq(t, 1, y)
<1>1. Len(t) \in Nat
  BY LenProperties DEF Text
<1>2. \A m \in 1..y : t[m] \in Classes
  <2>1. ASSUME NEW m \in 1..y PROVE m \in 1..Len(t)
    BY <1>1
  <2> QED
    BY <2>1, ElementOfSeq DEF Text
<1>3. y \in Int /\ 1 \in Int /\ y \in Nat
  BY <1>1
<1>4. /\ l \in Seq(Classes) /\ Len(l) = IF 1 <= y THEN y - 1 + 1 ELSE 0
      /\ \A m \in 1..y - 1 + 1 : l[m] = t[1 + m - 1]
  BY <1>2, <1>3, SubSeqProperties
<1> HIDE DEF l
<1>5. Len(l) = y
  BY <1>3, <1>4
<1>6. ASSUME NEW m \in 1..y PROVE l[m] = t[m]
  <2>1. m \in 1..y - 1 + 1 /\ 1 + m - 1 = m
    BY <1>3, <1>6
  <2> QED
    BY <1>4, <2>1
<1> QED
  BY <1>4, <1>5, <1>6 DEF Text, l

\* What is left of the text before the match, then the list from the new cut on.
LEMMA MatchedLeft ==
  ASSUME list \in Text, NEW k \in 1..Len(list) + 1, NEW left \in Text,
         text = left \o SubSeq(list, k, Len(list)), CutAt(k),
         From(left, k),
         NEW i, NEW j, Matched(k, left, i, j)
  PROVE  LET l == SubSeq(text, 1, i - 1)
             c == j + 1 + (k - Len(left) - 1)
         IN  /\ l \in Text
             /\ Erased(text, <<i, j>>) = l \o SubSeq(list, c, Len(list))
             /\ Spans(l) = {}
             /\ From(l, c)
<1> DEFINE n == Len(list)
           p == Len(left)
           w == Len(text)
           d == k - p - 1
           c == j + 1 + d
           l == SubSeq(text, 1, i - 1)
<1>1. /\ text \in Text /\ n \in Nat /\ p \in Nat /\ k \in 1..n + 1
      /\ w = p + (n + 1 - k)
      /\ \A m \in 1..p : text[m] = left[m]
      /\ \A m \in k..n : text[p + (m + 1 - k)] = list[m]
  BY TextIs
<1>2. DOMAIN text = 1..w /\ DOMAIN left = 1..p /\ \A m \in 1..w : text[m] \in Classes
  BY <1>1, LenProperties, ElementOfSeq DEF Text
<1>3. i \in 1..w /\ j \in 1..w /\ i <= j /\ (i = 1 \/ text[i] = "comma")
  BY <1>2 DEF Matched, Matches
<1>4. p < j
  BY MatchedBeyond
<1>5. w + d = n /\ d \in Int /\ w \in Nat /\ p + 1 + d = k
  BY <1>1
<1>6. \A r \in Spans(text) : i <= r[1]
  BY DEF Matched
<1> HIDE DEF n, p, w, d
<1>7. l \in Text /\ Len(l) = i - 1 /\ \A m \in 1..i - 1 : l[m] = text[m]
  <2> DEFINE y == i - 1
  <2>1. y \in 0..Len(text) /\ text \in Text
    BY <1>1, <1>3, <1>5 DEF w
  <2> HIDE DEF y
  <2>2. /\ SubSeq(text, 1, y) \in Text /\ Len(SubSeq(text, 1, y)) = y
        /\ \A m \in 1..y : SubSeq(text, 1, y)[m] = text[m]
    BY <2>1, PrefixIs
  <2> QED
    BY <2>2 DEF y
<1>8. DOMAIN l = 1..i - 1
  BY <1>7, LenProperties DEF Text
<1>9. Erased(text, <<i, j>>) = l \o SubSeq(list, c, n)
  <2>1. j + 1 \in Nat /\ w \in Nat /\ j + 1 > p /\ w <= w
    BY <1>1, <1>3, <1>4, <1>5
  <2>2. SubSeq(text, j + 1, w) = SubSeq(list, (j + 1) + d, w + d)
    BY <2>1, PartIs DEF p, w, d
  <2> QED
    BY <1>5, <2>2 DEF Erased, w
<1> HIDE DEF l
<1>10. Spans(l) = {}
  <2> SUFFICES ASSUME NEW x \in DOMAIN l, NEW y \in DOMAIN l, Matches(l, x, y)
               PROVE  FALSE
    BY DEF Spans
  <2>1. x \in 1..i - 1 /\ y \in 1..i - 1 /\ x \in 1..w /\ y \in 1..w /\ i # 1
    BY <1>3, <1>5, <1>8
  <2>2. l[x] = text[x] /\ l[y] = text[y]
    BY <1>7, <2>1
  <2>3. /\ x <= y /\ (x = 1 \/ text[x] = "comma")
        /\ y = i - 1 \/ text[y] = "comma"
        /\ FirstOf(text, x) <= LastOf(text, y)
        /\ \A m \in FirstOf(text, x)..LastOf(text, y) : l[m] \in Good
    <3>1. FirstOf(l, x) = FirstOf(text, x) /\ LastOf(l, y) = LastOf(text, y)
      BY <2>2 DEF FirstOf, LastOf
    <3> QED
      BY <1>7, <2>2, <3>1, MatchesIs
  <2>4. ASSUME NEW m \in FirstOf(text, x)..LastOf(text, y) PROVE text[m] \in Good
    <3>1. m \in 1..i - 1
      BY <1>3, <2>1, <2>4 DEF FirstOf, LastOf
    <3> QED
      BY <1>7, <2>3, <2>4, <3>1
  \* The match that ends there, or with the comma the erased one begins with.
  <2> DEFINE z == IF text[y] = "comma" THEN y ELSE i
  <2>5. /\ z \in 1..w /\ x <= z /\ text[z] = "comma"
        /\ LastOf(text, z) = LastOf(text, y)
    <3>1. CASE text[y] = "comma"
      BY <2>1, <2>3, <3>1
    <3>2. CASE text[y] # "comma"
      <4>1. y = i - 1 /\ text[i] = "comma"
        BY <1>3, <2>1, <2>3, <3>2
      <4>2. z = i /\ LastOf(text, y) = y /\ LastOf(text, i) = i - 1
        BY <3>2, <4>1 DEF LastOf
      <4>3. x <= i
        BY <1>3, <1>5, <2>1
      <4> HIDE DEF z
      <4> QED
        BY <1>3, <4>1, <4>2, <4>3
    <3> QED
      BY <3>1, <3>2
  <2> HIDE DEF z
  <2>6. x \in DOMAIN text /\ z \in DOMAIN text
    BY <1>2, <2>1, <2>5
  <2>7. Matches(text, x, z)
    BY <1>1, <2>3, <2>4, <2>5, <2>6, MatchesIs
  <2>8. <<x, z>> \in Spans(text)
    BY <2>6, <2>7 DEF Spans
  <2>9. i <= x
    BY <1>6, <2>8
  <2> QED
    BY <1>3, <2>1, <2>9
<1>11. ASSUME NEW m \in 1..i - 1 PROVE \E q \in 1..c - 1 : l[m] = list[q]
  <2>1. m \in 1..i - 1 /\ l[m] = text[m]
    BY <1>7, <1>11
  <2>2. CASE m <= p
    <3>1. m \in 1..p
      BY <1>3, <2>1, <2>2
    <3>2. PICK q \in 1..k - 1 : left[m] = list[q]
      BY <1>2, <3>1 DEF From
    <3>3. q \in 1..c - 1
      BY <1>1, <1>3, <1>4, <1>5
    <3> QED
      BY <1>1, <2>1, <3>1, <3>2, <3>3
  <2>3. CASE m > p
    <3> DEFINE q == m + d
    <3>1. m \in Int /\ m > p /\ m < i /\ i <= w /\ m < j /\ i \in Int /\ j \in Int
      BY <1>3, <1>5, <2>1, <2>3
    <3>2. q \in k..n /\ p + (q + 1 - k) = m
      BY <1>1, <1>5, <3>1
    <3>3. q \in 1..c - 1
      BY <1>1, <1>5, <3>1, <3>2
    <3> HIDE DEF q
    <3>4. text[p + (q + 1 - k)] = list[q]
      BY <1>1, <3>2
    <3> QED
      BY <2>1, <3>2, <3>3, <3>4
  <2>4. m <= p \/ m > p
    BY <1>1, <1>3, <1>5, <2>1
  <2> QED
    BY <2>2, <2>3, <2>4
<1>12. From(l, c)
  BY <1>8, <1>11 DEF From
<1> QED
  BY <1>7, <1>9, <1>10, <1>12 DEF n, p, d, c, l

\* An attribute with nothing malformed before it that ends before the new cut is
\* the one matched, or ended before the old.
LEMMA FirstOneMatched ==
  ASSUME list \in Text, NEW k \in 1..Len(list) + 1, NEW left \in Text,
         NEW places, Split(k, left, places),
         NEW i, NEW j, Matched(k, left, i, j),
         NEW s \in FirstOnes(list), s[2] >= k,
         s[2] < j + 1 + (k - Len(left) - 1)
  PROVE  LET d == k - Len(left) - 1
         IN  s = <<FirstOf(text, i) + d, LastOf(text, j) + d>>
<1> DEFINE n == Len(list)
           p == Len(left)
           w == Len(text)
           d == k - p - 1
           f == FirstOf(text, i)
           l == LastOf(text, j)
           u == s[1]
           v == s[2]
<1>1. /\ text \in Text /\ n \in Nat /\ p \in Nat /\ k \in 1..n + 1
      /\ w = p + (n + 1 - k)
      /\ \A m \in k..n : text[p + (m + 1 - k)] = list[m]
  BY TextIs DEF Split
<1>2. DOMAIN text = 1..w /\ DOMAIN list = 1..n
  BY <1>1, LenProperties DEF Text
<1>3. /\ u \in 1..n /\ v \in 1..n /\ s = <<u, v>>
      /\ u = 1 \/ list[u - 1] = "comma"
      /\ v = n \/ list[v + 1] = "comma"
      /\ Attribute(SubSeq(list, u, v))
  BY <1>2 DEF FirstOnes, AttributePlaces
<1>4. u <= v /\ \A m \in u..v : list[m] \in Good
  <2>1. u \in Nat \ {0} /\ v \in 0..Len(list)
    BY <1>1, <1>3
  <2> HIDE DEF u, v, n
  <2> QED
    BY <1>3, <2>1, AttributeIs
<1>5. /\ i \in 1..w /\ j \in 1..w /\ i <= j /\ w \in Nat
      /\ IF text[i] = "comma" THEN f = i + 1 ELSE f = i
      /\ IF text[j] = "comma" THEN l = j - 1 ELSE l = j
  BY <1>1, <1>2 DEF Matched, Matches, FirstOf, LastOf
<1>6. /\ f + d \in k..n /\ l + d \in f + d..n
      /\ <<f + d, l + d>> \in AttributePlaces(list)
  <2> HIDE DEF f, l
  <2> QED
    BY MatchedPlace DEF Split, f, l
<1>7. v >= k /\ v < j + 1 + d /\ d \in Int /\ p + 1 + d = k
  BY <1>1
<1>8. u >= k
  <2> HIDE DEF n, u, v, d
  <2> SUFFICES ASSUME u < k PROVE FALSE
    BY <1>1, <1>3
  <2>1. k # 1 /\ k # n + 1 /\ k - 1 \in u..v
    BY <1>1, <1>3, <1>7
  <2>2. list[k - 1] = "comma"
    BY <2>1 DEF Split, CutAt, n
  <2> QED
    BY <1>4, <2>1, <2>2 DEF Good
<1>9. \A r \in Spans(text) : i <= r[1]
  BY DEF Matched
<1>10. i <= u - d
  <2>1. PICK x, y \in DOMAIN text :
          Matches(text, x, y) /\ x <= p + (u + 1 - k)
    BY <1>8, FirstOneMatches
  <2>2. <<x, y>> \in Spans(text)
    BY <2>1 DEF Spans
  <2>3. i <= x
    BY <1>9, <2>2
  <2> HIDE DEF p, u, w
  <2>4. x \in 1..w /\ p + (u + 1 - k) = u - d
    BY <1>1, <1>2, <1>3, <2>1
  <2> QED
    BY <1>1, <1>3, <1>5, <2>1, <2>3, <2>4
<1> HIDE DEF n, p, w, d, f, l, u, v
\* A character of the element, in the text.
<1>11. ASSUME NEW m \in u..v PROVE text[m - d] # "comma"
  <2>1. m \in k..n /\ p + (m + 1 - k) = m - d
    BY <1>1, <1>3, <1>7, <1>8, <1>11
  <2>2. text[p + (m + 1 - k)] = list[m]
    BY <1>1, <2>1
  <2> QED
    BY <1>4, <1>11, <2>1, <2>2 DEF Good
<1>12. f + d <= u
  <2>1. u \in u..v
    BY <1>3, <1>4
  <2>2. text[u - d] # "comma"
    BY <1>11, <2>1
  <2>3. CASE text[i] = "comma"
    <3>1. i # u - d /\ f = i + 1
      BY <1>5, <2>2, <2>3
    <3> QED
      BY <1>3, <1>5, <1>7, <1>10, <3>1
  <2>4. CASE text[i] # "comma"
    BY <1>3, <1>5, <1>7, <1>10, <2>4
  <2> QED
    BY <2>3, <2>4
<1>13. v <= l + d
  <2>1. v \in u..v
    BY <1>3, <1>4
  <2>2. text[v - d] # "comma"
    BY <1>11, <2>1
  <2>3. CASE text[j] = "comma"
    <3>1. j # v - d /\ l = j - 1
      BY <1>5, <2>2, <2>3
    <3> QED
      BY <1>3, <1>5, <1>7, <3>1
  <2>4. CASE text[j] # "comma"
    BY <1>3, <1>5, <1>7, <2>4
  <2> QED
    BY <2>3, <2>4
<1> DEFINE b == f + d
           e == l + d
<1>14. b \in k..n /\ e \in b..n /\ b <= u /\ v <= e
  BY <1>6, <1>12, <1>13
<1> HIDE DEF b, e
<1>15. \A m \in b..e : list[m] \in Good
  <2>1. Attribute(SubSeq(list, b, e))
    BY <1>6 DEF AttributePlaces, b, e
  <2>2. b \in Nat \ {0} /\ e \in 0..Len(list)
    BY <1>1, <1>14 DEF n
  <2> QED
    BY <2>1, <2>2, AttributeIs
<1>16. u = b
  <2> SUFFICES ASSUME u # b PROVE FALSE
    OBVIOUS
  <2>1. u - 1 \in b..e /\ u # 1
    BY <1>1, <1>3, <1>4, <1>14
  <2> QED
    BY <1>3, <1>15, <2>1 DEF Good
<1>17. v = e
  <2> SUFFICES ASSUME v # e PROVE FALSE
    OBVIOUS
  <2>1. v + 1 \in b..e /\ v # n
    BY <1>1, <1>3, <1>4, <1>14
  <2> QED
    BY <1>3, <1>15, <2>1 DEF Good
<1> QED
  BY <1>3, <1>16, <1>17 DEF b, e, f, l, d, p

\* What is found: an attribute without its spaces.
Found == {WithoutSpaces(t) : t \in Text}

\* A match keeps the invariant.
LEMMA MatchStep ==
  ASSUME list \in Text, found \in Seq(Found), SplitInv, MatchOne
  PROVE  found' \in Seq(Found) /\ SplitInv'
<1>1. PICK k \in 1..Len(list) + 1, left \in Text,
           places \in [DOMAIN found -> AttributePlaces(list)] : Split(k, left, places)
  BY DEF SplitInv
<1> DEFINE n == Len(list)
           i == Span(text)[1]
           j == Span(text)[2]
           d == k - Len(left) - 1
           b == FirstOf(text, i) + d
           e == LastOf(text, j) + d
           c == j + 1 + d
           l == SubSeq(text, 1, i - 1)
           x == WithoutSpaces(SubSeq(list, b, e))
           N == Len(found)
           new == [m \in 1..N + 1 |-> IF m = N + 1 THEN <<b, e>> ELSE places[m]]
<1>2. text \in Text /\ n \in Nat
  BY <1>1, TextIs DEF Split
<1>3. Span(text) \in Spans(text) /\ Spans(text) # {}
      /\ \A r \in Spans(text) : i <= r[1]
  BY <1>2, SpanIs DEF MatchOne
<1>4. i \in DOMAIN text /\ j \in DOMAIN text /\ Matches(text, i, j)
      /\ Span(text) = <<i, j>>
  BY <1>3 DEF Spans
<1> HIDE DEF i, j
<1>5. Matched(k, left, i, j)
  BY <1>1, <1>3, <1>4 DEF Matched, Split
<1>6. /\ b \in k..n /\ e \in b..n /\ e < c /\ k < c /\ c \in 1..n + 1
      /\ CutAt(c) /\ <<b, e>> \in AttributePlaces(list)
      /\ Inner(text, i, j) = SubSeq(list, b, e)
  BY <1>1, <1>5, MatchedPlace DEF Split
<1>7. /\ l \in Text /\ Erased(text, <<i, j>>) = l \o SubSeq(list, c, n)
      /\ Spans(l) = {} /\ From(l, c)
  BY <1>1, <1>5, MatchedLeft DEF Split
<1>8. \A s \in FirstOnes(list) : s[2] >= k /\ s[2] < c => s = <<b, e>>
  BY <1>1, <1>5, FirstOneMatched
<1>9. k \in 1..n + 1
  OBVIOUS
<1> HIDE DEF n, b, e, c, l
<1>10. SubSeq(list, b, e) \in Text
  <2>1. b \in Int /\ e \in Int /\ \A m \in b..e : m \in 1..n
    BY <1>2, <1>6
  <2>2. \A m \in b..e : list[m] \in Classes
    BY <2>1, ElementOfSeq DEF Text, n
  <2> QED
    BY <2>1, <2>2, SubSeqProperties DEF Text
<1>11. x \in Found /\ found' = Append(found, x)
  <2>1. x \in Found
    BY <1>10 DEF Found
  <2> QED
    BY <1>6, <2>1 DEF MatchOne, i, j
<1> HIDE DEF x
<1>12. /\ found' \in Seq(Found) /\ N \in Nat /\ DOMAIN found = 1..N
       /\ DOMAIN found' = 1..N + 1
       /\ \A m \in 1..N : found'[m] = found[m]
       /\ found'[N + 1] = x
  BY <1>11, AppendProperties, LenProperties
<1>13. list' = list /\ text' = l \o SubSeq(list, c, n)
  BY <1>4, <1>7 DEF MatchOne
<1> HIDE DEF N
<1>14. new \in [1..N + 1 -> AttributePlaces(list)]
  <2>1. ASSUME NEW m \in 1..N + 1, m # N + 1 PROVE places[m] \in AttributePlaces(list)
    <3>1. m \in 1..N
      BY <1>12, <2>1
    <3> QED
      BY <1>12, <3>1
  <2> QED
    BY <1>6, <2>1
<1>15. new[N + 1] = <<b, e>> /\ \A m \in 1..N : new[m] = places[m]
  BY <1>12
<1> HIDE DEF new
<1>16. \A m \in 1..N : places[m][2] < k /\ places[m][2] \in Nat
  <2>1. ASSUME NEW m \in 1..N PROVE places[m][2] < k /\ places[m][2] \in Nat
    <3>1. places[m] \in AttributePlaces(list) /\ DOMAIN list = 1..n
      BY <1>12, LenProperties DEF Text, n
    <3>2. places[m][2] \in 1..n
      BY <3>1 DEF AttributePlaces
    <3>3. places[m][2] < k
      BY <1>1, <1>12 DEF Split
    <3> QED
      BY <1>2, <3>2, <3>3
  <2> QED
    BY <2>1
\* From here on c, l and new are values: they do not change with the text.
<1>17. PICK K, L, P :
         /\ K = c /\ L = l /\ P = new
         /\ K \in 1..n + 1 /\ L \in Text /\ P \in [1..N + 1 -> AttributePlaces(list)]
  BY <1>6, <1>7, <1>14
<1>18. ASSUME NEW m \in 1..N + 1, NEW q \in 1..N + 1, m < q
       PROVE  P[m][2] < P[q][1]
  <2>1. m \in 1..N
    BY <1>12, <1>18
  <2>2. CASE q = N + 1
    <3>1. P[m][2] < k /\ P[m][2] \in Nat /\ P[q][1] = b
      BY <1>15, <1>17, <1>16, <2>1, <2>2
    <3> QED
      BY <1>6, <1>9, <3>1
  <2>3. CASE q # N + 1
    <3>1. q \in 1..N
      BY <1>12, <2>3
    <3> QED
      BY <1>1, <1>12, <1>15, <1>17, <1>18, <2>1, <3>1 DEF Split, FoundAt
  <2> QED
    BY <2>2, <2>3
<1>19. ASSUME NEW m \in 1..N + 1
       PROVE  found'[m] = WithoutSpaces(SubSeq(list, P[m][1], P[m][2]))
  <2>1. CASE m = N + 1
    BY <1>12, <1>15, <1>17, <2>1 DEF x
  <2>2. CASE m # N + 1
    <3>1. m \in 1..N
      BY <1>12, <2>2
    <3> QED
      BY <1>1, <1>12, <1>15, <1>17, <3>1 DEF Split, FoundAt
  <2> QED
    BY <2>1, <2>2
<1>20. FoundAt(P)'
  <2>1. list' = list /\ DOMAIN found' = 1..N + 1
    BY <1>12, <1>13
  <2>2. \A m, q \in DOMAIN found' : m < q => P[m][2] < P[q][1]
    BY <1>18, <2>1
  <2>3. \A m \in DOMAIN found' : found'[m] = WithoutSpaces(SubSeq(list', P[m][1], P[m][2]))
    BY <1>19, <2>1
  <2> QED
    BY <2>2, <2>3 DEF FoundAt
<1>21. ASSUME NEW m \in 1..N + 1 PROVE P[m][2] < K
  <2>1. CASE m = N + 1
    BY <1>6, <1>15, <1>17, <2>1
  <2>2. CASE m # N + 1
    <3>1. m \in 1..N
      BY <1>12, <2>2
    <3>2. P[m][2] \in Nat /\ P[m][2] < k
      BY <1>15, <1>16, <1>17, <3>1
    <3>3. k < K /\ k \in Nat /\ K \in Nat
      BY <1>2, <1>6, <1>9, <1>17
    <3> QED
      BY <3>2, <3>3
  <2> QED
    BY <2>1, <2>2
<1>22. ASSUME NEW s \in FirstOnes(list), s[2] < K
       PROVE  \E m \in 1..N + 1 : P[m] = s
  <2>1. CASE s[2] < k
    <3>1. PICK m \in 1..N : places[m] = s
      BY <1>1, <1>12, <2>1 DEF Split
    <3>2. m \in 1..N + 1
      BY <1>12
    <3> QED
      BY <1>15, <1>17, <3>1, <3>2
  <2>2. CASE s[2] >= k
    <3>1. s = <<b, e>> /\ N + 1 \in 1..N + 1
      BY <1>8, <1>12, <1>17, <1>22, <2>2
    <3> QED
      BY <1>15, <1>17, <3>1
  <2>3. s[2] < k \/ s[2] >= k
    <3>1. DOMAIN list = 1..n
      BY LenProperties DEF Text, n
    <3>2. s[2] \in 1..n
      BY <3>1 DEF FirstOnes, AttributePlaces
    <3> QED
      BY <1>2, <1>9, <3>2
  <2> QED
    BY <2>1, <2>2, <2>3
<1>23. Split(K, L, P)'
  <2>1. text' = L \o SubSeq(list', K, Len(list'))
    BY <1>13, <1>17 DEF n
  <2>2. Spans(L) = {} /\ From(L, K)'
    BY <1>7, <1>13, <1>17 DEF From
  <2>3. CutAt(K)'
    BY <1>6, <1>13, <1>17 DEF CutAt
  <2>4. \A m \in DOMAIN found' : P[m][2] < K
    BY <1>12, <1>21
  <2>5. \A s \in FirstOnes(list') : s[2] < K => \E m \in DOMAIN found' : P[m] = s
    BY <1>12, <1>13, <1>22
  <2> QED
    BY <1>20, <2>1, <2>2, <2>3, <2>4, <2>5 DEF Split
<1>24. K \in 1..Len(list') + 1 /\ P \in [DOMAIN found' -> AttributePlaces(list')]
  BY <1>12, <1>13, <1>17 DEF n
<1> QED
  BY <1>12, <1>17, <1>23, <1>24 DEF SplitInv

-----------------------------------------------------------------------------
(* The row the list comes from.                                            *)

\* The row is text, and so is the value of every variable.
RowText == row \in Text /\ \A n \in DOMAIN variables : variables[n] \in Text

\* Min is the least one.
LEMMA LeastIs ==
  ASSUME NEW P \in SUBSET Nat, P # {}
  PROVE  Min(P) \in P
<1>1. \E n \in P : \A m \in P : n <= m
  BY LeastPlace
<1> QED
  BY <1>1 DEF Min

\* A part of a text is a text.
LEMMA SubSeqText ==
  ASSUME NEW t \in Text, NEW x \in Nat \ {0}, NEW y \in Int, y <= Len(t)
  PROVE  SubSeq(t, x, y) \in Text
<1>1. Len(t) \in Nat
  BY LenProperties DEF Text
<1>2. \A m \in x..y : t[m] \in Classes
  <2>1. ASSUME NEW m \in x..y PROVE m \in 1..Len(t)
    BY <1>1
  <2> QED
    BY <2>1, ElementOfSeq DEF Text
<1>3. x \in Int
  OBVIOUS
<1> QED
  BY <1>2, <1>3, SubSeqProperties DEF Text

\* The row of the file is text, as are the values.
LEMMA RowTextInit == RowInit => RowText
<1> SUFFICES ASSUME RowInit PROVE RowText
  OBVIOUS
<1>1. row \in Text
  <2>1. PICK m \in 0..MaxLength : given \in [1..m -> Classes]
    BY DEF RowInit, SeqOf
  <2>2. m \in Nat
    BY DatasetRowAssumption
  <2>3. given \in Seq(Classes)
    BY <2>1, <2>2
  <2> QED
    BY <2>3 DEF RowInit, Text
<1>2. ASSUME NEW n \in DOMAIN variables PROVE variables[n] \in Text
  <2>1. variables[n] \in Values
    BY DEF RowInit
  <2>2. variables[n] \in Seq(ValueClasses)
    BY <2>1, DatasetRowAssumption
  <2>3. ValueClasses \subseteq Classes
    BY DEF ValueClasses, Classes
  <2>4. Seq(ValueClasses) \subseteq Seq(Classes)
    BY <2>3
  <2> QED
    BY <2>2, <2>4 DEF Text
<1> QED
  BY <1>1, <1>2 DEF RowText

\* A substitution leaves text.
LEMMA ReplacedText ==
  ASSUME RowText, Starts(row) # {}, NameIn(row) \in DOMAIN variables
  PROVE  Replaced(row) \in Text
<1> DEFINE w == Len(row)
           S == Starts(row)
           i == StartOf(row)
           J == {j \in DOMAIN row : RefersAt(row, i, j)}
           j == EndOf(row)
           rest == SubSeq(row, j + 1, w)
           width == j - i + 1
           kept == IF Len(rest) < width THEN Len(rest) ELSE width
<1>1. row \in Text /\ w \in Nat /\ DOMAIN row = 1..w
  BY LenProperties DEF RowText, Text
<1>2. i \in S
  <2>1. S \in SUBSET Nat
    BY <1>1 DEF Starts
  <2> HIDE DEF S
  <2>2. Min(S) \in S
    BY <2>1, LeastIs DEF S
  <2> QED
    BY <2>2 DEF StartOf, S
<1>3. i \in 1..w /\ J # {}
  BY <1>1, <1>2 DEF Starts
<1>4. j \in J
  <2>1. J \in SUBSET Nat
    BY <1>1
  <2>2. j = Min(J)
    BY DEF EndOf
  <2> HIDE DEF J, j
  <2> QED
    BY <1>3, <2>1, <2>2, LeastIs
<1>5. j \in 1..w /\ i < j
  BY <1>1, <1>4 DEF RefersAt
<1> HIDE DEF i, j, J, S, w
<1>6. SubSeq(row, 1, i - 1) \in Text
  <2>1. 1 \in Nat \ {0} /\ i - 1 \in Int /\ i - 1 <= w
    BY <1>1, <1>3
  <2> QED
    BY <1>1, <2>1, SubSeqText DEF w
<1>7. rest \in Text
  <2>1. j + 1 \in Nat \ {0} /\ w \in Int /\ w <= w
    BY <1>1, <1>5
  <2> QED
    BY <1>1, <2>1, SubSeqText DEF w
<1> HIDE DEF rest
<1>8. SubSeq(rest, 1, kept) \in Text
  <2>1. Len(rest) \in Nat
    BY <1>7, LenProperties DEF Text
  <2>2. 1 \in Nat \ {0} /\ kept \in Int /\ kept <= Len(rest)
    BY <1>1, <1>3, <1>5, <2>1
  <2> HIDE DEF kept
  <2> QED
    BY <1>7, <2>2, SubSeqText
<1>9. variables[NameIn(row)] \in Text
  BY DEF RowText
<1>10. TailKept(row) = SubSeq(rest, 1, kept)
  BY DEF TailKept, rest, j, i, w
<1>11. Replaced(row) = SubSeq(row, 1, i - 1) \o variables[NameIn(row)] \o TailKept(row)
  BY DEF Replaced, i
<1> HIDE DEF kept
<1>12. \A r, t \in Text : r \o t \in Text
  BY ConcatProperties DEF Text
<1> QED
  BY <1>6, <1>8, <1>9, <1>10, <1>11, <1>12

-----------------------------------------------------------------------------
\* The list and the attributes; found and text are empty before the row is taken,
\* and nothing matches when the attributes are loaded.
ListType ==
  /\ list \in Text /\ found \in Seq(Found)
  /\ outcome = "substituting" => phase = "row"
  /\ phase = "row" => list = <<>> /\ text = <<>> /\ found = <<>>
  /\ phase \in {"loaded", "thrown"} => Spans(text) = {}

ListInv == RowText /\ ListType /\ SplitInv

\* A list before anything is found in it.
LEMMA SplitAtFirst == list \in Text /\ text = list /\ found = <<>> => SplitInv
<1> SUFFICES ASSUME list \in Text, text = list, found = <<>>
             PROVE  SplitInv
  OBVIOUS
<1> DEFINE n == Len(list)
<1>1. n \in Nat /\ DOMAIN list = 1..n
  BY LenProperties DEF Text
<1> HIDE DEF n
<1>2. <<>> \in Text /\ DOMAIN <<>> = {} /\ DOMAIN found = {}
  BY DEF Text
<1>3. PICK places \in [DOMAIN found -> AttributePlaces(list)] : TRUE
  <2>1. [m \in DOMAIN found |-> <<1, 1>>] \in [DOMAIN found -> AttributePlaces(list)]
    BY <1>2
  <2> QED
    BY <2>1
<1>4. text = <<>> \o SubSeq(list, 1, n)
  BY DEF n, Text
<1>5. Spans(<<>>) = {}
  BY <1>2 DEF Spans
<1>6. ASSUME NEW s \in FirstOnes(list) PROVE ~(s[2] < 1)
  <2>1. s[2] \in 1..n
    BY <1>1 DEF FirstOnes, AttributePlaces
  <2> QED
    BY <1>1, <2>1
<1>7. FoundAt(places) /\ From(<<>>, 1) /\ CutAt(1)
  BY <1>2 DEF FoundAt, From, CutAt
<1>8. Split(1, <<>>, places)
  BY <1>2, <1>4, <1>5, <1>6, <1>7 DEF Split, n
<1>9. 1 \in 1..n + 1
  BY <1>1
<1> QED
  BY <1>2, <1>8, <1>9 DEF SplitInv, n

\* Before the row is read.
LEMMA ListInvInit == ListInit => ListInv
<1> SUFFICES ASSUME ListInit PROVE ListInv
  OBVIOUS
<1>1. RowText
  BY RowTextInit DEF ListInit
<1>2. list \in Text /\ text = list /\ found = <<>> /\ found \in Seq(Found)
  BY DEF ListInit, Text
<1>3. SplitInv
  BY <1>2, SplitAtFirst
<1>4. ListType
  BY <1>2 DEF ListInit, ListType
<1> QED
  BY <1>1, <1>3, <1>4 DEF ListInv

\* One case per action; a match is MatchStep.
LEMMA ListInvStep == ListInv /\ [ListNext]_allVars => ListInv'
<1> SUFFICES ASSUME ListInv, [ListNext]_allVars PROVE ListInv'
  OBVIOUS
<1> USE DEF ListInv
\* The list, the text and what is found stay.
<1>1. ASSUME UNCHANGED <<list, text, found>> PROVE SplitInv'
  BY <1>1 DEF SplitInv, Split, CutAt, From, FoundAt
<1>2. CASE UNCHANGED allVars
  <2>1. UNCHANGED <<variables, row, outcome, phase, list, text, found>>
    BY <1>2 DEF allVars, rowVars, listVars
  <2>2. RowText' /\ ListType'
    BY <2>1 DEF RowText, ListType
  <2> QED
    BY <1>1, <2>1, <2>2
<1>3. CASE RowNext /\ UNCHANGED listVars
  <2>1. UNCHANGED <<phase, list, text, found>>
    BY <1>3 DEF listVars
  <2>2. outcome' = outcome \/ outcome' # "substituting"
    BY <1>3 DEF RowNext, Substitute, Undefined, TakeValue
  <2>3. ListType'
    BY <2>1, <2>2 DEF ListType
  <2>4. RowText'
    <3>1. CASE Substitute
      <4>1. row' \in Text
        BY <3>1, ReplacedText DEF Substitute
      <4> QED
        BY <3>1, <4>1 DEF Substitute, RowText
    <3>2. CASE Undefined \/ TakeValue
      BY <3>2 DEF Undefined, TakeValue, RowText
    <3> QED
      BY <1>3, <3>1, <3>2 DEF RowNext
  <2> QED
    BY <1>1, <2>1, <2>3, <2>4
<1>4. CASE TakeList
  <2>1. phase = "row" /\ found = <<>>
    BY <1>4 DEF TakeList, ListType
  <2>2. <<"space">> \o row \in Text
    <3>1. <<"space">> \in Seq(Classes) /\ row \in Seq(Classes)
      BY DEF Classes, RowText, Text
    <3> QED
      BY <3>1, ConcatProperties DEF Text
  <2>3. list' \in Text /\ text' = list' /\ found' = <<>>
    BY <1>4, <2>1, <2>2 DEF TakeList
  <2>4. (list \in Text /\ text = list /\ found = <<>> => SplitInv)'
    BY SplitAtFirst, PTL
  <2>5. SplitInv'
    BY <2>3, <2>4
  <2>6. ListType'
    BY <1>4, <2>3 DEF TakeList, ListType
  <2>7. RowText'
    BY <1>4 DEF TakeList, RowText
  <2> QED
    BY <2>5, <2>6, <2>7
<1>5. CASE MatchOne
  <2>1. found' \in Seq(Found) /\ SplitInv'
    BY <1>5, MatchStep DEF ListType
  <2>2. UNCHANGED <<variables, row, outcome, phase, list>> /\ phase = "matching"
    BY <1>5 DEF MatchOne, rowVars
  <2>3. ListType' /\ RowText'
    BY <2>1, <2>2 DEF ListType, RowText
  <2> QED
    BY <2>1, <2>3
<1>6. CASE LoadAttributes
  <2>1. /\ UNCHANGED <<variables, row, outcome, list, text, found>>
        /\ phase' \in {"loaded", "thrown"} /\ Spans(text) = {} /\ phase = "matching"
    BY <1>6 DEF LoadAttributes, rowVars
  <2>2. ListType' /\ RowText'
    BY <2>1 DEF ListType, RowText
  <2> QED
    BY <1>1, <2>1, <2>2
<1> QED
  BY <1>2, <1>3, <1>4, <1>5, <1>6 DEF ListNext

\* When nothing matches any more, such an attribute ends in what is dealt with.
LEMMA NoneLeft ==
  ASSUME list \in Text, NEW k \in 1..Len(list) + 1, NEW left \in Text,
         NEW places, Split(k, left, places), Spans(text) = {},
         NEW s \in FirstOnes(list)
  PROVE  s[2] < k
<1> DEFINE n == Len(list)
           u == s[1]
           v == s[2]
<1>1. n \in Nat /\ DOMAIN list = 1..n /\ k \in 1..n + 1
  BY LenProperties DEF Text
<1>2. u \in 1..n /\ v \in 1..n /\ Attribute(SubSeq(list, u, v))
  BY <1>1 DEF FirstOnes, AttributePlaces
<1>3. u <= v /\ \A m \in u..v : list[m] \in Good
  <2>1. u \in Nat \ {0} /\ v \in 0..Len(list)
    BY <1>1, <1>2
  <2> HIDE DEF u, v, n
  <2> QED
    BY <1>2, <2>1, AttributeIs
<1>4. ~(u >= k)
  <2> SUFFICES ASSUME u >= k PROVE FALSE
    OBVIOUS
  <2>1. PICK x, y \in DOMAIN text : Matches(text, x, y)
    BY FirstOneMatches
  <2>2. <<x, y>> \in Spans(text)
    BY <2>1 DEF Spans
  <2> QED
    BY <2>2
<1> HIDE DEF n, u, v
<1>5. ~(v >= k)
  <2> SUFFICES ASSUME v >= k PROVE FALSE
    OBVIOUS
  <2>1. k # 1 /\ k # n + 1 /\ k - 1 \in u..v
    BY <1>1, <1>2, <1>4
  <2>2. list[k - 1] = "comma"
    BY <2>1 DEF Split, CutAt, n
  <2> QED
    BY <1>3, <2>1, <2>2 DEF Good
<1>6. v < k
  BY <1>1, <1>2, <1>5
<1> QED
  BY <1>6 DEF v

\* What the invariant says of the attributes found.
LEMMA ListInvShows == ListInv => NothingInvented /\ FirstOnesFound
<1> SUFFICES ASSUME ListInv PROVE NothingInvented /\ FirstOnesFound
  OBVIOUS
<1>1. PICK k \in 1..Len(list) + 1, left \in Text,
           places \in [DOMAIN found -> AttributePlaces(list)] : Split(k, left, places)
  BY DEF ListInv, SplitInv
<1>2. FoundAt(places)
  BY <1>1 DEF Split
<1>3. NothingInvented
  BY <1>2 DEF NothingInvented
<1>4. FirstOnesFound
  <2> SUFFICES ASSUME phase \in {"loaded", "thrown"}
               PROVE  FirstOnes(list) \subseteq {places[n] : n \in DOMAIN found}
    BY <1>2 DEF FirstOnesFound
  <2>1. list \in Text /\ Spans(text) = {}
    BY DEF ListInv, ListType
  <2>2. ASSUME NEW s \in FirstOnes(list) PROVE \E n \in DOMAIN found : places[n] = s
    <3>1. s[2] < k
      BY <1>1, <2>1, NoneLeft
    <3> QED
      BY <1>1, <3>1 DEF Split
  <2> QED
    BY <2>2
<1> QED
  BY <1>3, <1>4

(* What StringMatch::match finds and erases one after the other are        *)
(* elements of the list in their order: none is text that the erasing of   *)
(* another has joined.                                                     *)
THEOREM AttributesOfTheList == ListSpec => []NothingInvented
<1>1. ListSpec => []ListInv
  BY ListInvInit, ListInvStep, PTL DEF ListSpec
<1> QED
  BY <1>1, ListInvShows, PTL

(* When loadAttributes is through, StringMatch::match has found every      *)
(* attribute of the list with nothing malformed before it, also where a    *)
(* match has erased the comma before it.                                   *)
THEOREM AttributesAllFound == ListSpec => []FirstOnesFound
<1>1. ListSpec => []ListInv
  BY ListInvInit, ListInvStep, PTL DEF ListSpec
<1> QED
  BY <1>1, ListInvShows, PTL
==============================================================================
