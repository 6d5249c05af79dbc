----------------------------- MODULE DatasetFile -----------------------------
(***************************************************************************)
(* SQLTextContainer::read: a dataset file is read row by row.  A row is    *)
(* told by the first regular expression it matches: a comment, the         *)
(* definition of a variable, a tag, KEY=VALUE, or free form.  Tags say     *)
(* which part of a section the rows after them belong to; a [section] tag  *)
(* and the end of the file store the section read so far, if the parts     *)
(* marked in the completion diary are those required.                      *)
(*                                                                         *)
(* Of what a row says the model keeps its label: how many [section] tags   *)
(* and which tag come before it in the file.  Texts that are appended are  *)
(* sets of labels.  How a variable is replaced in a row is DatasetRow's.   *)
(***************************************************************************)
EXTENDS Naturals, Sequences, FiniteSets

CONSTANTS
  MaxSections,  \* bounds the [section] tags of a file, not its rows
  Tags,         \* the tags a file has; those not in KnownTags are not heeded
  Variables,    \* variables a row may name
  RowsBefore    \* rows may come before the first tag

KnownTags == {"section", "select", "from", "where", "other"}

ASSUME DatasetFileAssumption ==
  /\ MaxSections \in Nat \ {0}
  /\ "section" \in Tags /\ RowsBefore \in BOOLEAN

\* The diary marks KEY=VALUE pairs of the [section] part beside the tags; the
\* optional port, dbname, user and pass are one.
Keys == {"api", "server", "user"}
Parts == KnownTags \cup Keys
Labels == (0..MaxSections) \X (Tags \cup {"none"})

VARIABLES
  status,    \* of read(): "reading", "true", "false", "thrown"
  start,     \* _start: no [section] tag has been read
  part,      \* reading_part
  complete,  \* the completion diary
  section,   \* new_section: the rows each of its fields comes from
  attribute, \* _attribute, the text of the select part
  where,     \* _where, the text of the where part
  dataset,   \* _dataset: the sections stored
  known,     \* variables defined so far
  label      \* of the rows read now

vars == <<status, start, part, complete, section, attribute, where, dataset,
          known, label>>

Fields == {"api", "server", "user", "other", "from", "select", "where"}
NewSection == [f \in Fields |-> {}]

\* Nothing sets reading_part before the first tag does.
Init ==
  /\ status = "reading" /\ start = TRUE
  /\ part \in Parts
  /\ complete = {} /\ section = NewSection
  /\ attribute = {} /\ where = {} /\ dataset = <<>> /\ known = {}
  /\ label = <<0, "none">>

Throw ==
  /\ status' = "thrown"
  /\ UNCHANGED <<start, part, complete, section, attribute, where, dataset,
                 known, label>>

\* The file cannot be opened.
OpenFails == status = "reading" /\ label = <<0, "none">> /\ Throw

-----------------------------------------------------------------------------
(* addNewSection                                                           *)

\* requirements()
Required == {"section", "api", "server", "select", "from"}

\* Mutant of Kept: the text of the select part is not cleared.
KeptText(text, done) == text

\* The text kept for the next section once it has been loaded.
Kept(text, done) == IF done THEN {} ELSE text

\* The diary once the texts have been loaded: empty says which of them held
\* nothing that could be loaded.
Loaded(empty) == complete \ empty

Complete(diary) == Required \subseteq diary

WithTexts(empty) ==
  [section EXCEPT
     !["select"] = IF "select" \in complete \ empty THEN attribute ELSE @,
     !["where"]  = IF "where" \in complete \ empty THEN where ELSE @]

\* What the parts of a section may fail to hold once loaded.
MayBeEmpty == SUBSET ({"select", "where"} \cap complete)

AddNewSection(empty) ==
  /\ Complete(Loaded(empty))
  /\ dataset' = Append(dataset, WithTexts(empty))
  /\ attribute' = Kept(attribute, "select" \in complete)
  /\ where' = Kept(where, "where" \in complete)

-----------------------------------------------------------------------------
(* partTracking                                                            *)

\* Mutant of NewDiary: the diary of the last section is not reset.
OldDiary == complete

NewDiary == {}

Counted(n) == IF n < MaxSections THEN n + 1 ELSE n

\* The first [section] tag: what came before it stays.
FirstSectionTag ==
  /\ status = "reading" /\ start
  /\ start' = FALSE /\ part' = "section"
  /\ label' = <<Counted(label[1]), "section">>
  /\ UNCHANGED <<status, complete, section, attribute, where, dataset, known>>

NextSectionTag ==
  /\ status = "reading" /\ ~start /\ label[1] < MaxSections
  /\ \E empty \in MayBeEmpty : AddNewSection(empty)
  /\ complete' = NewDiary /\ section' = NewSection
  /\ part' = "section"
  /\ label' = <<Counted(label[1]), "section">>
  /\ UNCHANGED <<status, start, known>>

\* Another tag; one that is not known changes nothing.
OtherTag(tag) ==
  /\ status = "reading" /\ tag # "section"
  /\ part' = IF tag \in KnownTags THEN tag ELSE part
  /\ label' = <<label[1], tag>>
  /\ UNCHANGED <<status, start, complete, section, attribute, where, dataset,
                 known>>

-----------------------------------------------------------------------------
(* The other rows                                                          *)

\* Where rows may stand in the files considered.
HasRows == status = "reading" /\ (label[2] = "none" => RowsBefore)

\* A variable is defined once: the first definition stays.
DefineVariable(v) ==
  /\ HasRows
  /\ known' = known \cup {v}
  /\ UNCHANGED <<status, start, part, complete, section, attribute, where,
                 dataset, label>>

\* variableSubstitution throws: the row names a variable not yet defined.
UndefinedVariable == HasRows /\ Variables \ known # {} /\ Throw

\* The diary once a key of the [section] part has been read.
Marked(key) ==
  complete \cup {key}
    \cup (IF {"api", "server"} \subseteq complete \cup {key} THEN {"section"} ELSE {})

\* addKeyValue in the [section] part.
SectionKey(key) ==
  /\ HasRows /\ part = "section"
  /\ section' = [section EXCEPT ![key] = {label}]
  /\ complete' = Marked(key)
  /\ UNCHANGED <<status, start, part, attribute, where, dataset, known, label>>

\* A key that is not reserved, or a free form row, in the [section] part.
BadSectionRow == HasRows /\ part = "section" /\ Throw

\* addKeyValue and addFreeForm do the same in these parts.
SelectRow ==
  /\ HasRows /\ part = "select"
  /\ attribute' = attribute \cup {label}
  /\ complete' = complete \cup {"select"}
  /\ UNCHANGED <<status, start, part, section, where, dataset, known, label>>

FromRow ==
  /\ HasRows /\ part = "from"
  /\ section' = [section EXCEPT !["from"] = @ \cup {label}]
  /\ complete' = complete \cup {"from"}
  /\ UNCHANGED <<status, start, part, attribute, where, dataset, known, label>>

WhereRow ==
  /\ HasRows /\ part = "where"
  /\ where' = where \cup {label}
  /\ complete' = complete \cup {"where"}
  /\ UNCHANGED <<status, start, part, section, attribute, dataset, known, label>>

\* KEY=VALUE in the [other] part: a free form row there is passed over.
OtherRow ==
  /\ HasRows /\ part = "other"
  /\ section' = [section EXCEPT !["other"] = @ \cup {label}]
  /\ complete' = complete \cup {"other"}
  /\ UNCHANGED <<status, start, part, attribute, where, dataset, known, label>>

-----------------------------------------------------------------------------
(* The end of the file: the last section is stored, if there was one.      *)

\* Mutant of StoresLast: the last section is left out.
NeverStores == FALSE

StoresLast == ~start

EndOfFile ==
  /\ status = "reading"
  /\ IF StoresLast
       THEN /\ \E empty \in MayBeEmpty : AddNewSection(empty)
            /\ status' = "true"
       ELSE /\ status' = IF start THEN "false" ELSE "true"
            /\ UNCHANGED <<attribute, where, dataset>>
  /\ UNCHANGED <<start, part, complete, section, known, label>>

\* addNewSection throws, at a tag or at the end of the file.
SectionIncomplete ==
  /\ status = "reading" /\ ~start
  /\ \E empty \in MayBeEmpty : ~Complete(Loaded(empty))
  /\ Throw

\* loadConstraints or loadAttributes throws at something that is matched and
\* then not recognized as an attribute.
TextRefused ==
  /\ status = "reading" /\ ~start
  /\ complete \cap {"where", "select"} # {}
  /\ Throw

ReadRow ==
  \/ FirstSectionTag \/ NextSectionTag \/ \E tag \in Tags : OtherTag(tag)
  \/ \E v \in Variables : DefineVariable(v)
  \/ UndefinedVariable \/ BadSectionRow
  \/ \E key \in Keys : SectionKey(key)
  \/ SelectRow \/ FromRow \/ WhereRow \/ OtherRow

Next == OpenFails \/ ReadRow \/ EndOfFile \/ SectionIncomplete \/ TextRefused

Spec == Init /\ [][Next]_vars

-----------------------------------------------------------------------------
DatasetTypeOK ==
  /\ status \in {"reading", "true", "false", "thrown"}
  /\ start \in BOOLEAN /\ part \in Parts /\ complete \subseteq Parts
  /\ section \in [Fields -> SUBSET Labels]
  /\ attribute \subseteq Labels /\ where \subseteq Labels
  /\ dataset \in Seq([Fields -> SUBSET Labels]) /\ Len(dataset) <= MaxSections
  /\ known \subseteq Variables
  /\ label \in Labels /\ (start <=> label[1] = 0)

(* Every section in the dataset has an api, a server, a select and a from  *)
(* part ("Each section should contain at least", requirements()): a later  *)
(* section is not taken for complete because an earlier one was.           *)
SectionsHaveRequired ==
  \A n \in 1..Len(dataset) :
    \A f \in {"api", "server", "select", "from"} : dataset[n][f] # {}

PartOf(f) == IF f \in Keys THEN "section" ELSE f

\* A row with the label l may stand in the field f of the n-th section.
InPlace(l, f, n) ==
  /\ l[1] = n \/ (n = 1 /\ l[1] = 0)
  /\ l[2] \in KnownTags => l[2] = PartOf(f)

(* No text of one section ends up in the query of another, although the    *)
(* select and where parts are collected in members of the container that   *)
(* outlive the section; rows before the first tag count to the first.  And *)
(* none ends up in the field of another part, unless a tag that is not     *)
(* known has left the part before it open.                                 *)
RowsOfOwnSection ==
  \A n \in 1..Len(dataset) : \A f \in Fields : \A l \in dataset[n][f] :
    InPlace(l, f, n)

(* A file read to its end gave as many sections as it has [section] tags,  *)
(* in their order: neither a tag nor the end of the file loses one.        *)
NoSectionLost ==
  /\ status = "true" => Len(dataset) = label[1]
  /\ status = "false" => label[1] = 0

\* A known tag has opened its part.
PartInv == label[2] \in KnownTags => part = label[2]

\* What is read of a section is in its place, and the texts are there while
\* the diary says so.
SectionInv ==
  LET n == IF start THEN 1 ELSE label[1]
  IN  /\ \A f \in Fields : \A l \in section[f] : InPlace(l, f, n)
      /\ \A l \in attribute : InPlace(l, "select", n)
      /\ \A l \in where : InPlace(l, "where", n)

DiaryInv ==
  /\ "select" \in complete <=> attribute # {}
  /\ "where" \in complete <=> where # {}
  /\ "from" \in complete => section["from"] # {}
  /\ "section" \in complete => {"api", "server"} \subseteq complete
  /\ \A f \in {"api", "server"} : f \in complete => section[f] # {}

\* The section being read is not in the dataset yet.
LengthInv ==
  /\ status = "true" => ~start /\ Len(dataset) = label[1]
  /\ status = "false" => start
  /\ status \in {"reading", "thrown"} =>
       Len(dataset) = IF start THEN 0 ELSE label[1] - 1

\* The invariant SectionsHaveRequired, RowsOfOwnSection and NoSectionLost need
\* to be inductive.
FileInv ==
  /\ DatasetTypeOK /\ PartInv /\ LengthInv
  /\ SectionsHaveRequired /\ RowsOfOwnSection
  /\ status = "reading" => SectionInv /\ DiaryInv

(* The fields of a section come from the part of the file their tag starts *)
(* ("set accordingly the reading_part to track the 'part' which the tag is *)
(* starting", SQLTextContainer.cc:655).                                    *)
RowsOfOwnPart ==
  \A n \in 1..Len(dataset) : \A f \in Fields : \A l \in dataset[n][f] :
    l[2] = PartOf(f)

(* reading_part needs "no need to set" (SQLTextContainer.cc:544): what a   *)
(* row before the first tag means does not depend on its initial value.    *)
NothingBeforeTags ==
  [][label = <<0, "none">> /\ status' = "reading" =>
       section' = section /\ attribute' = attribute /\ where' = where]_vars
=============================================================================
