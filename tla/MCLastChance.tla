----------------------------- MODULE MCLastChance -----------------------------
(***************************************************************************)
(* LastChance for TLC: a dataset file that is edited three times: two      *)
(* sections of one plugin, contents the parser refuses (with an error      *)
(* buildContainer does not declare), a mixture of every kind of section,   *)
(* and one no plugin can answer.                                           *)
(***************************************************************************)
EXTENDS LastChance

MCSections == << <<"odbc", "odbc">>,
                 <<"odbc">>,
                 <<"unknown", "odbc", "sql", "silent", "sqlite">>,
                 <<"silent", "unknown">> >>
MCLoaded == {"odbc", "sqlite", "silent"}
MCHandling == {"odbc", "sqlite"}
=============================================================================
