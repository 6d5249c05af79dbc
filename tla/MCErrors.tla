------------------------------- MODULE MCErrors -------------------------------
(***************************************************************************)
(* ErrorActions for TLC, with the lists of ODBCErrorFactoryComponent and   *)
(* those of the template a plugin is made from.  "other" stands for a code *)
(* neither has a list for, on which the process ends.                      *)
(***************************************************************************)
EXTENDS ErrorActions, TLC

MCCodes == {"success", "info", "nodata", "error", "invalid", "other"}
NoErrors == [c \in {"success", "info", "nodata"} |-> <<"debug">>]

ODBCActions == NoErrors @@ [c \in {"error", "invalid"} |-> <<"fatal">>]
ODBCStops == {"success", "info", "nodata"}

TemplateActions == NoErrors @@ [c \in {"error", "invalid"} |-> <<"debug", "exception">>]
TemplateStops == {"success", "info"}

MCSettings == {{}, {1, 3}, {1, 2, 3, 4, 5}}
MCDocumented == SUBSET Checks

\* What the proofs ask of the lists holds of those given to TLC.
ASSUME MCListsDecide == ListsDecide
=============================================================================
