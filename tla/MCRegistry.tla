----------------------------- MODULE MCRegistry -----------------------------
(***************************************************************************)
(* HandlerRegistry for TLC: two plugins that handle what ODBCPlugin does,  *)
(* the builders reduced to das and data, and one made from the templates   *)
(* that handles less.                                                      *)
(***************************************************************************)
EXTENDS HandlerRegistry, TLC

CONSTANTS odbc, sqlite, own, das, data, vers, help

MCPlugins == {odbc, sqlite, own}
MCCommands == {das, data, vers, help}
MCNative == {vers, help}
MCHandledBy == odbc :> {das, data, vers, help} @@ sqlite :> {das, data, vers, help}
                 @@ own :> {data, vers}
MCSettings == {{1, 2}, {3}}
=============================================================================
