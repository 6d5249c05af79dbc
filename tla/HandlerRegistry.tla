--------------------------- MODULE HandlerRegistry ---------------------------
(***************************************************************************)
(* The base request handler of the SQL module and the plugins that use it: *)
(* SQLModule.cc, SQLRequestHandler.cc, SQLPlugin.cc and, as the plugin's   *)
(* loader, unixODBC/ODBCPluginLoader.cc.  Each command a plugin handles is *)
(* wrapped: the base handler counts the plugins that handle it and has a   *)
(* method for it as long as the count is not zero.  The server loads and   *)
(* unloads modules one at a time.                                          *)
(***************************************************************************)
EXTENDS Naturals, FiniteSets, Functions

CONSTANTS
  Plugins,     \* module names of the plugins
  Commands,    \* the commands plugins may handle
  Native,      \* version and help, which the base handler answers itself
  HandledBy,   \* the commands each plugin's constructor adds
  Settings,    \* values the SQL.CheckPoint key takes in the configuration
  Twice,       \* the configuration may name a plugin's module twice
  Reload       \* the server may terminate the sql module before it exits

ASSUME RegistryAssumption ==
  /\ IsFiniteSet(Plugins)
  /\ Native \subseteq Commands /\ Plugins \cap Commands = {}
  /\ HandledBy \in [Plugins -> SUBSET Commands]
  /\ Twice \in BOOLEAN /\ Reload \in BOOLEAN

VARIABLES
  base,     \* _rh, the base handler object: "alive" or "freed"
  listed,   \* the server's list of handlers has the entry "sql"
  methods,  \* the base handler's methods: command -> "native", "wrapper"
  wraps,    \* _theWrapCount: command -> count
  handlers, \* _theList: plugin -> the commands it handles
  config,   \* SQL.CheckPoint in the configuration now
  isSet,    \* SQLCheckPoint::init has read the key
  checks    \* the check points it found

vars == <<base, listed, methods, wraps, handlers, config, isSet, checks>>

Empty == [x \in {} |-> 0]

(* The static initialiser of SQLModule.cc makes the base handler, whose    *)
(* constructor adds the native methods.                                    *)
Init ==
  /\ base = "alive" /\ listed = FALSE
  /\ methods = [c \in Native |-> "native"]
  /\ wraps = Empty /\ handlers = Empty
  /\ config \in Settings /\ isSet = FALSE /\ checks = {}

(* SQLModule::initialize.  After terminate it asks for the singleton anew, *)
(* whose pointer is still the one of the deleted object.                   *)
InitializeSql ==
  /\ ~listed
  /\ listed' = TRUE
  /\ UNCHANGED <<base, methods, wraps, handlers, config, isSet, checks>>

\* The configuration file is edited.
EditConfig ==
  /\ config' \in Settings
  /\ UNCHANGED <<base, listed, methods, wraps, handlers, isSet, checks>>

-----------------------------------------------------------------------------
\* Mutant of Counted: a command that is already counted is not counted up.
CountedOnce(counts, commands) ==
  [c \in DOMAIN counts \cup commands |->
     IF c \in DOMAIN counts THEN counts[c] ELSE 1]

\* update_wrap_count(c, true) for each of the commands.
Counted(counts, commands) ==
  [c \in DOMAIN counts \cup commands |->
     (IF c \in DOMAIN counts THEN counts[c] ELSE 0)
       + (IF c \in commands THEN 1 ELSE 0)]

\* Mutant of Wrapped: a method that is there is replaced.
WrappedOver(table, commands) ==
  [c \in DOMAIN table \cup commands |->
     IF c \in commands THEN "wrapper" ELSE table[c]]

\* add_method(c, wrapper) for each of the commands: a method there stays.
Wrapped(table, commands) ==
  [c \in DOMAIN table \cup commands |->
     IF c \in DOMAIN table THEN table[c] ELSE "wrapper"]

\* Mutant of InUse: the wrapper goes with the first plugin that leaves.
InUseAlone(count) == FALSE

\* The wrap count is not zero after one plugin less.
InUse(count) == count - 1 > 0

\* The commands whose count update_wrap_count(c, false) erases.
LastUse(commands) == {c \in commands : ~InUse(wraps[c])}

\* remove_sql_wrapper(c) for each of the commands: one without a method is
\* left alone.
Discounted(commands) ==
  [c \in DOMAIN wraps \ LastUse(commands) |->
     IF c \in commands THEN wraps[c] - 1 ELSE wraps[c]]

\* SQLCheckPoint::init, the first time only.
ReadSettings == IF isSet THEN checks ELSE config

\* SQLPlugin::findTheList: the base handler, if the server lists it.
FindsTheList == listed /\ base = "alive"

\* add_sql_handler(p): an entry of that name stays.
Added(p) == [q \in DOMAIN handlers \cup {p} |-> HandledBy[q]]

\* remove_sql_handler(p), once its commands are not wrapped any more.
Removed(p) == Restrict(handlers, DOMAIN handlers \ {p})

\* SQLPlugin::remove_handlers: every command the plugin handles is unwrapped,
\* but for those the base handler has no method for.
RemoveHandlers(p) ==
  LET known == handlers[p] \cap DOMAIN methods
  IN  /\ wraps' = Discounted(known)
      /\ methods' = Restrict(methods, DOMAIN methods \ LastUse(known))

\* ~SQLRequestHandler: remove_sql_handlers steps its iterator after the entry
\* is erased, as if the list were emptied; then the tables are deleted.
DestroyHandler ==
  base' = "freed" /\ methods' = Empty /\ wraps' = Empty /\ handlers' = Empty

(* ODBCPluginLoader::initialize: the constructor of the plugin wraps its   *)
(* commands, then the plugin is added to the list unless its name is       *)
(* there: the counts stay as the constructor left them in either case.     *)
(* Without the base handler the plugin is not loaded.                      *)
LoadPlugin(p) ==
  /\ base = "alive"
  /\ p \in DOMAIN handlers => Twice
  /\ isSet' = TRUE /\ checks' = ReadSettings
  /\ IF FindsTheList
       THEN /\ wraps' = Counted(wraps, HandledBy[p])
            /\ methods' = Wrapped(methods, HandledBy[p])
            /\ handlers' = Added(p)
       ELSE UNCHANGED <<wraps, methods, handlers>>
  /\ UNCHANGED <<base, listed, config>>

(* ODBCPluginLoader::terminate for a loaded plugin: remove_handlers, then  *)
(* the entry of the list is erased.                                        *)
UnloadPlugin(p) ==
  /\ FindsTheList /\ p \in DOMAIN handlers
  /\ RemoveHandlers(p)
  /\ handlers' = Removed(p)
  /\ UNCHANGED <<base, listed, config, isSet, checks>>

(* SQLModule::terminate: the base handler is taken off the server's list   *)
(* and deleted; the singleton's pointer is not reset.                      *)
TerminateSql ==
  /\ Reload /\ listed /\ base = "alive"
  /\ listed' = FALSE
  /\ DestroyHandler
  /\ UNCHANGED <<config, isSet, checks>>

Next ==
  \/ InitializeSql \/ EditConfig \/ TerminateSql
  \/ \E p \in Plugins : LoadPlugin(p) \/ UnloadPlugin(p)

Spec == Init /\ [][Next]_vars

-----------------------------------------------------------------------------
(* The plugins in the list that handle a command.                          *)
UsersOf(c) == {p \in DOMAIN handlers : c \in handlers[p]}

RegistryTypeOK ==
  /\ base \in {"alive", "freed"} /\ listed \in BOOLEAN
  /\ DOMAIN methods \subseteq Commands
  /\ \A c \in DOMAIN methods : methods[c] \in {"native", "wrapper"}
  /\ DOMAIN wraps \subseteq Commands
  /\ \A c \in DOMAIN wraps : wraps[c] \in Nat \ {0}
  /\ DOMAIN handlers \subseteq Plugins
  /\ \A p \in DOMAIN handlers : handlers[p] = HandledBy[p]
  /\ isSet \in BOOLEAN

(* The wrap count of a command is the number of plugins in the list that   *)
(* handle it, after any sequence of loads and unloads ("track how many     *)
(* (value) SQLPlugins are using a wrap function", SQLRequestHandler.h:134).*)
WrapsAreUsers ==
  /\ DOMAIN wraps = {c \in Commands : UsersOf(c) # {}}
  /\ \A c \in DOMAIN wraps : wraps[c] = Cardinality(UsersOf(c))

(* A command some loaded plugin handles reaches it: unloading another      *)
(* plugin that shares the command does not take the method away.  And no   *)
(* method outlives the plugins it was made for, so that the wrapper is not *)
(* entered for a command nobody handles.                                   *)
WrappedIfHandled ==
  \A c \in Commands :
    /\ UsersOf(c) # {} => c \in DOMAIN methods
    /\ c \in DOMAIN methods /\ methods[c] = "wrapper" => UsersOf(c) # {}

(* The base handler goes on answering the commands its constructor added   *)
(* ("add default command handler functionalities to the list",             *)
(* SQLRequestHandler.h:194), whatever plugins come and go.                 *)
NativeStays ==
  base = "alive" => \A c \in Native : c \in DOMAIN methods /\ methods[c] = "native"

(* ... or, since it does not: its own method for a command goes only with  *)
(* the last of the plugins that handle the command, or with the base       *)
(* handler itself.  No plugin that comes puts the wrapper in its place,    *)
(* none that shares the command takes it away when it leaves.              *)
NativeUntilLastLeaves ==
  [][\A c \in Native :
       c \in DOMAIN methods /\ methods[c] = "native" =>
         \/ c \in DOMAIN methods' /\ methods'[c] = "native"
         \/ UsersOf(c) # {} /\ UsersOf(c)' = {}
         \/ base' = "freed"]_vars

(* "re-initialize check point reading configuration file to get            *)
(* modification" (ODBCPluginLoader.cc:48).                                 *)
LoadReadsConfig == [][DOMAIN handlers' \ DOMAIN handlers # {} => checks' = config]_vars

(* The server never calls a base handler that has been deleted.            *)
NoDanglingHandler == listed => base = "alive"
=============================================================================
