------------------------ MODULE HandlerRegistryProofs ------------------------
(***************************************************************************)
(* The proofs about the registry of plugins, for any number of plugins and *)
(* commands and any order of loading and unloading, if no plugin is loaded *)
(* twice: wrap counts are what they say, methods are there as long as they *)
(* are needed, and the base handler's own go last.  The two invariants     *)
(* need each other: remove_handlers only discounts the commands the base   *)
(* handler has a method for, and removes the method of one whose count     *)
(* comes to zero.                                                          *)
(***************************************************************************)
EXTENDS HandlerRegistry, FiniteSetTheorems, TLAPS

\* The tables are functions, the list of plugins one to what they handle.
ShapeInv ==
  /\ wraps = [c \in DOMAIN wraps |-> wraps[c]]
  /\ methods = [c \in DOMAIN methods |-> methods[c]]
  /\ handlers = [p \in DOMAIN handlers |-> HandledBy[p]]

RegistryInv == RegistryTypeOK /\ ShapeInv /\ WrapsAreUsers /\ WrappedIfHandled

-----------------------------------------------------------------------------
(* The number of users of a command is a natural number, zero for none,    *)
(* one for a single one.                                                   *)
LEMMA UsersCounted ==
  ASSUME RegistryInv, NEW c \in Commands
  PROVE  /\ IsFiniteSet(UsersOf(c)) /\ Cardinality(UsersOf(c)) \in Nat
         /\ Cardinality(UsersOf(c)) = 0 <=> UsersOf(c) = {}
         /\ \A p \in UsersOf(c) : Cardinality(UsersOf(c)) = 1 <=> UsersOf(c) = {p}
<1>1. UsersOf(c) \in SUBSET Plugins
  BY DEF RegistryInv, RegistryTypeOK, UsersOf
<1>2. IsFiniteSet(Plugins)
  BY RegistryAssumption
<1>3. IsFiniteSet(UsersOf(c))
  BY <1>1, <1>2, FS_Subset
<1>4. Cardinality(UsersOf(c)) \in Nat
  BY <1>3, FS_CardinalityType
<1>5. Cardinality(UsersOf(c)) = 0 <=> UsersOf(c) = {}
  BY <1>3, FS_EmptySet
<1>6. Cardinality(UsersOf(c)) = 1 <=> \E p : UsersOf(c) = {p}
  BY <1>3, FS_Singleton
<1> QED
  BY <1>3, <1>4, <1>5, <1>6

LEMMA RegistryInit == Init => RegistryInv
<1> SUFFICES ASSUME Init PROVE RegistryInv
  OBVIOUS
<1>1. DOMAIN wraps = {} /\ DOMAIN handlers = {} /\ DOMAIN methods = Native
  BY DEF Init, Empty
<1>2. \A c : UsersOf(c) = {}
  BY <1>1 DEF UsersOf
<1>3. RegistryTypeOK
  BY <1>1, RegistryAssumption DEF Init, RegistryTypeOK
<1>4. ShapeInv
  BY <1>1 DEF Init, Empty, ShapeInv
<1>5. WrapsAreUsers /\ WrappedIfHandled
  BY <1>1, <1>2 DEF Init, WrapsAreUsers, WrappedIfHandled
<1> QED
  BY <1>3, <1>4, <1>5 DEF RegistryInv

(* Steps that leave the tables of the base handler alone.                  *)
LEMMA TablesUnchanged ==
  ASSUME RegistryInv, UNCHANGED <<methods, wraps, handlers>>,
         base' \in {"alive", "freed"}, listed' \in BOOLEAN, isSet' \in BOOLEAN
  PROVE  RegistryInv'
<1>1. \A c : UsersOf(c)' = UsersOf(c)
  BY DEF UsersOf
<1> QED
  BY <1>1 DEF RegistryInv, RegistryTypeOK, ShapeInv, WrapsAreUsers, WrappedIfHandled

-----------------------------------------------------------------------------
(* A plugin that is loaded becomes a user of each command it handles.      *)
LEMMA UsersAfterLoad ==
  ASSUME RegistryInv, NEW p \in Plugins, p \notin DOMAIN handlers,
         handlers' = Added(p), NEW c \in Commands
  PROVE  UsersOf(c)' = IF c \in HandledBy[p] THEN UsersOf(c) \cup {p} ELSE UsersOf(c)
<1>1. DOMAIN handlers' = DOMAIN handlers \cup {p}
  BY DEF Added
<1>2. \A q \in DOMAIN handlers' : handlers'[q] = HandledBy[q]
  BY DEF Added
<1>3. \A q \in DOMAIN handlers : handlers[q] = HandledBy[q]
  BY DEF RegistryInv, RegistryTypeOK
<1> QED
  BY <1>1, <1>2, <1>3 DEF UsersOf

LEMMA LoadKeepsInv ==
  ASSUME RegistryInv, NEW p \in Plugins, p \notin DOMAIN handlers,
         LoadPlugin(p), FindsTheList
  PROVE  RegistryInv'
<1> USE DEF RegistryInv
<1>0. HandledBy[p] \subseteq Commands
  BY RegistryAssumption
<1>1. /\ wraps' = Counted(wraps, HandledBy[p])
      /\ methods' = Wrapped(methods, HandledBy[p])
      /\ handlers' = Added(p)
      /\ UNCHANGED <<base, listed>> /\ isSet' = TRUE
  BY DEF LoadPlugin
<1>2. \A c \in Commands : UsersOf(c)' =
        IF c \in HandledBy[p] THEN UsersOf(c) \cup {p} ELSE UsersOf(c)
  BY <1>1, UsersAfterLoad
<1>3. \A c \in Commands : p \notin UsersOf(c)
  BY DEF UsersOf
<1>4. DOMAIN wraps' = DOMAIN wraps \cup HandledBy[p]
  BY <1>1 DEF Counted
<1>5. \A c \in DOMAIN wraps' : wraps'[c] = Cardinality(UsersOf(c)') /\ wraps'[c] \in Nat \ {0}
  <2> SUFFICES ASSUME NEW c \in DOMAIN wraps'
               PROVE  wraps'[c] = Cardinality(UsersOf(c)') /\ wraps'[c] \in Nat \ {0}
    OBVIOUS
  <2>1. c \in Commands
    BY <1>0, <1>4 DEF RegistryTypeOK
  <2>2. /\ IsFiniteSet(UsersOf(c)) /\ Cardinality(UsersOf(c)) \in Nat
        /\ Cardinality(UsersOf(c)) = 0 <=> UsersOf(c) = {}
    BY <2>1, UsersCounted
  <2>3. Cardinality(UsersOf(c) \cup {p}) = Cardinality(UsersOf(c)) + 1
    BY <1>3, <2>1, <2>2, FS_AddElement
  <2>4. wraps'[c] = (IF c \in DOMAIN wraps THEN wraps[c] ELSE 0)
                      + (IF c \in HandledBy[p] THEN 1 ELSE 0)
    BY <1>1, <1>4 DEF Counted
  <2>5. (IF c \in DOMAIN wraps THEN wraps[c] ELSE 0) = Cardinality(UsersOf(c))
    <3>1. CASE c \in DOMAIN wraps
      BY <3>1 DEF WrapsAreUsers
    <3>2. CASE c \notin DOMAIN wraps
      <4>1. UsersOf(c) = {}
        BY <2>1, <3>2 DEF WrapsAreUsers
      <4> QED
        BY <2>2, <3>2, <4>1
    <3> QED
      BY <3>1, <3>2
  <2>6. CASE c \in HandledBy[p]
    <3>1. UsersOf(c)' = UsersOf(c) \cup {p}
      BY <1>2, <2>1, <2>6
    <3>2. wraps'[c] = Cardinality(UsersOf(c)) + 1
      BY <2>4, <2>5, <2>6
    <3> QED
      BY <2>2, <2>3, <3>1, <3>2
  <2>7. CASE c \notin HandledBy[p]
    <3>1. c \in DOMAIN wraps
      BY <1>4, <2>7
    <3>2. UsersOf(c) # {}
      BY <2>1, <3>1 DEF WrapsAreUsers
    <3> QED
      BY <1>2, <2>1, <2>2, <2>4, <2>5, <2>7, <3>1, <3>2
  <2> QED
    BY <2>6, <2>7
<1>6. DOMAIN wraps' = {c \in Commands : UsersOf(c)' # {}}
  BY <1>0, <1>2, <1>4 DEF WrapsAreUsers
<1>7. WrapsAreUsers'
  BY <1>5, <1>6 DEF WrapsAreUsers
<1>8. DOMAIN methods' = DOMAIN methods \cup HandledBy[p]
  BY <1>1 DEF Wrapped
<1>9. \A c \in DOMAIN methods' :
        methods'[c] = IF c \in DOMAIN methods THEN methods[c] ELSE "wrapper"
  BY <1>1, <1>8 DEF Wrapped
<1>10. WrappedIfHandled'
  BY <1>2, <1>8, <1>9 DEF WrappedIfHandled
<1>11. ShapeInv'
  <2>1. wraps' = [c \in DOMAIN wraps' |-> wraps'[c]]
    BY <1>1 DEF Counted
  <2>2. methods' = [c \in DOMAIN methods' |-> methods'[c]]
    BY <1>1 DEF Wrapped
  <2>3. handlers' = [q \in DOMAIN handlers' |-> HandledBy[q]]
    BY <1>1 DEF Added
  <2> QED
    BY <2>1, <2>2, <2>3 DEF ShapeInv
<1>12. RegistryTypeOK'
  <2>1. DOMAIN handlers' \subseteq Plugins
        /\ \A q \in DOMAIN handlers' : handlers'[q] = HandledBy[q]
    BY <1>1 DEF Added, RegistryTypeOK
  <2>2. DOMAIN methods' \subseteq Commands
        /\ \A c \in DOMAIN methods' : methods'[c] \in {"native", "wrapper"}
    BY <1>0, <1>8, <1>9 DEF RegistryTypeOK
  <2>3. DOMAIN wraps' \subseteq Commands
    BY <1>0, <1>4 DEF RegistryTypeOK
  <2> QED
    BY <1>1, <1>5, <2>1, <2>2, <2>3 DEF RegistryTypeOK
<1> QED
  BY <1>7, <1>10, <1>11, <1>12

-----------------------------------------------------------------------------
(* A plugin that is unloaded is a user no more; the commands it was the    *)
(* only user of are those whose count comes to zero.                       *)
LEMMA UsersAfterUnload ==
  ASSUME RegistryInv, NEW p \in DOMAIN handlers, handlers' = Removed(p),
         NEW c \in Commands
  PROVE  UsersOf(c)' = UsersOf(c) \ {p}
<1>1. DOMAIN handlers' = DOMAIN handlers \ {p}
  BY DEF Removed, Restrict
<1>2. \A q \in DOMAIN handlers' : handlers'[q] = handlers[q]
  BY DEF Removed, Restrict
<1> QED
  BY <1>1, <1>2 DEF UsersOf

LEMMA UnwrapsAll ==
  ASSUME RegistryInv, NEW p \in DOMAIN handlers
  PROVE  /\ handlers[p] = HandledBy[p] /\ HandledBy[p] \subseteq Commands
         /\ handlers[p] \cap DOMAIN methods = HandledBy[p]
<1>1. handlers[p] = HandledBy[p] /\ p \in Plugins
  BY DEF RegistryInv, RegistryTypeOK
<1>2. HandledBy[p] \subseteq Commands
  BY <1>1, RegistryAssumption
<1>3. \A c \in HandledBy[p] : p \in UsersOf(c)
  BY <1>1 DEF UsersOf
<1>4. \A c \in HandledBy[p] : c \in DOMAIN methods
  BY <1>2, <1>3 DEF RegistryInv, WrappedIfHandled
<1> QED
  BY <1>1, <1>2, <1>4

LEMMA LastUseIsSole ==
  ASSUME RegistryInv, NEW p \in DOMAIN handlers
  PROVE  LastUse(HandledBy[p]) = {c \in HandledBy[p] : UsersOf(c) = {p}}
<1> SUFFICES ASSUME NEW c \in HandledBy[p]
             PROVE  ~InUse(wraps[c]) <=> UsersOf(c) = {p}
  BY DEF LastUse
<1>1. c \in Commands /\ p \in UsersOf(c)
  BY UnwrapsAll DEF UsersOf
<1>2. /\ Cardinality(UsersOf(c)) \in Nat
      /\ Cardinality(UsersOf(c)) = 0 <=> UsersOf(c) = {}
      /\ Cardinality(UsersOf(c)) = 1 <=> UsersOf(c) = {p}
  BY <1>1, UsersCounted
<1>3. wraps[c] = Cardinality(UsersOf(c))
  BY <1>1 DEF RegistryInv, WrapsAreUsers
<1> QED
  BY <1>1, <1>2, <1>3 DEF InUse

LEMMA UnloadKeepsInv ==
  ASSUME RegistryInv, NEW p \in Plugins, UnloadPlugin(p)
  PROVE  RegistryInv'
<1> USE DEF RegistryInv
<1> DEFINE Sole == {c \in HandledBy[p] : UsersOf(c) = {p}}
<1>1. p \in DOMAIN handlers /\ handlers' = Removed(p) /\ UNCHANGED <<base, listed, isSet>>
  BY DEF UnloadPlugin
<1>2. /\ handlers[p] \cap DOMAIN methods = HandledBy[p]
      /\ HandledBy[p] \subseteq Commands /\ handlers[p] = HandledBy[p]
  BY <1>1, UnwrapsAll
<1>3. LastUse(HandledBy[p]) = Sole
  BY <1>1, LastUseIsSole
<1>4. /\ wraps' = Discounted(HandledBy[p])
      /\ methods' = Restrict(methods, DOMAIN methods \ Sole)
  BY <1>2, <1>3 DEF UnloadPlugin, RemoveHandlers
<1>5. \A c \in Commands : UsersOf(c)' = UsersOf(c) \ {p}
  BY <1>1, UsersAfterUnload
<1>6. \A c \in Commands : p \in UsersOf(c) <=> c \in HandledBy[p]
  BY <1>1, <1>2 DEF UsersOf
<1>7. DOMAIN wraps' = DOMAIN wraps \ Sole
  BY <1>3, <1>4 DEF Discounted
<1>8. \A c \in DOMAIN wraps' :
        wraps'[c] = Cardinality(UsersOf(c)') /\ wraps'[c] \in Nat \ {0} /\ UsersOf(c)' # {}
  <2> SUFFICES ASSUME NEW c \in DOMAIN wraps'
               PROVE  /\ wraps'[c] = Cardinality(UsersOf(c)')
                      /\ wraps'[c] \in Nat \ {0} /\ UsersOf(c)' # {}
    OBVIOUS
  <2>1. c \in Commands /\ c \in DOMAIN wraps /\ c \notin Sole
    BY <1>7 DEF RegistryTypeOK
  <2>2. wraps'[c] = IF c \in HandledBy[p] THEN wraps[c] - 1 ELSE wraps[c]
    BY <1>3, <1>4, <1>7 DEF Discounted
  <2>3. wraps[c] = Cardinality(UsersOf(c)) /\ wraps[c] \in Nat \ {0} /\ UsersOf(c) # {}
    BY <2>1 DEF WrapsAreUsers, RegistryTypeOK
  <2>4. IsFiniteSet(UsersOf(c)) /\ IsFiniteSet(UsersOf(c) \ {p})
        /\ Cardinality(UsersOf(c) \ {p}) =
             IF p \in UsersOf(c) THEN Cardinality(UsersOf(c)) - 1 ELSE Cardinality(UsersOf(c))
    BY <2>1, UsersCounted, FS_RemoveElement
  <2>5. wraps'[c] = Cardinality(UsersOf(c) \ {p})
    BY <1>6, <2>1, <2>2, <2>3, <2>4
  <2>6. UsersOf(c) \ {p} # {}
    BY <1>6, <2>1, <2>3
  <2>7. Cardinality(UsersOf(c) \ {p}) \in Nat \ {0}
    BY <2>4, <2>6, FS_EmptySet, FS_CardinalityType
  <2> QED
    BY <1>5, <2>1, <2>5, <2>6, <2>7
<1>9. \A c \in Commands : UsersOf(c)' # {} => c \in DOMAIN wraps /\ c \notin Sole
  BY <1>5 DEF WrapsAreUsers
<1>10. WrapsAreUsers'
  <2>1. DOMAIN wraps' \subseteq Commands
    BY <1>7 DEF RegistryTypeOK
  <2> QED
    BY <1>7, <1>8, <1>9, <2>1 DEF WrapsAreUsers
<1>11. /\ DOMAIN methods' = DOMAIN methods \ Sole
       /\ \A c \in DOMAIN methods' : methods'[c] = methods[c]
  BY <1>4 DEF Restrict
<1>12. WrappedIfHandled'
  <2> SUFFICES ASSUME NEW c \in Commands
               PROVE  /\ UsersOf(c)' # {} => c \in DOMAIN methods'
                      /\ c \in DOMAIN methods' /\ methods'[c] = "wrapper" => UsersOf(c)' # {}
    BY DEF WrappedIfHandled
  <2>1. ASSUME UsersOf(c)' # {} PROVE c \in DOMAIN methods'
    BY <1>5, <1>9, <1>11, <2>1 DEF WrappedIfHandled
  <2>2. ASSUME c \in DOMAIN methods', methods'[c] = "wrapper" PROVE UsersOf(c)' # {}
    <3>1. UsersOf(c) # {} /\ c \notin Sole
      BY <1>11, <2>2 DEF WrappedIfHandled
    <3> QED
      BY <1>5, <1>6, <3>1
  <2> QED
    BY <2>1, <2>2
<1>13. ShapeInv'
  <2>1. wraps' = [c \in DOMAIN wraps' |-> wraps'[c]]
    BY <1>4 DEF Discounted
  <2>2. methods' = [c \in DOMAIN methods' |-> methods'[c]]
    BY <1>4 DEF Restrict
  <2>3. handlers' = [q \in DOMAIN handlers' |-> HandledBy[q]]
    BY <1>1 DEF Removed, Restrict, RegistryTypeOK
  <2> QED
    BY <2>1, <2>2, <2>3 DEF ShapeInv
<1>14. RegistryTypeOK'
  <2>1. DOMAIN handlers' \subseteq Plugins
        /\ \A q \in DOMAIN handlers' : handlers'[q] = HandledBy[q]
    BY <1>1 DEF Removed, Restrict, RegistryTypeOK
  <2>2. DOMAIN methods' \subseteq Commands
        /\ \A c \in DOMAIN methods' : methods'[c] \in {"native", "wrapper"}
    BY <1>11 DEF RegistryTypeOK
  <2>3. DOMAIN wraps' \subseteq Commands /\ \A c \in DOMAIN wraps' : wraps'[c] \in Nat \ {0}
    BY <1>7, <1>8 DEF RegistryTypeOK
  <2> QED
    BY <1>1, <2>1, <2>2, <2>3 DEF RegistryTypeOK
<1> QED
  BY <1>10, <1>12, <1>13, <1>14

(* The base handler is destroyed with everything in it.                    *)
LEMMA TerminateKeepsInv ==
  ASSUME RegistryInv, TerminateSql
  PROVE  RegistryInv'
<1> USE DEF RegistryInv
<1>1. /\ base' = "freed" /\ listed' = FALSE /\ isSet' = isSet
      /\ methods' = Empty /\ wraps' = Empty /\ handlers' = Empty
  BY DEF TerminateSql, DestroyHandler
<1>2. DOMAIN methods' = {} /\ DOMAIN wraps' = {} /\ DOMAIN handlers' = {}
  BY <1>1 DEF Empty
<1>3. \A c : UsersOf(c)' = {}
  BY <1>2 DEF UsersOf
<1>4. WrapsAreUsers' /\ WrappedIfHandled'
  BY <1>2, <1>3 DEF WrapsAreUsers, WrappedIfHandled
<1>5. ShapeInv'
  BY <1>1, <1>2 DEF Empty, ShapeInv
<1>6. RegistryTypeOK'
  BY <1>1, <1>2 DEF RegistryTypeOK
<1> QED
  BY <1>4, <1>5, <1>6

-----------------------------------------------------------------------------
LEMMA RegistryStep ==
  ASSUME ~Twice, RegistryInv, [Next]_vars
  PROVE  RegistryInv'
<1>1. CASE InitializeSql
  BY <1>1, TablesUnchanged DEF InitializeSql, RegistryInv, RegistryTypeOK
<1>2. CASE EditConfig
  BY <1>2, TablesUnchanged DEF EditConfig, RegistryInv, RegistryTypeOK
<1>3. CASE TerminateSql
  BY <1>3, TerminateKeepsInv
<1>4. ASSUME NEW p \in Plugins, LoadPlugin(p) PROVE RegistryInv'
  <2>1. p \notin DOMAIN handlers
    BY <1>4 DEF LoadPlugin
  <2>2. CASE FindsTheList
    BY <1>4, <2>1, <2>2, LoadKeepsInv
  <2>3. CASE ~FindsTheList
    <3>1. UNCHANGED <<methods, wraps, handlers, base, listed>> /\ isSet' = TRUE
      BY <1>4, <2>3 DEF LoadPlugin
    <3> QED
      BY <3>1, TablesUnchanged DEF RegistryInv, RegistryTypeOK
  <2> QED
    BY <2>2, <2>3
<1>5. ASSUME NEW p \in Plugins, UnloadPlugin(p) PROVE RegistryInv'
  BY <1>5, UnloadKeepsInv
<1>6. CASE UNCHANGED vars
  BY <1>6, TablesUnchanged DEF vars, RegistryInv, RegistryTypeOK
<1> QED
  BY <1>1, <1>2, <1>3, <1>4, <1>5, <1>6 DEF Next

(* The inductive invariant: if no plugin's module is named twice, the wrap *)
(* counts are the users, and methods and users agree, after any sequence   *)
(* of loads and unloads.                                                   *)
THEOREM RegistryInvariant == ASSUME ~Twice PROVE Spec => []RegistryInv
<1>1. RegistryInv /\ [Next]_vars => RegistryInv'
  BY RegistryStep
<1> QED
  BY RegistryInit, <1>1, PTL DEF Spec

(* The wrap count of a command is the number of loaded plugins that handle *)
(* it (SQLRequestHandler::update_wrap_count).                              *)
THEOREM WrapsCounted == ASSUME ~Twice PROVE Spec => []WrapsAreUsers
<1>1. RegistryInv => WrapsAreUsers
  BY DEF RegistryInv
<1> QED
  BY RegistryInvariant, <1>1, PTL

(* A command has a method while a loaded plugin handles it, and a wrapper  *)
(* no longer than that (add_sql_wrapper, remove_sql_wrapper).              *)
THEOREM MethodsFollowUsers == ASSUME ~Twice PROVE Spec => []WrappedIfHandled
<1>1. RegistryInv => WrappedIfHandled
  BY DEF RegistryInv
<1> QED
  BY RegistryInvariant, <1>1, PTL

(* The base handler's own methods go with the last plugin that handles     *)
(* their command and with nothing else (remove_sql_wrapper).               *)
THEOREM NativeGoesLast == ASSUME ~Twice PROVE Spec => NativeUntilLastLeaves
<1> DEFINE Kept(c) ==
      c \in DOMAIN methods /\ methods[c] = "native" =>
        \/ c \in DOMAIN methods' /\ methods'[c] = "native"
        \/ UsersOf(c) # {} /\ UsersOf(c)' = {}
        \/ base' = "freed"
<1>1. ASSUME RegistryInv, Next, NEW c \in Native PROVE Kept(c)
  <2>0. c \in Commands
    BY RegistryAssumption
  <2>1. CASE methods' = methods
    BY <2>1
  <2>2. CASE TerminateSql
    BY <2>2 DEF TerminateSql, DestroyHandler
  <2>3. ASSUME NEW p \in Plugins, LoadPlugin(p) PROVE Kept(c)
    BY <2>3 DEF LoadPlugin, Wrapped
  <2>4. ASSUME NEW p \in Plugins, UnloadPlugin(p) PROVE Kept(c)
    <3>1. p \in DOMAIN handlers /\ handlers' = Removed(p)
      BY <2>4 DEF UnloadPlugin
    <3>2. handlers[p] \cap DOMAIN methods = HandledBy[p]
      BY <1>1, <3>1, UnwrapsAll
    <3>3. LastUse(HandledBy[p]) = {d \in HandledBy[p] : UsersOf(d) = {p}}
      BY <1>1, <3>1, LastUseIsSole
    <3>4. methods' = Restrict(methods, DOMAIN methods \ LastUse(HandledBy[p]))
      BY <2>4, <3>2 DEF UnloadPlugin, RemoveHandlers
    <3>5. UsersOf(c)' = UsersOf(c) \ {p}
      BY <1>1, <2>0, <3>1, UsersAfterUnload
    <3> QED
      BY <3>3, <3>4, <3>5 DEF Restrict
  <2> QED
    BY <1>1, <2>1, <2>2, <2>3, <2>4 DEF Next, InitializeSql, EditConfig
<1>2. RegistryInv /\ [Next]_vars => [\A c \in Native : Kept(c)]_vars
  BY <1>1
<1> QED
  BY RegistryInvariant, <1>2, PTL DEF Spec, NativeUntilLastLeaves
=============================================================================
