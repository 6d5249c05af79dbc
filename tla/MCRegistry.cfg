SPECIFICATION Spec
CONSTANTS
  odbc = odbc
  sqlite = sqlite
  own = own
  das = das
  data = data
  vers = vers
  help = help
  Plugins <- MCPlugins
  Commands <- MCCommands
  Native <- MCNative
  HandledBy <- MCHandledBy
  Settings <- MCSettings
  Twice = FALSE
  Reload = TRUE
INVARIANTS WrapsAreUsers WrappedIfHandled
PROPERTIES NativeUntilLastLeaves
