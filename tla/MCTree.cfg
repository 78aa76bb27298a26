CONSTANTS
  Keys <- MCKeys
  KeySize <- MCKeySize
  Values <- MCValues
  ValueSize <- MCValueSize
  PageSpace = 236
  MergeThreshold = 159
  PreferWaf = FALSE
  NCursors = 1
  Puts <- MCPuts
  CursorPuts <- MCCursorPuts
  Replaces <- MCReplaces
  Gets <- MCGets
  Commits = TRUE
SPECIFICATION Spec
INVARIANT TreeSound
PROPERTY ImplementsMap
VIEW CallView
CHECK_DEADLOCK FALSE
