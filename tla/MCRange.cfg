CONSTANTS
  Keys <- MCKeys
  KeySize <- MCKeySize
  Values <- MCValues
  ValueSize <- MCValueSize
  PageSpace = 236
  MergeThreshold = 159
  PreferWaf = FALSE
  NCursors = 2
  Puts <- MCPuts
  CursorPuts <- MCPuts
  Replaces = {}
  Gets <- MCGets
  Commits = FALSE
  Scrolls <- MCScrolls
  Loaded <- MCLoaded
  Ranges <- MCRanges
  Bunches <- MCBunches
SPECIFICATION RangeSpec
INVARIANTS TreeSound Measured
PROPERTY ImplementsMap
VIEW CallView
CHECK_DEADLOCK FALSE
CONSTRAINT Wide
