SPECIFICATION MCSpec
CONSTANTS
  Alphabets <- MCAlphabets
  MaxTokens = 6
  Packages = {"main", "P"}
  SubNames = {"f", "fc"}
  Minors = {13, 37}
  FeatureArgs <- MCFeatureArgs
  MaxStatements = 4
  MaxDepth = 2
  MaxProto = 5
  Texts <- MCTexts
  Width = 5
  None = None
INVARIANTS
  TreeObeysTable
  ContextsAsWritten
  ScopesNest
  NamesAsDeclared
  LookupFollowsImports
  PrototypeAsWritten
  OneDelivery
  BoundKept
  PeekLeavesNoTrace
PROPERTIES
  LexingEnds
CHECK_DEADLOCK FALSE
