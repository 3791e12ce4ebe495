SPECIFICATION MCSpec
CONSTANTS
  Alphabets = {}
  MaxTokens = 1
  Packages = {"main", "P"}
  SubNames = {"f", "fc"}
  Minors = {13, 37}
  FeatureArgs <- MCFeatureArgs
  MaxStatements = 3
  MaxDepth = 1
  MaxProto = 0
  Texts <- MCTexts
  Width = 5
  None = None
INVARIANTS
  NothingLeaks
CHECK_DEADLOCK FALSE
