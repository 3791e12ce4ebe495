SPECIFICATION MCSpec
CONSTANTS
  Pieces <- MCPieces
  MaxPieces = 3
  Short = 2
  Block = 4
  Alphabet = {" ", "-", "+", "0", "4", "9", ".", "e", "inf", "inity", "nan", "x", " but true"}
  MaxWord = 4
  IMax = 48
  FMax = 940
  MaxFinite = 3
  Precision = 2
  MinExp = 2
  IntCache = 2
  FloatCache = 1
  ExpCache = 2
  Slots = {s1, s2, s3}
  NoSlot = NoSlot
  Cells = {1, 2}
  Births <- MCBirths
  PairContents <- MCContents
  Line = 2
  Gate = 4
  Chunk = 2
SYMMETRY Symmetry
INVARIANTS
  ClassifiesRight
  RewritesRight
  WarnsAsGrammar
  ReadsOneInteger
  RendersBack
  FacesAgree
  OneIdentity
  VerdictsAgree
PROPERTIES
  FacesKept
CHECK_DEADLOCK FALSE
