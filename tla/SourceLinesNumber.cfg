SPECIFICATION SourceSpec
CONSTANTS
  Texts <- MCTexts
  Width = 5
  None = None
INVARIANTS
  NumberInSource
CHECK_DEADLOCK FALSE
