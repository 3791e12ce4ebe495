SPECIFICATION ObjectsSpec
CONSTANTS
  x = x
  y = y
  k1 = k1
  k2 = k2
  k3 = k3
  Engines = {"Perl", "Immutable"}
  Values = {x, y}
  Glue = {}
  Undef = Undef
  Hole = Hole
  Indices = {0, 1, 2, 3}
  Slack = 1
  Narrow = 3
  Failing = {"set", "push", "unshift"}
  MaxLen = 4
  HashEngines = {"Perl", "Ordered", "Immutable"}
  Keys = {k1, k2, k3}
  Free = Free
  Sizes = {2, 4, 6}
  InlineMax = 1
  DecodeMax = 2
  SmallMax = 3
  EagerFloor = 3
  MaxBytes = 5
  MaxCut = 1
  Packable = {48}
  Originals <- MCOriginals
  Strs <- MCStrs
  Raws <- MCRaws
SYMMETRY Symmetry
INVARIANTS
  WindowHolds
  EachVisitsAll
  KnowledgeTrue
  TransformsKeep
PROPERTIES
  KeepsContract
