SPECIFICATION MCSpec
CONSTANTS
  x = x
  y = y
  k1 = k1
  Engines = {"Perl"}
  Values = {x, y}
  Glue = {x, y}
  Undef = Undef
  Hole = Hole
  Indices = {0, 1, 2, 3}
  Slack = 1
  Narrow = 3
  Failing = {}
  MaxLen = 4
  HashEngines = {"Perl"}
  Keys = {k1}
  Free = Free
  Sizes = {4}
INVARIANTS
  ValuesAlive
