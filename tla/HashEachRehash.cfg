SPECIFICATION HashSpec
CONSTANTS
  k1 = k1
  k2 = k2
  k3 = k3
  HashEngines = {"Perl"}
  Keys = {k1, k2, k3}
  Free = Free
  Sizes = {4, 8}
INVARIANTS
  UpdatesKeepWalk
