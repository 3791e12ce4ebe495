SPECIFICATION Spec
CONSTANTS
  r1 = r1
  r2 = r2
  Readers = {r1, r2}
  Ops <- AsStrAndProbe
  Births <- MCBirths
  Chars = 2
INVARIANTS
  AsStrIsFact
