\* A leaked cycle can use up every reference, and then nothing is left to do.
SPECIFICATION MCSpec
CONSTANTS
  q1 = q1
  q2 = q2
  Readers = {q1, q2}
  Ops <- AllOps
  Births <- MCBirths
  Chars = 2
  t1 = t1
  t2 = t2
  t3 = t3
  Threads = {t1, t2, t3}
  Views = {"int", "string"}
  Payloads <- MCPayloads
  Undef = "Undef"
  Coerce <- MCCoerce
  Warns <- MCWarns
  Face <- MCFace
  Nothing = Nothing
  Owners = {t1, t2}
  n1 = n1
  n2 = n2
  n3 = n3
  r1 = r1
  r2 = r2
  r3 = r3
  Nodes = {n1, n2, n3}
  Refs = {r1, r2, r3}
  None = None
INVARIANTS
  SlotTrue
  AnswersTrue
  CertificationKept
  AnswersOfCell
  WarnedOnce
  CountsExact
  OnePlace
  StackBounded
PROPERTIES
  ReadsFinish
  ReadonlyKept
  TeardownEnds
CHECK_DEADLOCK FALSE
