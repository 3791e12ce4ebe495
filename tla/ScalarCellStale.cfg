SPECIFICATION CellSpec
CONSTANTS
  t1 = t1
  t2 = t2
  Threads = {t1, t2}
  Views = {"int", "string"}
  Payloads <- MCPayloads
  Undef = "Undef"
  Coerce <- MCCoerce
  Warns <- MCWarns
  Face <- MCFace
  Nothing = Nothing
INVARIANTS
  AnswersDerived
