SPECIFICATION Spec
CONSTANTS
  Reqs = {r1, r2, r3}
  Keys = {k1, k2}
  Entries = {bread, basil}
  MaxLen = 2
  MaxFail = 1
  None = None
SYMMETRY Interchangeable
INVARIANT BatchIsWhole
INVARIANT AnswersAgree
INVARIANT ConflictIsReplayed
CHECK_DEADLOCK FALSE
