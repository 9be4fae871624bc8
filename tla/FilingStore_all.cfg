SPECIFICATION Spec
CONSTANTS
  None = None
  Periods = {p1}
  Docs = {A, B}
  TicksPerDay = 2
  MaxTime = 4
  MaxCorrections = 2
  MaxVersion = 2
  MaxLosses = 1
SYMMETRY Symmetry
INVARIANTS TypeOK AnswerIsSound OnlyKnownMisses
PROPERTIES NoHindsight
