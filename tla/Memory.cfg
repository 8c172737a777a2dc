SPECIFICATION MCSpec
CONSTANTS
  Requests = {r1, r2}
  Notes = {n1, n2}
  Lines = {x, y, z}
  Few = {x, y}
  None = None
  MaxWriteEvents = 2
  MaxNote = 2
  MaxAdded = 1
  MaxWatched = 2
  MaxWrites = 3
SYMMETRY Symmetry
INVARIANTS
  RecordedCurrent
  AllAnnounced
  RestartForgetsNothing
  CreatedOnce
  BudgetKept
