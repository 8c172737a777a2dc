SPECIFICATION MCSpec
CONSTANTS
  Requests = {r1}
  Notes = {n1, n2}
  Lines = {x, y}
  Few = {x, y}
  None = None
  MaxWriteEvents = 3
  MaxNote = 2
  MaxAdded = 2
  MaxWatched = 3
  MaxWrites = 3
SYMMETRY Symmetry
INVARIANT BaselineIsSilent
