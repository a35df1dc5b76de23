SPECIFICATION LogSpec
CONSTANTS
  Writers = {w1, w2}
  BatchSize = 2
  MaxTop = 4
INVARIANTS
  
  NothingSkipped
