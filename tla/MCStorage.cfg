SPECIFICATION MCSpec
CONSTANTS
  Writers = {t1, t2}
  Threads = {t1, t2}
  Clients = {t1, t2}
  Ids = {0, 1}
  MaxId = 2
  Ranges = {1, 2}
  Tables = {table1}
  BatchSize = 2
  MaxTop = 3
  MaxFail = 1
  MaxOpenFail = 1
  MaxRestart = 1
  Servers = {s1, s2, s3}
  MaxOps = 2
INVARIANTS HandedIsDurable WriteAhead UniqueRows DeletesStick InsertsStick OnlyNamedRowsGo
PROPERTY Implements2P
SYMMETRY Symmetry
CHECK_DEADLOCK FALSE
