CONSTANTS
  t1 = t1
  t2 = t2
  a1 = a1
  None = None
  Tx = {t1, t2}
  Articles = {a1}
  Files = {1, 2}
  Keys <- MCKeys
  Key <- MCKey
  Ops = {"upload", "create", "update", "prune"}
  BatchSize = 1
  Retention = 2
  MaxTime = 3
  MaxLatency = 1
SPECIFICATION GraceSpec
PROPERTY GraceKept
SYMMETRY Symmetry
