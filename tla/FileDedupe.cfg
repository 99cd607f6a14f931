CONSTANTS
  t1 = t1
  t2 = t2
  t3 = t3
  a1 = a1
  a2 = a2
  None = None
  Keys <- MCKeys
  Key <- MCKey
  Tx = {t1, t2}
  Articles = {a1}
  Files = {1, 3}
  Ops = {"upload", "prune"}
  BatchSize = 1
  Retention = 0
  MaxTime = 0
  MaxLatency = 1
SPECIFICATION Spec
PROPERTIES UploadsOnlyWithoutReusableFile
