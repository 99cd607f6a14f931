CONSTANTS
  t1 = t1
  t2 = t2
  i1 = i1
  i2 = i2
  q1 = q1
  q2 = q2
  x1 = x1
  x2 = x2
  x3 = x3
  s1 = s1
  r1 = r1
  None = None
  Fingerprint <- MCFingerprint
  Grades <- MCGrades
  Files <- MCFiles
  Content <- MCContent
  Tx = {t1, t2}
  Questions = {q1, q2}
  Items = {i1, i2}
  Resources = {r1}
  Texts = {x1, x2, x3}
  PublicSheet = s1
  StartText = x3
  Clients = {c1}
  Limit = 1
  Ops = {"suggest", "addQueued", "import", "convert", "reject", "create", "update", "delete", "publish", "unpublish"}
  LastDay = 1
  MaxRequests = 3
SPECIFICATION Spec
INVARIANTS OneDecision DuplicatesNeedOverlap QuotaHolds PublishedComplete DefaultSelectionClean
PROPERTIES FirstPublicationKept RestrictedUnseen
SYMMETRY Symmetry
CHECK_DEADLOCK FALSE
