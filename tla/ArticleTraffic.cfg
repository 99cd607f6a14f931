CONSTANTS
  t1 = t1
  t2 = t2
  a1 = a1
  a2 = a2
  f1 = f1
  f2 = f2
  f3 = f3
  g1 = g1
  p1 = p1
  m1 = m1
  None = None
  Tx = {t1, t2}
  Articles = {a1, a2}
  Folders = {f1, f2, f3}
  Tags = {g1}
  IdOrder <- MCIdOrder
  Writings <- MCWritings
  StartArticles <- MCStartArticles
  StartFolders = {f1, f2}
  StartTags = {g1}
  Ops = {"create", "update", "delete", "publish", "unpublish", "createFolder", "deleteFolder", "reorderFolders", "createTag", "updateTag", "deleteTag", "react", "view", "visit"}
  MaxRequests = 3
  Voters = {v1}
  Kinds = {"heart", "fire"}
  Targets = {p1, m1}
  Sites = {p1}
  Tokens = {k1}
  Visitors = {w1}
  Sources = {"Direct", "Search"}
  Retention = 1
  LastDay = 2
SPECIFICATION Spec
INVARIANTS FolderTiesNeedRaces PublicTreeComplete ReactionsCounted VisitsCountedOnce EngagedWithinViews
PROPERTIES DateMovesOnlyByStalePublish RestrictedUnseen
SYMMETRY Symmetry
CHECK_DEADLOCK FALSE
