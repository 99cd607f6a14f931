CONSTANTS
  t1 = t1
  t2 = t2
  s1 = s1
  c1 = c1
  c2 = c2
  u1 = u1
  u2 = u2
  u3 = u3
  i1 = i1
  i2 = i2
  None = None
  Tx = {t1, t2}
  Sheets = {s1}
  Sections = {c1, c2}
  Subsections = {u1, u2, u3}
  SheetOf <- MCSheetOf
  SectionOf <- MCSectionOf
  Items = {i1, i2}
  IdOrder <- MCIdOrder
  StartNodes <- MCStartNodes
  StartHome <- MCStartHome
  Ops = {"createNode", "deleteNode", "reorder", "createItem", "updateItem", "deleteItem"}
  MaxRequests = 3
SPECIFICATION FairSpec
INVARIANTS DeadlocksNeedOtherWrites TiesNeedRaces
PROPERTIES QuestionsKept RefinesForest RequestsEnd
