SPECIFICATION Spec
CONSTANTS
  QuestionIds = {1, 2, 3}
  ArticleIds = {1, 2, 3}
  QuestionRows <- MCQuestionRows
  ArticleRows <- MCArticleRows
  TextFields = {"answer"}
  Slugs = {"tag", "other"}
  Subsections <- MCSubsections
  Priorities <- MCPriorities
  WorkspaceRequests <- MCWorkspaceRequests
  ArticleRequests <- MCArticleRequests
  MaxWrites = 1
  None = None
INVARIANTS
  WalkDrift
  SummaryMatchesPages
  GroupsWhole
  OptionsLead
CHECK_DEADLOCK FALSE
