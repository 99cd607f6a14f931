-------------------------- MODULE MCContentListing --------------------------
(***************************************************************************)
(* A small instance of ContentListing for TLC: three questions, or three   *)
(* articles.  Two sections of the first sheet have the same priority.  The *)
(* rows differ in what sorts, filters and summary look at, and some tie in *)
(* all of it.                                                              *)
(***************************************************************************)
EXTENDS ContentListing

MCSubsections ==
  LET Node(sheet, section, name) ==
        [sheet |-> sheet, section |-> section, sectionName |-> section, name |-> name]
  IN <<Node(1, 1, 1), Node(1, 2, 1), Node(1, 1, 2), Node(2, 3, 1)>>

MCPriorities ==
  {[sheet |-> <<2, 1>>, section |-> <<1, 1, 1>>, subsection |-> <<1, 1, 2, 1>>]}

Question(sub, grade, frequency, status, date, title, text) ==
  [sub |-> sub, grade |-> grade, frequency |-> frequency, status |-> status, date |-> date,
   title |-> title, texts |-> [answer |-> text]]

MCQuestionRows ==
  {Question(1, 1, 1, "published", 3, 1, "text"),
   Question(2, Null, Null, "draft", Null, 1, "text"),
   Question(3, 2, 2, "draft", 3, 2, "newline"),
   Question(4, 2, Null, "published", 4, 2, "spaces")}

Request(sort, filters, size) == [sort |-> sort, filters |-> filters, size |-> size]

MCWorkspaceRequests ==
  {Request("newest", NoFilter, 2),
   Request("missingFields", [NoFilter EXCEPT !.sheets = {1}], 2),
   Request("subsection", [NoFilter EXCEPT !.frequencies = {1, 2}], 2),
   Request("section", [NoFilter EXCEPT !.sections = {1}, !.missing = TRUE, !.search = {1, 2}], 1),
   Request("grade", [NoFilter EXCEPT !.statuses = {"draft"}, !.missing = FALSE], 1),
   Request("oldest", [NoFilter EXCEPT !.from = 1, !.to = 1, !.grades = {1, 2}], 1)}

Article(status, date, updated, title, tags) ==
  [status |-> status, date |-> date, updated |-> updated, title |-> title, rank |-> title,
   tags |-> tags]

MCArticleRows ==
  {Article("published", 3, 1, 1, {"tag"}), Article("published", 4, 2, 2, {}),
   Article("draft", Null, 2, 1, {"tag"}), Article("draft", 3, 2, 2, {})}

ArticleFilter ==
  [onlyPublished |-> FALSE, statuses |-> {}, tag |-> None, from |-> None, to |-> None,
   search |-> {}]

MCArticleRequests ==
  {[filters |-> f, size |-> 1] :
     f \in {ArticleFilter,
            [ArticleFilter EXCEPT !.onlyPublished = TRUE, !.from = 1],
            [ArticleFilter EXCEPT !.statuses = {"draft"}],
            [ArticleFilter EXCEPT !.tag = "tag", !.search = {1}, !.to = 2]}}
=============================================================================
