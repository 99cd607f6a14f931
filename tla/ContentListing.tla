--------------------------- MODULE ContentListing ---------------------------
(***************************************************************************)
(* The admin workspace of matrix questions and the list of articles: a     *)
(* client walks through the pages of one filtered and sorted list while    *)
(* others write.  Each page is a request of several statements (the page,  *)
(* the count, the summary), each of which sees what is committed when it   *)
(* runs.  Rows that tie in ORDER BY come in any order, and in another one  *)
(* for the next page.                                                      *)
(*                                                                         *)
(* One commit may change one row or many: it deletes a subtree with its    *)
(* questions, reorders siblings, by which all questions below them sort,   *)
(* or takes a tag off every article.                                       *)
(*                                                                         *)
(* The grouped list of questions and the filter options are views of the   *)
(* same table.  Ids, priorities, grades, titles and moments are numbers:   *)
(* only their order matters; NULL is 0.                                    *)
(***************************************************************************)
EXTENDS Integers, FiniteSets, Sequences, SequencesExt

CONSTANTS QuestionIds, ArticleIds,     \* ids, as ORDER BY compares them
          QuestionRows, ArticleRows,   \* rows that requests write
          TextFields,     \* the texts of a question
          Slugs,          \* of tags
          Subsections,    \* with their section and sheet: those there are or will be
          Priorities,     \* of the structure before the walk
          WorkspaceRequests, ArticleRequests,   \* sort, filters and page size
          MaxWrites,      \* bound: no more commits once so many rows are written
          None

Sorts == {"grade", "interviewFrequency", "section", "subsection", "newest", "oldest",
          "missingFields", "dangerousPublished"}

(* A subsection's node of each level of the structure *)
Levels == {"sheet", "section", "subsection"}
Above(u) == [sheet |-> Subsections[u].sheet, section |-> Subsections[u].section, subsection |-> u]
Nodes == [level \in Levels |-> {Above(u)[level] : u \in DOMAIN Subsections}]
PriorityColumns ==
  [sheet : [Nodes.sheet -> Int], section : [Nodes.section -> Int],
   subsection : [Nodes.subsection -> Int]]

Statuses == {"draft", "published"}

Questions ==
  [sub : DOMAIN Subsections, grade : Nat, frequency : Nat, status : Statuses, date : Nat,
   title : Nat, texts : [TextFields -> {"text", "spaces", "newline"}]]

Articles ==
  [status : Statuses, date : Nat, updated : Nat, title : Nat, rank : Nat, tags : SUBSET Slugs]

(* The columns' types; section and subsection names are unique below their
   parent. *)
ASSUME ListingAssumptions ==
  /\ MaxWrites \in Nat /\ IsFiniteSet(TextFields)
  /\ IsFiniteSet(QuestionIds) /\ IsFiniteSet(ArticleIds) /\ QuestionIds \cup ArticleIds \subseteq Int
  /\ \A u \in DOMAIN Subsections : {u, Subsections[u].sheet, Subsections[u].section} \subseteq Int
  /\ \A u, v \in DOMAIN Subsections : LET x == Subsections[u]  y == Subsections[v] IN
       /\ x.section = y.section => x.sheet = y.sheet /\ x.sectionName = y.sectionName
       /\ x.sheet = y.sheet /\ x.sectionName = y.sectionName => x.section = y.section
       /\ x.section = y.section /\ x.name = y.name => u = v
  /\ Priorities \subseteq PriorityColumns
  /\ QuestionRows \subseteq Questions /\ ArticleRows \subseteq Articles
  /\ \A r \in WorkspaceRequests : r.sort \in Sorts /\ r.size \in Nat \ {0}
  /\ \A r \in ArticleRequests : r.size \in Nat \ {0}

VARIABLES
  kind,      \* the list that is walked
  items,     \* items[i]: the committed question or article, or None
  priority,  \* of the nodes of each level
  walk,      \* the client's walk
  answer,    \* the response that is being put together
  touched,   \* history: rows written during the walk, see Changed
  written,   \* history: how many, each as often as it was written
  tied       \* history: rows that tied when a page was read

vars == <<kind, items, priority, walk, answer, touched, written, tied>>

(* A subsection joined with its section and sheet *)
Place(p, u) ==
  LET x == Subsections[u] IN
  [sheetPriority |-> p.sheet[x.sheet], sheet |-> x.sheet,
   sectionPriority |-> p.section[x.section], section |-> x.section,
   sectionName |-> x.sectionName,
   priority |-> p.subsection[u], id |-> u, name |-> x.name]

Joined(p, q) == [q EXCEPT !.sub = Place(p, q.sub)]

(* The rows that statements select from *)
table ==
  IF kind = "workspace"
  THEN [i \in DOMAIN items |-> IF items[i] = None THEN None ELSE Joined(priority, items[i])]
  ELSE items

Present(t) == {i \in DOMAIN t : t[i] # None}
Null == 0
AfterAll == 1000000    \* NULLS LAST

-----------------------------------------------------------------------------
(* Questions.  A text is "text", made of "spaces" (or empty), or of other
   white "newline". *)

(* missing_publication_fields: str.strip removes all white space. *)
MissingFields(q) ==
  {f \in DOMAIN q.texts : q.texts[f] # "text"}
    \cup (IF q.grade = Null THEN {"grade"} ELSE {})

(* _workspace_missing_field_conditions: trim removes spaces only. *)
MissingInSql(q) ==
  {f \in DOMAIN q.texts : q.texts[f] = "spaces"}
    \cup (IF q.grade = Null THEN {"grade"} ELSE {})

Published(row) == row.status = "published"

(* A list of accepted values that is empty accepts all. *)
Among(value, accepted) == accepted = {} \/ value \in accepted

(* _workspace_dimension_filter_conditions *)
InDimensions(q, f) ==
  /\ Among(q.sub.sheet, f.sheets) /\ Among(q.sub.section, f.sections)
  /\ Among(q.sub.id, f.subsections)
  /\ Among(q.grade, f.grades) /\ Among(q.frequency, f.frequencies)
  /\ Among(q.status, f.statuses)

(* published_at is a moment, two to a day: _date_start and _date_end *)
InDates(row, f) ==
  /\ f.from = None \/ (row.date # Null /\ row.date >= 2 * f.from)
  /\ f.to = None \/ (row.date # Null /\ row.date <= 2 * f.to + 1)

(* _workspace_state_filter_conditions *)
InState(q, f) ==
  /\ InDates(q, f)
  /\ Among(q.title, f.search)
  /\ f.missing = None \/ f.missing = (MissingInSql(q) # {})

QuestionMatches(q, f) == InDimensions(q, f) /\ InState(q, f)

StructureKey(q) ==
  LET u == q.sub IN
  <<u.sheetPriority, u.sheet, u.sectionPriority, u.section, u.priority, u.id>>

NullsLast(value) == IF value = Null THEN AfterAll ELSE value
Newest(date) == IF date = Null THEN AfterAll ELSE -date

(* Deviation: the newest first, without the id *)
WorkspaceKeyNoId(i, q, sort) == <<Newest(q.date)>>

(* _workspace_ordering *)
WorkspaceKey(i, q, sort) ==
  LET u == q.sub IN
  CASE sort = "grade" -> <<NullsLast(q.grade)>> \o StructureKey(q) \o <<q.title, i>>
    [] sort = "interviewFrequency" ->
         <<NullsLast(q.frequency)>> \o StructureKey(q) \o <<q.title, i>>
    [] sort = "section" -> StructureKey(q) \o <<NullsLast(q.grade), i>>
    [] sort = "subsection" ->
         <<u.sheetPriority, u.sheet, u.priority, u.id, u.sectionPriority, u.section,
           NullsLast(q.grade), q.title, i>>
    [] sort = "newest" -> <<Newest(q.date), -i>>
    [] sort = "oldest" -> <<NullsLast(q.date), i>>
    [] sort = "missingFields" -> <<-Cardinality(MissingInSql(q))>> \o StructureKey(q) \o <<i>>
    [] sort = "dangerousPublished" ->
         <<IF Published(q) /\ MissingInSql(q) # {} THEN 0 ELSE 1, Newest(q.date), i>>

-----------------------------------------------------------------------------
(* Articles *)

(* _apply_article_filters *)
ArticleMatches(a, f) ==
  /\ f.onlyPublished => Published(a)
  /\ Among(a.status, f.statuses)
  /\ f.tag = None \/ f.tag \in a.tags
  /\ InDates(a, f)
  /\ Among(a.title, f.search)

(* _article_ordering: the rank of a search is that of the title's words. *)
ArticleKey(a, request) ==
  LET default == <<IF Published(a) THEN 0 ELSE 1, Newest(a.date), -a.updated, a.title>>
  IN IF request.filters.search = {} THEN default ELSE <<-a.rank>> \o default

-----------------------------------------------------------------------------
(* Statements *)

Matching(t, request) ==
  {i \in Present(t) : IF kind = "workspace" THEN QuestionMatches(t[i], request.filters)
                                            ELSE ArticleMatches(t[i], request.filters)}

Key(t, i, request) ==
  IF kind = "workspace" THEN WorkspaceKey(i, t[i], request.sort) ELSE ArticleKey(t[i], request)

Less(k, l) ==
  \E n \in DOMAIN k : k[n] < l[n] /\ \A m \in 1 .. n - 1 : k[m] = l[m]

(* The orders a statement may return its rows in *)
Orders(t, request) ==
  {s \in SetToSeqs(Matching(t, request)) :
     \A m, n \in DOMAIN s : m < n => ~Less(Key(t, s[n], request), Key(t, s[m], request))}

Offset(request, page) == (page - 1) * request.size

Page(s, request, page) ==
  SubSeq(s, Offset(request, page) + 1,
         IF Offset(request, page) + request.size < Len(s)
         THEN Offset(request, page) + request.size ELSE Len(s))

Drafts(rows) == {i \in DOMAIN rows : ~Published(rows[i])}
Incomplete(rows) == {i \in DOMAIN rows : MissingInSql(rows[i]) # {}}

(* Deviation: ready questions are counted whatever their status. *)
SummaryOfAny(rows) ==
  [total |-> Cardinality(DOMAIN rows),
   draft |-> Cardinality(Drafts(rows)),
   missingDraft |-> Cardinality(Drafts(rows) \cap Incomplete(rows)),
   dangerous |-> Cardinality(Incomplete(rows) \ Drafts(rows)),
   ready |-> Cardinality(DOMAIN rows \ Incomplete(rows))]

(* _workspace_summary *)
Summary(rows) ==
  [total |-> Cardinality(DOMAIN rows),
   draft |-> Cardinality(Drafts(rows)),
   missingDraft |-> Cardinality(Drafts(rows) \cap Incomplete(rows)),
   dangerous |-> Cardinality(Incomplete(rows) \ Drafts(rows)),
   ready |-> Cardinality(DOMAIN rows \ (Drafts(rows) \cup Incomplete(rows)))]

(* from_page: ceil(total_count / page_size) *)
TotalPages(count, size) == (count + size - 1) \div size

-----------------------------------------------------------------------------
(* The walk *)

NoAnswer == [rows |-> None, count |-> None, summary |-> None]
IdleWalk == [pc |-> "idle", request |-> None, page |-> 1, seen |-> <<>>, first |-> {},
             shown |-> <<>>, count |-> 0, summary |-> None]

Init ==
  /\ \/ kind = "workspace" /\ items \in [QuestionIds -> QuestionRows \cup {None}]
     \/ kind = "articles" /\ items \in [ArticleIds -> ArticleRows \cup {None}]
  /\ priority \in Priorities
  /\ walk = IdleWalk /\ answer = NoAnswer
  /\ touched = {} /\ written = 0 /\ tied = FALSE

Requests == IF kind = "workspace" THEN WorkspaceRequests ELSE ArticleRequests

StartWalk(request, pc) ==
  /\ walk.pc = "idle"
  /\ walk' = [walk EXCEPT !.pc = pc, !.request = request, !.first = Matching(table, request)]
  /\ UNCHANGED <<kind, items, priority, answer, touched, written, tied>>

(* The workspace reads the page before it counts. *)
BeginWalk(request) == kind = "workspace" /\ StartWalk(request, "rows")

(* The list of articles, the public's or the admin's, counts first. *)
BeginArticleWalk(request) == kind = "articles" /\ StartWalk(request, "count")

(* The statement with OFFSET and LIMIT; what it shows of each row *)
ReadRows ==
  /\ walk.pc = "rows"
  /\ LET orders == Orders(table, walk.request) IN
     /\ \E s \in orders :
          LET ids == Page(s, walk.request, walk.page) IN
          answer' = [answer EXCEPT !.rows = [n \in DOMAIN ids |-> <<ids[n], table[ids[n]]>>]]
     /\ tied' = (tied \/ \E s, q \in orders : s # q)
  /\ walk' = [walk EXCEPT !.pc = IF kind = "workspace" THEN "count" ELSE "answer"]
  /\ UNCHANGED <<kind, items, priority, touched, written>>

ReadCount ==
  /\ walk.pc = "count"
  /\ answer' = [answer EXCEPT !.count = Cardinality(Matching(table, walk.request))]
  /\ walk' = [walk EXCEPT !.pc = IF kind = "workspace" THEN "summary" ELSE "rows"]
  /\ UNCHANGED <<kind, items, priority, touched, written, tied>>

ReadSummary ==
  /\ walk.pc = "summary"
  /\ answer' = [answer EXCEPT
       !.summary = Summary([i \in Matching(table, walk.request) |-> table[i]])]
  /\ walk' = [walk EXCEPT !.pc = "answer"]
  /\ UNCHANGED <<kind, items, priority, touched, written, tied>>

(* The response, and the client's next request: until the last page *)
Respond ==
  LET pages == TotalPages(answer.count, walk.request.size) IN
  /\ walk.pc = "answer"
  /\ walk' = [walk EXCEPT
       !.seen = @ \o [n \in DOMAIN answer.rows |-> answer.rows[n][1]],
       !.shown = @ \o [n \in DOMAIN answer.rows |-> answer.rows[n][2]],
       !.count = answer.count, !.summary = answer.summary,
       !.page = @ + 1,
       !.pc = IF walk.page < pages THEN IF kind = "workspace" THEN "rows" ELSE "count"
                                   ELSE "done"]
  /\ answer' = NoAnswer
  /\ UNCHANGED <<kind, items, priority, touched, written, tied>>

(* A request commits that writes items and priorities.  Changed: the rows
   that are not what they were, in themselves or in their structure's sort
   keys. *)
Changed == {i \in DOMAIN items : table'[i] # table[i]}

Commit ==
  /\ UNCHANGED <<kind, walk, answer, tied>>
  /\ touched' = touched \cup Changed /\ written' = written + Cardinality(Changed)

(* A question or an article is created, changed, published or deleted:
   QuestionQueue, ArticleCatalog. *)
WriteItem(i, row) ==
  /\ items[i] # row
  /\ items' = [items EXCEPT ![i] = row] /\ UNCHANGED priority
  /\ Commit

(* delete_structure_node deletes all questions below a node.  The node keeps
   a place in priority for one that may be created instead. *)
DeleteSubtree(level, node) ==
  /\ kind = "workspace"
  /\ items' = [i \in DOMAIN items |->
       IF items[i] # None /\ Above(items[i].sub)[level] = node THEN None ELSE items[i]]
  /\ UNCHANGED priority
  /\ Commit

(* All nodes of a level below one parent *)
Families(level) ==
  LET Parent(u) == CASE level = "sheet" -> None
                     [] level = "section" -> Above(u).sheet
                     [] level = "subsection" -> Above(u).section
  IN {{Above(v)[level] : v \in {v \in DOMAIN Subsections : Parent(v) = Parent(u)}} :
        u \in DOMAIN Subsections}

(* The numbers from 1 that siblings are given *)
Numberings ==
  [level \in Levels |->
     UNION {Bijection(siblings, 1 .. Cardinality(siblings)) :
              siblings \in UNION {SUBSET family : family \in Families(level)}}]

(* update_sheet_priorities, update_section_priorities and
   update_subsection_priorities renumber the siblings that the request has
   read; one created since then keeps its priority. *)
Reorder(level, numbers) ==
  /\ kind = "workspace"
  /\ priority' = [priority EXCEPT ![level] =
       [n \in Nodes[level] |-> IF n \in DOMAIN numbers THEN numbers[n] ELSE priority[level][n]]]
  /\ UNCHANGED items
  /\ Commit

(* delete_tag takes a tag off all its articles, whose links go with it
   (ON DELETE CASCADE); update_tag may give it another slug, which is
   unique. *)
WriteTag(slug, slugs) ==
  /\ kind = "articles"
  /\ \A i \in Present(items) : slugs \cap items[i].tags = {}
  /\ items' = [i \in DOMAIN items |->
       IF items[i] # None /\ slug \in items[i].tags
       THEN [items[i] EXCEPT !.tags = (@ \ {slug}) \cup slugs] ELSE items[i]]
  /\ UNCHANGED priority
  /\ Commit

AllRows == (IF kind = "workspace" THEN QuestionRows ELSE ArticleRows) \cup {None}

Write ==
  /\ walk.pc \notin {"idle", "done"} /\ written < MaxWrites
  /\ \/ \E i \in DOMAIN items, row \in AllRows : WriteItem(i, row)
     \/ \E level \in Levels : \E node \in Nodes[level] : DeleteSubtree(level, node)
     \/ \E level \in Levels : \E numbers \in Numberings[level] : Reorder(level, numbers)
     \/ \E slug \in Slugs, slugs \in {{}} \cup {{s} : s \in Slugs} : WriteTag(slug, slugs)

Next ==
  \/ \E request \in Requests : BeginWalk(request) \/ BeginArticleWalk(request)
  \/ ReadRows \/ ReadCount \/ ReadSummary \/ Respond
  \/ Write

Spec == Init /\ [][Next]_vars

-----------------------------------------------------------------------------
(* Views of questions *)

(* Deviation: siblings are ordered by their priorities alone. *)
ListKeyByPriority(i, q) ==
  LET u == q.sub IN
  <<u.sheetPriority, u.sectionPriority, u.priority, NullsLast(q.grade), i>>

(* list_competency_matrix_items *)
ListKey(i, q) == StructureKey(q) \o <<NullsLast(q.grade), i>>

(* is_available, and the SQL condition before it *)
Available(q) == Published(q) /\ MissingFields(q) = {}

(* The questions of a sheet as list_items returns them *)
ListItems(t, sheet, onlyPublished) ==
  LET found == {i \in Present(t) : t[i].sub.sheet = sheet /\ (onlyPublished => Available(t[i]))}
  IN CHOOSE s \in SetToSeqs(found) : \A m, n \in DOMAIN s :
       m < n => Less(ListKey(s[m], t[s[m]]), ListKey(s[n], t[s[n]]))

(* itertools.groupby: a group ends where the key changes. *)
Groups(names) ==
  {m .. n : m, n \in DOMAIN names} \cap
    {g \in SUBSET DOMAIN names :
       /\ g # {}
       /\ \A m, n \in g : names[m] = names[n]
       /\ \A n \in DOMAIN names \ g : (n + 1 \in g \/ n - 1 \in g) =>
            \A m \in g : names[n] # names[m]}

SectionNames(t, s) == [n \in DOMAIN s |-> t[s[n]].sub.sectionName]
SubsectionNames(t, s) == [n \in DOMAIN s |-> t[s[n]].sub.name]

(* Deviation: the options come from every node of the structure. *)
OptionSubsectionsOfAll == DOMAIN Subsections

(* list_competency_matrix_workspace_filter_options: nodes with questions *)
Rows == LET t == table IN {t[i] : i \in Present(t)}
OptionSubsections == {q.sub.id : q \in Rows}
OptionSections == {q.sub.section : q \in Rows}
OptionSheets == {q.sub.sheet : q \in Rows}
OptionGrades == {q.grade : q \in Rows} \ {Null}
OptionFrequencies == {q.frequency : q \in Rows} \ {Null}
OptionStatuses == {q.status : q \in Rows}

NoFilter ==
  [sheets |-> {}, sections |-> {}, subsections |-> {}, grades |-> {}, frequencies |-> {},
   statuses |-> {}, from |-> None, to |-> None, search |-> {}, missing |-> None]

-----------------------------------------------------------------------------
Times(i) == Cardinality({n \in DOMAIN walk.seen : walk.seen[n] = i})

(* A client that reads all pages sees every row that nobody wrote exactly
   once, but for as many missed and as many repeated as rows were written
   during the walk: a subtree deletion, a reordering or a tag may write all
   but one in one commit.  No sort of the workspace lets rows tie.  The list
   of articles, which is not sorted by id in the end, keeps this only as
   long as none of its rows tie. *)
WalkDrift ==
  walk.pc = "done" =>
    LET kept == walk.first \ touched IN
    \/ kind = "articles" /\ tied
    \/ /\ Cardinality({i \in kept : Times(i) = 0}) <= written
       /\ Cardinality({i \in kept : Times(i) > 1}) <= written

(* If nobody writes, the count, the summary and the rows on the pages tell
   the same, although three statements compute them, two in SQL and one in
   Python: every question is a draft, dangerous or ready, and the numbers of
   incomplete ones differ by the texts of white space other than spaces. *)
SummaryMatchesPages ==
  walk.pc = "done" /\ kind = "workspace" /\ written = 0 =>
    LET summary == walk.summary
        shown == walk.shown
        missing == {n \in DOMAIN shown : MissingFields(shown[n]) # {}}
    IN /\ summary.total = walk.count /\ walk.count = Len(shown)
       /\ summary.draft + summary.dangerous + summary.ready = summary.total
       /\ summary.missingDraft + summary.dangerous =
            Cardinality(missing) - Cardinality(missing \ Incomplete(shown))

(* The grouped lists cut a sorted list where a name changes.  No section
   and no subsection is cut in two, and no group holds the questions of two,
   even when priorities tie (which MatrixStructure allows) and however
   siblings are reordered. *)
GroupsWhole ==
  kind = "workspace" =>
    \A sheet \in Nodes.sheet, onlyPublished \in BOOLEAN :
      LET t == table
          s == ListItems(t, sheet, onlyPublished)
          sections == Groups(SectionNames(t, s))
      IN /\ Cardinality(sections) = Cardinality({t[s[n]].sub.section : n \in DOMAIN s})
         /\ \A g \in sections :
              LET part == SubSeq(s, CHOOSE m \in g : \A n \in g : m <= n,
                                    CHOOSE m \in g : \A n \in g : n <= m)
              IN Cardinality(Groups(SubsectionNames(t, part)))
                   = Cardinality({t[part[n]].sub.id : n \in DOMAIN part})

(* Every filter option offered, chosen alone, leads to a question, and every
   question is reached by an option of each structure level and status. *)
OptionsLead ==
  kind = "workspace" =>
    LET rows == Rows
        subsections == OptionSubsections
        statuses == OptionStatuses
        Leads(f) == \E q \in rows : QuestionMatches(q, f)
    IN
    /\ \A u \in subsections : Leads([NoFilter EXCEPT !.subsections = {u}])
    /\ \A c \in OptionSections : Leads([NoFilter EXCEPT !.sections = {c}])
    /\ \A s \in OptionSheets : Leads([NoFilter EXCEPT !.sheets = {s}])
    /\ \A g \in OptionGrades : Leads([NoFilter EXCEPT !.grades = {g}])
    /\ \A f \in OptionFrequencies : Leads([NoFilter EXCEPT !.frequencies = {f}])
    /\ \A p \in statuses : Leads([NoFilter EXCEPT !.statuses = {p}])
    /\ \A q \in rows :
         /\ \E u \in subsections : QuestionMatches(q, [NoFilter EXCEPT !.subsections = {u}])
         /\ \E p \in statuses : QuestionMatches(q, [NoFilter EXCEPT !.statuses = {p}])
=============================================================================
