------------------------ MODULE ContentListingProofs ------------------------
(***************************************************************************)
(* What a walk through the pages shows, for any rows, requests and number  *)
(* of writes.  Every key ends in an id or the rows are known not to tie,   *)
(* so that a row has a rank, the number of rows before it, and a page is   *)
(* the rows of a range of ranks.  A commit moves at most as many other     *)
(* rows across the end of what is read as it writes: what a walk misses    *)
(* and what it repeats is counted against the rows written.                *)
(***************************************************************************)
EXTENDS ContentListing, SequenceTheorems, CollectionTheorems

-----------------------------------------------------------------------------
(* Sorting by keys of integers: Less is a strict order of the keys of one
   length, and total. *)

LEMMA LessFacts ==
  ASSUME NEW N \in Nat, NEW k \in [1 .. N -> Int], NEW l \in [1 .. N -> Int]
  PROVE  /\ ~Less(k, k)
         /\ Less(k, l) => ~Less(l, k) /\ k # l
         /\ k # l => Less(k, l) \/ Less(l, k)
<1>1. ~Less(k, k)
  BY DEF Less
<1>2. Less(k, l) => ~Less(l, k)
  <2> SUFFICES ASSUME Less(k, l), Less(l, k) PROVE FALSE
    OBVIOUS
  <2>1. PICK m \in 1 .. N : k[m] < l[m] /\ \A x \in 1 .. m - 1 : k[x] = l[x]
    BY DEF Less
  <2>2. PICK n \in 1 .. N : l[n] < k[n] /\ \A x \in 1 .. n - 1 : l[x] = k[x]
    BY DEF Less
  <2>3. m # n /\ k[m] \in Int /\ l[m] \in Int /\ k[n] \in Int /\ l[n] \in Int
    BY <2>1, <2>2
  <2>4. CASE m < n
    <3>1. m \in 1 .. n - 1
      BY <2>4
    <3> QED BY <2>1, <2>2, <2>3, <3>1
  <2>5. CASE n < m
    <3>1. n \in 1 .. m - 1
      BY <2>5
    <3> QED BY <2>1, <2>2, <2>3, <3>1
  <2> QED BY <2>3, <2>4, <2>5
<1>3. k # l => Less(k, l) \/ Less(l, k)
  <2> SUFFICES ASSUME k # l PROVE Less(k, l) \/ Less(l, k)
    OBVIOUS
  <2>1. PICK D : D = {n \in 1 .. N : k[n] # l[n]}
    OBVIOUS
  <2>2a. \E n \in 1 .. N : k[n] # l[n]
    OBVIOUS
  <2>2b. PICK w \in 1 .. N : k[w] # l[w]
    BY <2>2a
  <2>2c. w \in D
    BY <2>1, <2>2b
  <2>2d. D \subseteq 1 .. N
    BY <2>1
  <2>2e. 1 .. N \subseteq Nat
    OBVIOUS
  <2>2. D # {} /\ D \subseteq Nat /\ D \subseteq 1 .. N
    BY <2>2c, <2>2d, <2>2e
  <2>3. IsFiniteSet(1 .. N)
    BY FS_Interval
  <2>4. IsFiniteSet(D)
    BY <2>2, <2>3, FS_Subset
  <2>5. PICK n \in D : \A m \in D : n <= m
    BY <2>2, <2>4, LeastExists
  <2>6. n \in 1 .. N /\ k[n] # l[n] /\ k[n] \in Int /\ l[n] \in Int
    BY <2>1
  <2>7. \A m \in 1 .. n - 1 : k[m] = l[m]
    <3> SUFFICES ASSUME NEW m \in 1 .. n - 1, k[m] # l[m] PROVE FALSE
      OBVIOUS
    <3>1. m \in 1 .. N /\ m < n
      BY <2>6
    <3>2. m \in D
      BY <2>1, <3>1
    <3>3. n <= m
      BY <2>5, <3>2
    <3> QED BY <2>6, <3>1, <3>3
  <2>8. DOMAIN k = 1 .. N /\ DOMAIN l = 1 .. N
    OBVIOUS
  <2>9. CASE k[n] < l[n]
    BY <2>6, <2>7, <2>8, <2>9 DEF Less
  <2>10. CASE l[n] < k[n]
    BY <2>6, <2>7, <2>8, <2>10 DEF Less
  <2> QED BY <2>6, <2>9, <2>10
<1>4. Less(k, l) => k # l
  BY <1>1
<1> QED BY <1>1, <1>2, <1>3, <1>4

LEMMA LessTransitive ==
  ASSUME NEW N \in Nat, NEW k \in [1 .. N -> Int], NEW l \in [1 .. N -> Int],
         NEW h \in [1 .. N -> Int], Less(k, l), Less(l, h)
  PROVE  Less(k, h)
<1>1. PICK m \in 1 .. N : k[m] < l[m] /\ \A x \in 1 .. m - 1 : k[x] = l[x]
  BY DEF Less
<1>2. PICK n \in 1 .. N : l[n] < h[n] /\ \A x \in 1 .. n - 1 : l[x] = h[x]
  BY DEF Less
<1>3. \A x \in 1 .. N : k[x] \in Int /\ l[x] \in Int /\ h[x] \in Int
  OBVIOUS
<1>4. CASE m <= n
  <2>1. k[m] < h[m]
    <3>1. m < n => l[m] = h[m]
      <4>1. m < n => m \in 1 .. n - 1
        OBVIOUS
      <4> QED BY <1>2, <4>1
    <3> QED BY <1>1, <1>2, <1>3, <1>4, <3>1
  <2>2. \A x \in 1 .. m - 1 : k[x] = h[x]
    BY <1>1, <1>2, <1>4
  <2> QED BY <2>1, <2>2 DEF Less
<1>5. CASE n < m
  <2>1. n \in 1 .. m - 1
    BY <1>5
  <2>2. k[n] < h[n]
    BY <1>1, <1>2, <1>3, <2>1
  <2>3. \A x \in 1 .. n - 1 : k[x] = h[x]
    BY <1>1, <1>2, <1>5
  <2> QED BY <2>2, <2>3 DEF Less
<1> QED BY <1>4, <1>5

(* Keys put together: k has n parts and ends in x. *)
Ends(k, n, x) == k \in Seq(Int) /\ Len(k) = n /\ n \in Nat \ {0} /\ k[n] = x

LEMMA EndsJoined ==
  ASSUME NEW k, NEW l, NEW m, NEW n, NEW x, NEW y, NEW p,
         Ends(k, m, x), Ends(l, n, y), p = m + n
  PROVE  Ends(k \o l, p, y)
<1>1. k \in Seq(Int) /\ l \in Seq(Int) /\ Len(k) = m /\ Len(l) = n /\ m \in Nat \ {0} /\ n \in Nat \ {0}
      /\ l[n] = y
  BY DEF Ends
<1>2. /\ k \o l \in Seq(Int) /\ Len(k \o l) = m + n
      /\ \A i \in 1 .. m + n : (k \o l)[i] = IF i <= m THEN k[i] ELSE l[i - m]
  BY <1>1, ConcatProperties
<1>3. (k \o l)[m + n] = l[n]
  BY <1>1, <1>2
<1> QED BY <1>1, <1>2, <1>3 DEF Ends

(* Questions joined with the structure, under any priorities *)
JoinedRows == {Joined(p, q) : p \in PriorityColumns, q \in Questions}

LEMMA PlaceTyped ==
  ASSUME NEW p \in PriorityColumns, NEW u \in DOMAIN Subsections
  PROVE  LET x == Place(p, u) IN
         {x.sheetPriority, x.sheet, x.sectionPriority, x.section, x.priority, x.id} \subseteq Int
<1>1. {u, Subsections[u].sheet, Subsections[u].section} \subseteq Int
  BY ListingAssumptions
<1>2. Subsections[u].sheet \in Nodes["sheet"]
  BY DEF Nodes, Levels, Above
<1>3. Subsections[u].section \in Nodes["section"]
  BY DEF Nodes, Levels, Above
<1>4. u \in Nodes["subsection"]
  BY DEF Nodes, Levels, Above
<1>5. /\ p.sheet \in [Nodes["sheet"] -> Int] /\ p.section \in [Nodes["section"] -> Int]
      /\ p.subsection \in [Nodes["subsection"] -> Int]
  BY DEF PriorityColumns
<1>6. p.sheet[Subsections[u].sheet] \in Int /\ p.section[Subsections[u].section] \in Int
      /\ p.subsection[u] \in Int
  BY <1>2, <1>3, <1>4, <1>5
<1> QED BY <1>1, <1>6 DEF Place

LEMMA JoinedFields ==
  ASSUME NEW p \in PriorityColumns, NEW q \in Questions
  PROVE  LET j == Joined(p, q) IN
         /\ j.sub = Place(p, q.sub) /\ q.sub \in DOMAIN Subsections
         /\ j.grade = q.grade /\ j.frequency = q.frequency /\ j.date = q.date
         /\ j.title = q.title /\ j.status = q.status /\ j.texts = q.texts
BY DEF Joined, Questions

LEMMA QuestionFields ==
  ASSUME NEW q \in JoinedRows
  PROVE  /\ q.grade \in Nat /\ q.frequency \in Nat /\ q.date \in Nat /\ q.title \in Nat
         /\ NullsLast(q.grade) \in Int /\ NullsLast(q.frequency) \in Int /\ NullsLast(q.date) \in Int
         /\ Newest(q.date) \in Int /\ Cardinality(MissingInSql(q)) \in Nat
         /\ \E p \in PriorityColumns : \E u \in DOMAIN Subsections : q.sub = Place(p, u)
<1>1. PICK p \in PriorityColumns, r \in Questions : q = Joined(p, r)
  BY DEF JoinedRows
<1>2. /\ q.grade = r.grade /\ q.frequency = r.frequency /\ q.date = r.date /\ q.title = r.title
      /\ q.texts = r.texts /\ q.sub = Place(p, r.sub) /\ r.sub \in DOMAIN Subsections
  BY <1>1, JoinedFields
<1>3. /\ r.grade \in Nat /\ r.frequency \in Nat /\ r.date \in Nat /\ r.title \in Nat
      /\ DOMAIN r.texts = TextFields
  BY DEF Questions
<1>4. IsFiniteSet(MissingInSql(q))
  <2>1. MissingInSql(q) \subseteq TextFields \cup {"grade"}
    BY <1>2, <1>3 DEF MissingInSql
  <2>2. IsFiniteSet(TextFields)
    BY ListingAssumptions
  <2>3. IsFiniteSet(TextFields \cup {"grade"})
    BY <2>2, FS_AddElement
  <2> QED BY <2>1, <2>3, FS_Subset
<1> QED BY <1>2, <1>3, <1>4, FS_CardinalityType DEF NullsLast, Newest, AfterAll

LEMMA StructureKeyTyped ==
  ASSUME NEW q \in JoinedRows
  PROVE  /\ Ends(StructureKey(q), 6, q.sub.id)
         /\ LET x == q.sub IN
            {x.sheetPriority, x.sheet, x.sectionPriority, x.section, x.priority, x.id} \subseteq Int
<1>1. LET x == q.sub IN
      {x.sheetPriority, x.sheet, x.sectionPriority, x.section, x.priority, x.id} \subseteq Int
  BY QuestionFields, PlaceTyped
<1>2. PICK a, b, c, d, e, f :
        /\ a = q.sub.sheetPriority /\ b = q.sub.sheet /\ c = q.sub.sectionPriority
        /\ d = q.sub.section /\ e = q.sub.priority /\ f = q.sub.id
        /\ a \in Int /\ b \in Int /\ c \in Int /\ d \in Int /\ e \in Int /\ f \in Int
  BY <1>1
<1>3. StructureKey(q) = <<a, b, c, d, e, f>>
  BY <1>2 DEF StructureKey
<1>4. Ends(<<a, b, c, d, e, f>>, 6, f)
  BY <1>2 DEF Ends
<1> QED BY <1>1, <1>2, <1>3, <1>4

LEMMA EndsOne == ASSUME NEW x \in Int PROVE Ends(<<x>>, 1, x)
BY DEF Ends

LEMMA EndsTwo == ASSUME NEW x \in Int, NEW y \in Int PROVE Ends(<<x, y>>, 2, y)
BY DEF Ends

LEMMA EndsThree == ASSUME NEW x \in Int, NEW y \in Int, NEW z \in Int PROVE Ends(<<x, y, z>>, 3, z)
BY DEF Ends

(* The keys of one sort have one length and end in the id, perhaps negated. *)
Closing(sort, i) == IF sort = "newest" THEN -i ELSE i
Width(sort) ==
  CASE sort \in {"grade", "interviewFrequency", "subsection"} -> 9
    [] sort \in {"section", "missingFields"} -> 8
    [] sort \in {"newest", "oldest"} -> 2
    [] OTHER -> 3

LEMMA WorkspaceKeyEnds ==
  ASSUME NEW sort \in Sorts, NEW i \in Int, NEW q \in JoinedRows
  PROVE  Ends(WorkspaceKey(i, q, sort), Width(sort), Closing(sort, i))
<1>0. PICK g, f, n, o, c, t, S, sub :
        /\ g = NullsLast(q.grade) /\ f = NullsLast(q.frequency) /\ n = Newest(q.date)
        /\ o = NullsLast(q.date) /\ c = -Cardinality(MissingInSql(q)) /\ t = q.title
        /\ S = StructureKey(q) /\ sub = q.sub.id
        /\ g \in Int /\ f \in Int /\ n \in Int /\ o \in Int /\ c \in Int /\ t \in Int
        /\ Ends(S, 6, sub)
  BY QuestionFields, StructureKeyTyped
<1>1. CASE sort = "grade"
  <2>1. Ends(<<g>>, 1, g) /\ Ends(<<t, i>>, 2, i)
    BY <1>0, EndsOne, EndsTwo
  <2>2. Ends(<<g>> \o S, 7, sub)
    <3>1. PICK k : k = <<g>>
      OBVIOUS
    <3>2. Ends(k, 1, g) /\ Ends(S, 6, sub) /\ 7 = 1 + 6
      BY <1>0, <2>1, <3>1
    <3>3. Ends(k \o S, 7, sub)
      BY <3>2, EndsJoined
    <3> QED BY <3>1, <3>3
  <2>3. Ends((<<g>> \o S) \o <<t, i>>, 9, i)
    <3>1. PICK k, l : k = <<g>> \o S /\ l = <<t, i>>
      OBVIOUS
    <3>2. Ends(k, 7, sub) /\ Ends(l, 2, i) /\ 9 = 7 + 2
      BY <2>1, <2>2, <3>1
    <3>3. Ends(k \o l, 9, i)
      BY <3>2, EndsJoined
    <3> QED BY <3>1, <3>3
  <2> QED BY <1>0, <1>1, <2>3 DEF WorkspaceKey, Width, Closing
<1>2. CASE sort = "interviewFrequency"
  <2>1. Ends(<<f>>, 1, f) /\ Ends(<<t, i>>, 2, i)
    BY <1>0, EndsOne, EndsTwo
  <2>2. Ends(<<f>> \o S, 7, sub)
    <3>1. PICK k : k = <<f>>
      OBVIOUS
    <3>2. Ends(k, 1, f) /\ Ends(S, 6, sub) /\ 7 = 1 + 6
      BY <1>0, <2>1, <3>1
    <3>3. Ends(k \o S, 7, sub)
      BY <3>2, EndsJoined
    <3> QED BY <3>1, <3>3
  <2>3. Ends((<<f>> \o S) \o <<t, i>>, 9, i)
    <3>1. PICK k, l : k = <<f>> \o S /\ l = <<t, i>>
      OBVIOUS
    <3>2. Ends(k, 7, sub) /\ Ends(l, 2, i) /\ 9 = 7 + 2
      BY <2>1, <2>2, <3>1
    <3>3. Ends(k \o l, 9, i)
      BY <3>2, EndsJoined
    <3> QED BY <3>1, <3>3
  <2> QED BY <1>0, <1>2, <2>3 DEF WorkspaceKey, Width, Closing
<1>3. CASE sort = "section"
  <2>1. Ends(<<g, i>>, 2, i)
    BY <1>0, EndsTwo
  <2>2. Ends(S \o <<g, i>>, 8, i)
    <3>1. PICK l : l = <<g, i>>
      OBVIOUS
    <3>2. Ends(S, 6, sub) /\ Ends(l, 2, i) /\ 8 = 6 + 2
      BY <1>0, <2>1, <3>1
    <3>3. Ends(S \o l, 8, i)
      BY <3>2, EndsJoined
    <3> QED BY <3>1, <3>3
  <2> QED BY <1>0, <1>3, <2>2 DEF WorkspaceKey, Width, Closing
<1>4. CASE sort = "subsection"
  <2>1. PICK a, b, x, d, e :
        /\ a = q.sub.sheetPriority /\ b = q.sub.sheet /\ x = q.sub.sectionPriority
        /\ d = q.sub.section /\ e = q.sub.priority
        /\ a \in Int /\ b \in Int /\ x \in Int /\ d \in Int /\ e \in Int /\ sub \in Int
    BY <1>0, StructureKeyTyped
  <2>2. Ends(<<a, b, e, sub, x, d, g, t, i>>, 9, i)
    BY <1>0, <2>1 DEF Ends
  <2>3. WorkspaceKey(i, q, "subsection") = <<a, b, e, sub, x, d, g, t, i>>
    BY <1>0, <2>1 DEF WorkspaceKey
  <2> QED BY <1>4, <2>2, <2>3 DEF Width, Closing
<1>5. CASE sort = "newest"
  <2>1. Ends(<<n, -i>>, 2, -i)
    BY <1>0, EndsTwo
  <2> QED BY <1>0, <1>5, <2>1 DEF WorkspaceKey, Width, Closing
<1>6. CASE sort = "oldest"
  <2>1. Ends(<<o, i>>, 2, i)
    BY <1>0, EndsTwo
  <2> QED BY <1>0, <1>6, <2>1 DEF WorkspaceKey, Width, Closing
<1>7. CASE sort = "missingFields"
  <2>1. Ends(<<c>>, 1, c) /\ Ends(<<i>>, 1, i)
    BY <1>0, EndsOne
  <2>2. Ends(<<c>> \o S, 7, sub)
    <3>1. PICK k : k = <<c>>
      OBVIOUS
    <3>2. Ends(k, 1, c) /\ Ends(S, 6, sub) /\ 7 = 1 + 6
      BY <1>0, <2>1, <3>1
    <3>3. Ends(k \o S, 7, sub)
      BY <3>2, EndsJoined
    <3> QED BY <3>1, <3>3
  <2>3. Ends((<<c>> \o S) \o <<i>>, 8, i)
    <3>1. PICK k, l : k = <<c>> \o S /\ l = <<i>>
      OBVIOUS
    <3>2. Ends(k, 7, sub) /\ Ends(l, 1, i) /\ 8 = 7 + 1
      BY <2>1, <2>2, <3>1
    <3>3. Ends(k \o l, 8, i)
      BY <3>2, EndsJoined
    <3> QED BY <3>1, <3>3
  <2> QED BY <1>0, <1>7, <2>3 DEF WorkspaceKey, Width, Closing
<1>8. CASE sort = "dangerousPublished"
  <2>1. PICK x \in {0, 1} : x = IF Published(q) /\ MissingInSql(q) # {} THEN 0 ELSE 1
    OBVIOUS
  <2>2. Ends(<<x, n, i>>, 3, i)
    BY <1>0, <2>1, EndsThree
  <2>3. WorkspaceKey(i, q, "dangerousPublished") = <<x, n, i>>
    BY <1>0, <2>1 DEF WorkspaceKey
  <2> QED BY <1>8, <2>2, <2>3 DEF Width, Closing
<1> QED BY <1>1, <1>2, <1>3, <1>4, <1>5, <1>6, <1>7, <1>8 DEF Sorts

LEMMA ArticleKeyEnds ==
  ASSUME NEW a \in Articles, NEW r
  PROVE  Ends(ArticleKey(a, r), IF r.filters.search = {} THEN 4 ELSE 5, a.title)
<1>1. a.date \in Nat /\ a.updated \in Nat /\ a.title \in Nat /\ a.rank \in Nat
  BY DEF Articles
<1>2. PICK p, n, u, t, k : /\ p = IF Published(a) THEN 0 ELSE 1
                           /\ n = Newest(a.date) /\ u = -a.updated /\ t = a.title /\ k = -a.rank
  OBVIOUS
<1>3. p \in Int /\ n \in Int /\ u \in Int /\ t \in Int /\ k \in Int
  BY <1>1, <1>2 DEF Newest, AfterAll
<1>4. Ends(<<p, n, u, t>>, 4, t)
  BY <1>3 DEF Ends
<1>5. Ends(<<k>> \o <<p, n, u, t>>, 5, t)
  <2>1. Ends(<<k>>, 1, k)
    BY <1>3, EndsOne
  <2> QED BY <1>4, <2>1, EndsJoined
<1>6. ArticleKey(a, r) = IF r.filters.search = {} THEN <<p, n, u, t>> ELSE <<k>> \o <<p, n, u, t>>
  BY <1>2 DEF ArticleKey
<1> QED BY <1>2, <1>4, <1>5, <1>6

-----------------------------------------------------------------------------
(* The lists for any kind, table and request; rows that tie are told apart
   by their ids. *)

Kinds == {"workspace", "articles"}
Ids(d) == IF d = "workspace" THEN QuestionIds ELSE ArticleIds
RowsOf(d) == IF d = "workspace" THEN JoinedRows ELSE Articles
Tables(d) == [Ids(d) -> RowsOf(d) \cup {None}]
RequestsOf(d) == IF d = "workspace" THEN WorkspaceRequests ELSE ArticleRequests

(* What is stored, and how a statement sees it *)
Stored(d) == IF d = "workspace" THEN Questions ELSE Articles
Contents(d) == [Ids(d) -> Stored(d) \cup {None}]
View(d, m, p) ==
  IF d = "workspace" THEN [i \in DOMAIN m |-> IF m[i] = None THEN None ELSE Joined(p, m[i])] ELSE m

LEMMA TableIsView ==
  /\ table = View(kind, items, priority)
  /\ table' = View(kind', items', priority')
BY DEF table, View

LEMMA TableKept == ASSUME UNCHANGED <<kind, items, priority>> PROVE table' = table
BY DEF table

LEMMA ViewTyped ==
  ASSUME NEW d \in Kinds, NEW m \in Contents(d), NEW p \in PriorityColumns
  PROVE  View(d, m, p) \in Tables(d)
<1>1. CASE d = "workspace"
  <2>1. m \in [Ids(d) -> Questions \cup {None}]
    BY <1>1 DEF Contents, Stored
  <2>2. \A i \in Ids(d) : m[i] # None => Joined(p, m[i]) \in JoinedRows
    BY <2>1 DEF JoinedRows
  <2>3. [i \in DOMAIN m |-> IF m[i] = None THEN None ELSE Joined(p, m[i])]
          \in [Ids(d) -> JoinedRows \cup {None}]
    BY <2>1, <2>2
  <2> QED BY <1>1, <2>3 DEF View, Tables, RowsOf
<1>2. CASE d = "articles"
  BY <1>2 DEF View, Tables, RowsOf, Contents, Stored
<1> QED BY <1>1, <1>2 DEF Kinds

Fits(d, row, r) == IF d = "workspace" THEN QuestionMatches(row, r.filters)
                                      ELSE ArticleMatches(row, r.filters)
MatchOf(d, t, r) == {i \in Present(t) : Fits(d, t[i], r)}
KeyOf(d, t, i, r) == IF d = "workspace" THEN WorkspaceKey(i, t[i], r.sort) ELSE ArticleKey(t[i], r)

Before(d, t, r, i, j) ==
  \/ Less(KeyOf(d, t, i, r), KeyOf(d, t, j, r))
  \/ KeyOf(d, t, i, r) = KeyOf(d, t, j, r) /\ i < j
Ordering(d, t, r) == {p \in Ids(d) \X Ids(d) : Before(d, t, r, p[1], p[2])}
Earlier(d, t, r, i) == {j \in MatchOf(d, t, r) : <<j, i>> \in Ordering(d, t, r)}
Rank(d, t, r, i) == Cardinality(Earlier(d, t, r, i))

LEMMA Matches ==
  ASSUME NEW d \in Kinds, NEW t \in Tables(d), NEW r
  PROVE  /\ MatchOf(d, t, r) \subseteq Ids(d) /\ IsFiniteSet(MatchOf(d, t, r))
         /\ Ids(d) \subseteq Int /\ \A i \in MatchOf(d, t, r) : t[i] \in RowsOf(d)
         /\ \A i \in Ids(d) : i \in MatchOf(d, t, r) <=> t[i] # None /\ Fits(d, t[i], r)
<1>1. DOMAIN t = Ids(d) /\ \A i \in Ids(d) : t[i] \in RowsOf(d) \cup {None}
  BY DEF Tables
<1>2. IsFiniteSet(Ids(d)) /\ Ids(d) \subseteq Int
  BY ListingAssumptions DEF Ids
<1>3. \A i : i \in MatchOf(d, t, r) <=> i \in Ids(d) /\ t[i] # None /\ Fits(d, t[i], r)
  BY <1>1 DEF MatchOf, Present
<1>4. MatchOf(d, t, r) \subseteq Ids(d)
  BY <1>3
<1> QED BY <1>1, <1>2, <1>3, <1>4, FS_Subset

(* All keys of a list have one length. *)
LEMMA KeysTyped ==
  ASSUME NEW d \in Kinds, NEW r \in RequestsOf(d)
  PROVE  \E N \in Nat : \A t \in Tables(d) : \A i \in MatchOf(d, t, r) : KeyOf(d, t, i, r) \in [1 .. N -> Int]
<1>0. \A k, N, x : Ends(k, N, x) => N \in Nat /\ k \in [1 .. N -> Int]
  BY DEF Ends
<1>1. CASE d = "workspace"
  <2>1. r.sort \in Sorts
    BY <1>1, ListingAssumptions DEF RequestsOf
  <2>2. Width(r.sort) \in Nat
    BY <2>1 DEF Sorts, Width
  <2>3. ASSUME NEW t \in Tables(d), NEW i \in MatchOf(d, t, r)
        PROVE  KeyOf(d, t, i, r) \in [1 .. Width(r.sort) -> Int]
    <3>1. i \in Int /\ t[i] \in JoinedRows
      BY <1>1, Matches DEF RowsOf
    <3>2. Ends(WorkspaceKey(i, t[i], r.sort), Width(r.sort), Closing(r.sort, i))
      BY <2>1, <3>1, WorkspaceKeyEnds
    <3>3. KeyOf(d, t, i, r) = WorkspaceKey(i, t[i], r.sort)
      BY <1>1 DEF KeyOf
    <3> QED BY <1>0, <3>2, <3>3
  <2> QED BY <2>2, <2>3
<1>2. CASE d = "articles"
  <2>1. PICK N \in Nat : N = IF r.filters.search = {} THEN 4 ELSE 5
    OBVIOUS
  <2>2. ASSUME NEW t \in Tables(d), NEW i \in MatchOf(d, t, r)
        PROVE  KeyOf(d, t, i, r) \in [1 .. N -> Int]
    <3>1. t[i] \in Articles
      BY <1>2, Matches DEF RowsOf
    <3>2. Ends(ArticleKey(t[i], r), N, t[i].title)
      BY <2>1, <3>1, ArticleKeyEnds
    <3>3. KeyOf(d, t, i, r) = ArticleKey(t[i], r)
      BY <1>2 DEF KeyOf
    <3> QED BY <1>0, <3>2, <3>3
  <2> QED BY <2>2
<1> QED BY <1>1, <1>2 DEF Kinds

(* No sort of the workspace lets rows tie. *)
LEMMA WorkspaceUntied ==
  ASSUME NEW r \in RequestsOf("workspace"), NEW t \in Tables("workspace"),
         NEW i \in MatchOf("workspace", t, r), NEW j \in MatchOf("workspace", t, r), i # j
  PROVE  KeyOf("workspace", t, i, r) # KeyOf("workspace", t, j, r)
<1>0. "workspace" \in Kinds
  BY DEF Kinds
<1>1. r.sort \in Sorts
  BY ListingAssumptions DEF RequestsOf
<1>2. i \in Int /\ j \in Int /\ t[i] \in JoinedRows /\ t[j] \in JoinedRows
  BY <1>0, Matches DEF RowsOf
<1>3. PICK k, l : k = KeyOf("workspace", t, i, r) /\ l = KeyOf("workspace", t, j, r)
  OBVIOUS
<1>4. k = WorkspaceKey(i, t[i], r.sort) /\ l = WorkspaceKey(j, t[j], r.sort)
  BY <1>3 DEF KeyOf
<1>5. Ends(k, Width(r.sort), Closing(r.sort, i)) /\ Ends(l, Width(r.sort), Closing(r.sort, j))
  BY <1>1, <1>2, <1>4, WorkspaceKeyEnds
<1>6. k = l => Closing(r.sort, i) = Closing(r.sort, j)
  BY <1>5 DEF Ends
<1>7. Closing(r.sort, i) = Closing(r.sort, j) => i = j
  BY <1>2 DEF Closing
<1> QED BY <1>3, <1>6, <1>7

LEMMA OrderFacts ==
  ASSUME NEW d \in Kinds, NEW t \in Tables(d), NEW r \in RequestsOf(d)
  PROVE  LET M == MatchOf(d, t, r)  R == Ordering(d, t, r) IN
         /\ \A i, j \in M : <<i, j>> \in R <=> Before(d, t, r, i, j)
         /\ \A i \in M : <<i, i>> \notin R
         /\ \A i, j \in M : <<i, j>> \in R => <<j, i>> \notin R
         /\ \A i, j \in M : i # j => <<i, j>> \in R \/ <<j, i>> \in R
         /\ \A i, j, k \in M : <<i, j>> \in R /\ <<j, k>> \in R => <<i, k>> \in R
<1>0. PICK M, R : M = MatchOf(d, t, r) /\ R = Ordering(d, t, r)
  OBVIOUS
<1>1. M \subseteq Int /\ M \subseteq Ids(d)
  BY <1>0, Matches
<1>2. PICK N \in Nat : \A i \in M : KeyOf(d, t, i, r) \in [1 .. N -> Int]
  BY <1>0, KeysTyped
<1>3. \A i, j \in M : <<i, j>> \in R <=> Before(d, t, r, i, j)
  BY <1>0, <1>1 DEF Ordering
<1>4. PICK key : key = [i \in M |-> KeyOf(d, t, i, r)]
  OBVIOUS
<1>5. \A i \in M : key[i] \in [1 .. N -> Int]
  BY <1>2, <1>4
<1>6. \A i, j \in M : <<i, j>> \in R <=> Less(key[i], key[j]) \/ (key[i] = key[j] /\ i < j)
  BY <1>3, <1>4 DEF Before
<1>7. \A i, j \in M : /\ ~Less(key[i], key[i])
                      /\ Less(key[i], key[j]) => ~Less(key[j], key[i]) /\ key[i] # key[j]
                      /\ key[i] # key[j] => Less(key[i], key[j]) \/ Less(key[j], key[i])
  BY <1>5, LessFacts
<1>8. \A i, j, k \in M : Less(key[i], key[j]) /\ Less(key[j], key[k]) => Less(key[i], key[k])
  BY <1>5, LessTransitive
<1>9. \A i \in M : <<i, i>> \notin R
  BY <1>1, <1>6, <1>7
<1>10. \A i, j \in M : <<i, j>> \in R => <<j, i>> \notin R
  BY <1>1, <1>6, <1>7
<1>11. \A i, j \in M : i # j => <<i, j>> \in R \/ <<j, i>> \in R
  BY <1>1, <1>6, <1>7
<1>12. \A i, j, k \in M : <<i, j>> \in R /\ <<j, k>> \in R => <<i, k>> \in R
  <2> SUFFICES ASSUME NEW i \in M, NEW j \in M, NEW k \in M, <<i, j>> \in R, <<j, k>> \in R
               PROVE  <<i, k>> \in R
    OBVIOUS
  <2>1. /\ Less(key[i], key[j]) \/ (key[i] = key[j] /\ i < j)
        /\ Less(key[j], key[k]) \/ (key[j] = key[k] /\ j < k)
    BY <1>6
  <2>2. i \in Int /\ j \in Int /\ k \in Int
    BY <1>1
  <2>3. i < j /\ j < k => i < k
    BY <2>2
  <2>4. Less(key[i], key[k]) \/ (key[i] = key[k] /\ i < k)
    BY <1>8, <2>1, <2>3
  <2> QED BY <1>6, <2>4
<1> QED BY <1>0, <1>3, <1>9, <1>10, <1>11, <1>12

-----------------------------------------------------------------------------
(* Ranks, and what writing rows does to them *)

LEMMA RankFacts ==
  ASSUME NEW d \in Kinds, NEW t \in Tables(d), NEW r \in RequestsOf(d), NEW k \in MatchOf(d, t, r)
  PROVE  /\ IsFiniteSet(Earlier(d, t, r, k)) /\ Rank(d, t, r, k) \in Nat
         /\ Cardinality(MatchOf(d, t, r)) \in Nat
         /\ Rank(d, t, r, k) < Cardinality(MatchOf(d, t, r))
         /\ \A l \in MatchOf(d, t, r) : <<k, l>> \in Ordering(d, t, r) =>
              Earlier(d, t, r, k) \subseteq Earlier(d, t, r, l) /\ Rank(d, t, r, k) < Rank(d, t, r, l)
<1>0. PICK M, R, E : M = MatchOf(d, t, r) /\ R = Ordering(d, t, r) /\ E = Earlier(d, t, r, k)
  OBVIOUS
<1>1. E = {j \in M : <<j, k>> \in R} /\ k \in M /\ IsFiniteSet(M)
  BY <1>0, Matches DEF Earlier
<1>2. k \notin E
  BY <1>0, <1>1, OrderFacts
<1>3. E \subseteq M
  BY <1>1
<1>4. IsFiniteSet(E)
  BY <1>1, <1>3, FS_Subset
<1>5. IsFiniteSet(E \cup {k}) /\ Cardinality(E \cup {k}) = Cardinality(E) + 1
  BY <1>2, <1>4, FS_AddElement
<1>6. Cardinality(E) \in Nat /\ Cardinality(M) \in Nat
  BY <1>1, <1>4, FS_CardinalityType
<1>7. ASSUME NEW F, IsFiniteSet(F), E \cup {k} \subseteq F PROVE Cardinality(E) < Cardinality(F)
  <2>1. Cardinality(E \cup {k}) <= Cardinality(F) /\ Cardinality(F) \in Nat
    BY <1>7, FS_Subset, FS_CardinalityType
  <2> QED BY <1>5, <1>6, <2>1
<1>8. Cardinality(E) < Cardinality(M)
  BY <1>1, <1>3, <1>7
<1>9. ASSUME NEW l \in M, <<k, l>> \in R
      PROVE  E \subseteq Earlier(d, t, r, l) /\ Cardinality(E) < Cardinality(Earlier(d, t, r, l))
  <2>1. PICK F : F = Earlier(d, t, r, l)
    OBVIOUS
  <2>2. F = {j \in M : <<j, l>> \in R}
    BY <1>0, <2>1 DEF Earlier
  <2>3. F \subseteq M
    BY <2>2
  <2>4. IsFiniteSet(F)
    BY <1>1, <2>3, FS_Subset
  <2>5. \A j \in M : <<j, k>> \in R => <<j, l>> \in R
    BY <1>0, <1>1, <1>9, OrderFacts
  <2>6. E \cup {k} \subseteq F
    BY <1>1, <1>9, <2>2, <2>5
  <2> QED BY <1>7, <2>1, <2>4, <2>6
<1> QED BY <1>0, <1>4, <1>6, <1>8, <1>9 DEF Rank

LEMMA RanksDiffer ==
  ASSUME NEW d \in Kinds, NEW t \in Tables(d), NEW r \in RequestsOf(d),
         NEW k \in MatchOf(d, t, r), NEW l \in MatchOf(d, t, r), k # l
  PROVE  Rank(d, t, r, k) # Rank(d, t, r, l)
<1>1. <<k, l>> \in Ordering(d, t, r) \/ <<l, k>> \in Ordering(d, t, r)
  BY OrderFacts
<1>2. PICK m, n : m = Rank(d, t, r, k) /\ n = Rank(d, t, r, l) /\ m \in Nat /\ n \in Nat /\ (m < n \/ n < m)
  BY <1>1, RankFacts
<1> QED BY <1>2

(* v is t but for the rows W. *)
Rewritten(t, v, W) == \A i \in DOMAIN t \ W : v[i] = t[i]

(* The rank of a row counts rows of W and others. *)
Others(d, t, r, W, k) == Cardinality(Earlier(d, t, r, k) \ W)
Theirs(d, t, r, W, k) == Cardinality(Earlier(d, t, r, k) \cap W)

LEMMA RankParts ==
  ASSUME NEW d \in Kinds, NEW t \in Tables(d), NEW r \in RequestsOf(d), NEW W, IsFiniteSet(W),
         NEW k \in MatchOf(d, t, r)
  PROVE  /\ Others(d, t, r, W, k) \in Nat /\ Theirs(d, t, r, W, k) \in Nat
         /\ Rank(d, t, r, k) = Others(d, t, r, W, k) + Theirs(d, t, r, W, k)
         /\ Cardinality(W) \in Nat /\ Theirs(d, t, r, W, k) <= Cardinality(W)
         /\ \A l \in MatchOf(d, t, r) : k \notin W /\ <<k, l>> \in Ordering(d, t, r) =>
              Others(d, t, r, W, k) < Others(d, t, r, W, l) /\ Theirs(d, t, r, W, k) <= Theirs(d, t, r, W, l)
<1>1. PICK E : E = Earlier(d, t, r, k)
  OBVIOUS
<1>2. IsFiniteSet(E)
  BY <1>1, RankFacts
<1>3. IsFiniteSet(E \ W) /\ IsFiniteSet(E \cap W)
  BY <1>2, FS_Subset
<1>4. (E \ W) \cap (E \cap W) = {} /\ E = (E \ W) \cup (E \cap W)
  OBVIOUS
<1>5. /\ Cardinality(E \ W) \in Nat /\ Cardinality(E \cap W) \in Nat
      /\ Cardinality(E) = Cardinality(E \ W) + Cardinality(E \cap W)
  BY <1>3, <1>4, DisjointUnion
<1>6. Cardinality(W) \in Nat /\ Cardinality(E \cap W) <= Cardinality(W)
  BY FS_Subset, FS_CardinalityType
<1>7. ASSUME NEW l \in MatchOf(d, t, r), k \notin W, <<k, l>> \in Ordering(d, t, r)
      PROVE  /\ Others(d, t, r, W, k) < Others(d, t, r, W, l)
             /\ Theirs(d, t, r, W, k) <= Theirs(d, t, r, W, l)
  <2>1. PICK F : F = Earlier(d, t, r, l)
    OBVIOUS
  <2>2. IsFiniteSet(F) /\ E \subseteq F
    BY <1>1, <1>7, <2>1, RankFacts
  <2>3. k \in F /\ k \notin E
    BY <1>1, <1>7, <2>1, OrderFacts DEF Earlier
  <2>4. IsFiniteSet(F \ W) /\ IsFiniteSet(F \cap W)
    BY <2>2, FS_Subset
  <2>5. Cardinality(E \cap W) <= Cardinality(F \cap W)
    <3>1. E \cap W \subseteq F \cap W
      BY <2>2
    <3> QED BY <2>4, <3>1, FS_Subset
  <2>6. Cardinality(E \ W) < Cardinality(F \ W)
    <3>1. (E \ W) \cup {k} \subseteq F \ W /\ k \notin E \ W
      BY <1>7, <2>2, <2>3
    <3>2. Cardinality((E \ W) \cup {k}) = Cardinality(E \ W) + 1
      BY <1>3, <3>1, FS_AddElement
    <3>3. Cardinality((E \ W) \cup {k}) <= Cardinality(F \ W) /\ Cardinality(F \ W) \in Nat
      BY <2>4, <3>1, FS_Subset, FS_CardinalityType
    <3> QED BY <1>5, <3>2, <3>3
  <2> QED BY <1>1, <2>1, <2>5, <2>6 DEF Others, Theirs
<1> QED BY <1>1, <1>5, <1>6, <1>7 DEF Others, Theirs, Rank

(* Rows that are not written keep their order among each other. *)
LEMMA OthersStay ==
  ASSUME NEW d \in Kinds, NEW t \in Tables(d), NEW v \in Tables(d), NEW r \in RequestsOf(d), NEW W,
         Rewritten(t, v, W), NEW k \in MatchOf(d, t, r), k \notin W
  PROVE  /\ k \in MatchOf(d, v, r)
         /\ Others(d, v, r, W, k) = Others(d, t, r, W, k)
         /\ \A l \in MatchOf(d, t, r) \ W :
              <<k, l>> \in Ordering(d, v, r) <=> <<k, l>> \in Ordering(d, t, r)
<1>1. DOMAIN t = Ids(d) /\ DOMAIN v = Ids(d) /\ \A i \in Ids(d) \ W : v[i] = t[i]
  BY DEF Rewritten, Tables
<1>2. \A i \in Ids(d) \ W : i \in MatchOf(d, v, r) <=> i \in MatchOf(d, t, r)
  BY <1>1, Matches
<1>3. k \in Ids(d) /\ k \in MatchOf(d, v, r)
  BY <1>2, Matches
<1>4. \A i, j \in Ids(d) \ W : <<i, j>> \in Ordering(d, v, r) <=> <<i, j>> \in Ordering(d, t, r)
  BY <1>1 DEF Ordering, Before, KeyOf
<1>5. MatchOf(d, v, r) \subseteq Ids(d) /\ MatchOf(d, t, r) \subseteq Ids(d)
  BY Matches
<1>6. Earlier(d, v, r, k) \ W = Earlier(d, t, r, k) \ W
  BY <1>2, <1>3, <1>4, <1>5 DEF Earlier
<1>7. \A l \in MatchOf(d, t, r) \ W :
        <<k, l>> \in Ordering(d, v, r) <=> <<k, l>> \in Ordering(d, t, r)
  BY <1>3, <1>4, <1>5
<1> QED BY <1>3, <1>6, <1>7 DEF Others

(* Different numbers given to the elements of a set span as many. *)
LEMMA Span ==
  ASSUME NEW S, IsFiniteSet(S), S # {}, NEW u \in [S -> Nat], \A k, l \in S : u[k] = u[l] => k = l
  PROVE  \E p, q \in S : /\ \A k \in S : u[p] <= u[k] /\ u[k] <= u[q]
                         /\ Cardinality(S) <= u[q] - u[p] + 1 /\ Cardinality(S) \in Nat
<1>1. PICK U : U = {u[k] : k \in S}
  OBVIOUS
<1>2. u \in Surjection(S, U)
  BY <1>1 DEF Surjection
<1>3. IsFiniteSet(U) /\ U \subseteq Nat /\ U # {}
  BY <1>1, <1>2, FS_Surjection
<1>4. PICK m \in U : \A n \in U : m <= n
  BY <1>3, LeastExists
<1>5. PICK x \in U : \A n \in U : n <= x
  BY <1>3, LargestExists
<1>6. PICK p \in S, q \in S : u[p] = m /\ u[q] = x
  BY <1>1
<1>7. \A k \in S : u[p] <= u[k] /\ u[k] <= u[q] /\ u[k] \in Nat
  BY <1>1, <1>4, <1>5, <1>6
<1>8. u \in [S -> m .. x]
  BY <1>6, <1>7
<1>9. u \in Injection(S, m .. x)
  BY <1>8 DEF Injection, IsInjective
<1>10. m \in Int /\ x \in Int /\ m <= x
  BY <1>3, <1>4
<1>11. IsFiniteSet(m .. x) /\ Cardinality(m .. x) = x - m + 1
  BY <1>10, FS_Interval
<1>12. Cardinality(S) <= x - m + 1
  BY <1>9, <1>11, FS_Injection
<1> QED BY <1>6, <1>7, <1>12, FS_CardinalityType

(* Elements k with numbers u[k] move from u[k] + w[k] to u[k] + z[k].  Where w
   and z are at most N and grow with u, no more than N of them move down past
   b or up past c. *)
LEMMA MovesBounded ==
  ASSUME NEW B, IsFiniteSet(B), NEW N \in Nat, NEW b \in Nat, NEW c \in Nat,
         NEW u \in [B -> Nat], NEW w \in [B -> Nat], NEW z \in [B -> Nat],
         \A k, l \in B : u[k] = u[l] => k = l,
         \A k \in B : w[k] <= N /\ z[k] <= N,
         \A k, l \in B : u[k] < u[l] => w[k] <= w[l] /\ z[k] <= z[l],
         \A k \in B : \/ b <= u[k] + w[k] /\ u[k] + z[k] < b
                      \/ u[k] + w[k] < c /\ c <= u[k] + z[k]
  PROVE  Cardinality(B) <= N
<1>1. PICK D, E : /\ D = {k \in B : b <= u[k] + w[k] /\ u[k] + z[k] < b}
                  /\ E = B \ D
  OBVIOUS
<1>2. D \subseteq B /\ E \subseteq B /\ D \cap E = {} /\ D \cup E = B
  BY <1>1
<1>3. IsFiniteSet(D) /\ IsFiniteSet(E)
  BY <1>2, FS_Subset
<1>4. /\ Cardinality(D) \in Nat /\ Cardinality(E) \in Nat
      /\ Cardinality(B) = Cardinality(D) + Cardinality(E)
  BY <1>2, <1>3, DisjointUnion
<1>5. \A k \in D : b <= u[k] + w[k] /\ u[k] + z[k] < b
  BY <1>1
<1>6. \A k \in E : u[k] + w[k] < c /\ c <= u[k] + z[k]
  BY <1>1
<1>7. \A k \in B : u[k] \in Nat /\ w[k] \in Nat /\ z[k] \in Nat
  OBVIOUS
<1>8. ASSUME NEW S, S \subseteq B, S # {}
      PROVE  \E p, q \in S : /\ u[p] <= u[q] /\ Cardinality(S) <= u[q] - u[p] + 1
                             /\ \A k \in S : u[p] <= u[k] /\ u[k] <= u[q]
  <2>1. IsFiniteSet(S)
    BY <1>8, FS_Subset
  <2>2. PICK y : y = [k \in S |-> u[k]]
    OBVIOUS
  <2>3. y \in [S -> Nat] /\ \A k, l \in S : y[k] = y[l] => k = l
    BY <1>7, <1>8, <2>2
  <2>4. PICK p \in S, q \in S : /\ \A k \in S : y[p] <= y[k] /\ y[k] <= y[q]
                                /\ Cardinality(S) <= y[q] - y[p] + 1
    BY <1>8, <2>1, <2>3, Span
  <2> QED BY <2>2, <2>4
<1>9. ASSUME D # {}
      PROVE  \E p, q \in D : u[p] <= u[q] /\ Cardinality(D) <= w[p] - z[q]
  <2>1. PICK p \in D, q \in D : u[p] <= u[q] /\ Cardinality(D) <= u[q] - u[p] + 1
    BY <1>2, <1>8, <1>9
  <2>2. b <= u[p] + w[p] /\ u[q] + z[q] < b
    BY <1>5
  <2>3. u[p] \in Nat /\ w[p] \in Nat /\ u[q] \in Nat /\ z[q] \in Nat
    BY <1>2, <1>7
  <2>4. Cardinality(D) <= w[p] - z[q]
    BY <1>4, <2>1, <2>2, <2>3
  <2> QED BY <2>1, <2>4
<1>10. ASSUME E # {}
       PROVE  \E p, q \in E : u[p] <= u[q] /\ Cardinality(E) <= z[p] - w[q]
  <2>1. PICK p \in E, q \in E : u[p] <= u[q] /\ Cardinality(E) <= u[q] - u[p] + 1
    BY <1>2, <1>8, <1>10
  <2>2. u[q] + w[q] < c /\ c <= u[p] + z[p]
    BY <1>6
  <2>3. u[p] \in Nat /\ z[p] \in Nat /\ u[q] \in Nat /\ w[q] \in Nat
    BY <1>2, <1>7
  <2>4. Cardinality(E) <= z[p] - w[q]
    BY <1>4, <2>1, <2>2, <2>3
  <2> QED BY <2>1, <2>4
<1>11. CASE D = {} /\ E = {}
  BY <1>4, <1>11, FS_EmptySet
<1>12. CASE D # {} /\ E = {}
  <2>1. PICK p \in D, q \in D : Cardinality(D) <= w[p] - z[q]
    BY <1>9, <1>12
  <2>2. w[p] <= N /\ w[p] \in Nat /\ z[q] \in Nat
    BY <1>2, <1>7
  <2>3. Cardinality(E) = 0
    BY <1>12, FS_EmptySet
  <2> QED BY <1>4, <2>1, <2>2, <2>3
<1>13. CASE D = {} /\ E # {}
  <2>1. PICK p \in E, q \in E : Cardinality(E) <= z[p] - w[q]
    BY <1>10, <1>13
  <2>2. z[p] <= N /\ z[p] \in Nat /\ w[q] \in Nat
    BY <1>2, <1>7
  <2>3. Cardinality(D) = 0
    BY <1>13, FS_EmptySet
  <2> QED BY <1>4, <2>1, <2>2, <2>3
<1>14. CASE D # {} /\ E # {}
  <2>1. PICK p \in D, q \in D : u[p] <= u[q] /\ Cardinality(D) <= w[p] - z[q]
    BY <1>9, <1>14
  <2>2. PICK m \in E, n \in E : u[m] <= u[n] /\ Cardinality(E) <= z[m] - w[n]
    BY <1>10, <1>14
  <2>3. p \in B /\ q \in B /\ m \in B /\ n \in B /\ p # n
    BY <1>2
  <2>4. PICK up, uq, um, un, wp, wn, zq, zm :
          /\ up = u[p] /\ uq = u[q] /\ um = u[m] /\ un = u[n]
          /\ wp = w[p] /\ wn = w[n] /\ zq = z[q] /\ zm = z[m]
    OBVIOUS
  <2>5. /\ up \in Nat /\ uq \in Nat /\ um \in Nat /\ un \in Nat
        /\ wp \in Nat /\ wn \in Nat /\ zq \in Nat /\ zm \in Nat /\ wp <= N /\ zm <= N
    BY <1>7, <2>3, <2>4
  <2>6. up # un
    BY <2>3, <2>4
  <2>7. up < un => wp <= wn
    BY <2>3, <2>4
  <2>8. um < uq => zm <= zq
    BY <2>3, <2>4
  <2>9. up <= uq /\ um <= un /\ Cardinality(D) <= wp - zq /\ Cardinality(E) <= zm - wn
    BY <2>1, <2>2, <2>4
  <2>10. Cardinality(D) + Cardinality(E) <= N
    BY <1>4, <2>5, <2>6, <2>7, <2>8, <2>9
  <2> QED BY <1>4, <2>10
<1> QED BY <1>11, <1>12, <1>13, <1>14

(* A commit moves no more other rows down past the place b, or up past the
   place c, than it writes. *)
Crosses(d, t, v, r, b, c, k) ==
  \/ b <= Rank(d, t, r, k) /\ Rank(d, v, r, k) < b
  \/ Rank(d, t, r, k) < c /\ c <= Rank(d, v, r, k)

LEMMA NoMoreCross ==
  ASSUME NEW d \in Kinds, NEW t \in Tables(d), NEW v \in Tables(d), NEW r \in RequestsOf(d), NEW W,
         IsFiniteSet(W), Rewritten(t, v, W), NEW b \in Nat, NEW c \in Nat,
         NEW B, B \subseteq MatchOf(d, t, r) \ W, \A k \in B : Crosses(d, t, v, r, b, c, k)
  PROVE  Cardinality(B) <= Cardinality(W)
<1>1. IsFiniteSet(B) /\ B \subseteq MatchOf(d, t, r) /\ B \cap W = {}
  <2>1. IsFiniteSet(MatchOf(d, t, r))
    BY Matches
  <2> QED BY <2>1, FS_Subset
<1>2. PICK u, w, z : /\ u = [k \in B |-> Others(d, t, r, W, k)]
                     /\ w = [k \in B |-> Theirs(d, t, r, W, k)]
                     /\ z = [k \in B |-> Theirs(d, v, r, W, k)]
  OBVIOUS
<1>3. PICK N : N = Cardinality(W)
  OBVIOUS
<1>4. \A k \in B : k \in MatchOf(d, t, r) /\ k \notin W /\ k \in MatchOf(d, v, r)
  BY <1>1, OthersStay
<1>5. \A k \in B : /\ u[k] \in Nat /\ w[k] \in Nat /\ z[k] \in Nat /\ w[k] <= N /\ z[k] <= N
                   /\ Rank(d, t, r, k) = u[k] + w[k] /\ Rank(d, v, r, k) = u[k] + z[k]
  <2> SUFFICES ASSUME NEW k \in B
               PROVE  /\ u[k] \in Nat /\ w[k] \in Nat /\ z[k] \in Nat /\ w[k] <= N /\ z[k] <= N
                      /\ Rank(d, t, r, k) = u[k] + w[k] /\ Rank(d, v, r, k) = u[k] + z[k]
    OBVIOUS
  <2>1. /\ u[k] = Others(d, t, r, W, k) /\ w[k] = Theirs(d, t, r, W, k)
        /\ z[k] = Theirs(d, v, r, W, k)
    BY <1>2
  <2>2. Others(d, v, r, W, k) = Others(d, t, r, W, k)
    BY <1>4, OthersStay
  <2>3. /\ Others(d, t, r, W, k) \in Nat /\ Theirs(d, t, r, W, k) \in Nat
        /\ Rank(d, t, r, k) = Others(d, t, r, W, k) + Theirs(d, t, r, W, k)
        /\ Theirs(d, t, r, W, k) <= N
    BY <1>3, <1>4, RankParts
  <2>4. /\ Theirs(d, v, r, W, k) \in Nat /\ Theirs(d, v, r, W, k) <= N
        /\ Rank(d, v, r, k) = Others(d, v, r, W, k) + Theirs(d, v, r, W, k)
    BY <1>3, <1>4, RankParts
  <2> QED BY <2>1, <2>2, <2>3, <2>4
<1>6. N \in Nat
  BY <1>3, FS_CardinalityType
<1>7. ASSUME NEW k \in B, NEW l \in B, <<k, l>> \in Ordering(d, t, r)
      PROVE  u[k] < u[l] /\ w[k] <= w[l] /\ z[k] <= z[l]
  <2>1. u[k] < u[l] /\ w[k] <= w[l]
    <3>1. /\ Others(d, t, r, W, k) < Others(d, t, r, W, l)
          /\ Theirs(d, t, r, W, k) <= Theirs(d, t, r, W, l)
      BY <1>4, <1>7, RankParts
    <3> QED BY <1>2, <3>1
  <2>2. <<k, l>> \in Ordering(d, v, r)
    BY <1>4, <1>7, OthersStay
  <2>3. Theirs(d, v, r, W, k) <= Theirs(d, v, r, W, l)
    BY <1>4, <2>2, RankParts
  <2> QED BY <1>2, <2>1, <2>3
<1>8. \A k, l \in B : k # l => <<k, l>> \in Ordering(d, t, r) \/ <<l, k>> \in Ordering(d, t, r)
  BY <1>4, OrderFacts
<1>9. \A k, l \in B : u[k] = u[l] => k = l
  <2> SUFFICES ASSUME NEW k \in B, NEW l \in B, u[k] = u[l], k # l PROVE FALSE
    OBVIOUS
  <2>1. u[k] < u[l] \/ u[l] < u[k]
    BY <1>7, <1>8
  <2> QED BY <1>5, <2>1
<1>10. \A k, l \in B : u[k] < u[l] => w[k] <= w[l] /\ z[k] <= z[l]
  <2> SUFFICES ASSUME NEW k \in B, NEW l \in B, u[k] < u[l] PROVE w[k] <= w[l] /\ z[k] <= z[l]
    OBVIOUS
  <2>1. k # l /\ ~(u[l] < u[k])
    BY <1>5
  <2>2. <<k, l>> \in Ordering(d, t, r)
    BY <1>7, <1>8, <2>1
  <2> QED BY <1>7, <2>2
<1>11. \A k \in B : \/ b <= u[k] + w[k] /\ u[k] + z[k] < b
                    \/ u[k] + w[k] < c /\ c <= u[k] + z[k]
  BY <1>5 DEF Crosses
<1>12. u \in [B -> Nat] /\ w \in [B -> Nat] /\ z \in [B -> Nat]
  BY <1>2, <1>5
<1>13. \A k \in B : w[k] <= N /\ z[k] <= N
  BY <1>5
<1>14. Cardinality(B) <= N
  BY <1>1, <1>6, <1>9, <1>10, <1>11, <1>12, <1>13, MovesBounded
<1> QED BY <1>3, <1>14

LEMMA AtMostMore ==
  ASSUME NEW A, IsFiniteSet(A), NEW B, IsFiniteSet(B), NEW n \in Nat, Cardinality(B \ A) <= n
  PROVE  /\ Cardinality(B) <= Cardinality(A) + n
         /\ Cardinality(A) \in Nat /\ Cardinality(B) \in Nat
<1>1. IsFiniteSet(B \ A) /\ IsFiniteSet(B \cap A) /\ B = (B \ A) \cup (B \cap A)
  BY FS_Subset
<1>2. (B \ A) \cap (B \cap A) = {}
  OBVIOUS
<1>3. /\ Cardinality(B) = Cardinality(B \ A) + Cardinality(B \cap A)
      /\ Cardinality(B \ A) \in Nat /\ Cardinality(B \cap A) \in Nat
  BY <1>1, <1>2, DisjointUnion
<1>4. Cardinality(B \cap A) <= Cardinality(A) /\ Cardinality(A) \in Nat
  BY FS_Subset, FS_CardinalityType
<1> QED BY <1>3, <1>4

LEMMA AllAlike ==
  ASSUME NEW T, \A m, n \in T : m = n
  PROVE  IsFiniteSet(T) /\ Cardinality(T) \in Nat /\ Cardinality(T) <= 1
<1>1. CASE T = {}
  BY <1>1, FS_EmptySet
<1>2. ASSUME NEW x \in T PROVE IsFiniteSet(T) /\ Cardinality(T) \in Nat /\ Cardinality(T) <= 1
  <2>1. T = {x}
    BY <1>2
  <2> QED BY <2>1, FS_Singleton
<1> QED BY <1>1, <1>2

-----------------------------------------------------------------------------
(* The statement that reads a page *)

OrdersOf(d, t, r) ==
  {s \in SetToSeqs(MatchOf(d, t, r)) :
     \A m, n \in DOMAIN s : m < n => ~Less(KeyOf(d, t, s[n], r), KeyOf(d, t, s[m], r))}

LEMMA Statements ==
  ASSUME NEW t, NEW r
  PROVE  /\ Matching(t, r) = MatchOf(kind, t, r) /\ Orders(t, r) = OrdersOf(kind, t, r)
         /\ Requests = RequestsOf(kind)
<1>1. Matching(t, r) = MatchOf(kind, t, r)
  BY DEF Matching, MatchOf, Fits
<1>2. \A i : Key(t, i, r) = KeyOf(kind, t, i, r)
  BY DEF Key, KeyOf
<1>3. Orders(t, r) = OrdersOf(kind, t, r)
  BY <1>1, <1>2 DEF Orders, OrdersOf
<1> QED BY <1>1, <1>3 DEF Requests, RequestsOf

(* Two rows that tie can be listed in two orders. *)
LEMMA TieGivesTwo ==
  ASSUME NEW d \in Kinds, NEW t \in Tables(d), NEW r \in RequestsOf(d), NEW s \in OrdersOf(d, t, r),
         NEW a \in DOMAIN s, NEW b \in DOMAIN s, a # b,
         KeyOf(d, t, s[a], r) = KeyOf(d, t, s[b], r)
  PROVE  \E q \in OrdersOf(d, t, r) : q # s
<1>1. PICK M, N : M = MatchOf(d, t, r) /\ N = Cardinality(M)
  OBVIOUS
<1>2. IsFiniteSet(M) /\ s \in SetToSeqs(M)
  BY <1>1, Matches DEF OrdersOf
<1>3. /\ s \in [1 .. N -> M] /\ DOMAIN s = 1 .. N /\ N \in Nat
      /\ \A m, n \in DOMAIN s : s[m] = s[n] => m = n
  BY <1>1, <1>2, ListsAll
<1>4. PICK q : q = [n \in 1 .. N |-> IF n = a THEN s[b] ELSE IF n = b THEN s[a] ELSE s[n]]
  OBVIOUS
<1>5. q \in [1 .. N -> M] /\ DOMAIN q = 1 .. N
  BY <1>3, <1>4
<1>6. \A m, n \in 1 .. N : m # n => q[m] # q[n]
  BY <1>3, <1>4
<1>7. q \in SetToSeqs(M)
  BY <1>1, <1>5, <1>6 DEF SetToSeqs
<1>8. \A n \in 1 .. N : KeyOf(d, t, q[n], r) = KeyOf(d, t, s[n], r)
  BY <1>3, <1>4
<1>9. \A m, n \in 1 .. N : m < n => ~Less(KeyOf(d, t, s[n], r), KeyOf(d, t, s[m], r))
  BY <1>3 DEF OrdersOf
<1>10. \A m, n \in DOMAIN q : m < n => ~Less(KeyOf(d, t, q[n], r), KeyOf(d, t, q[m], r))
  BY <1>5, <1>8, <1>9
<1>11. q[a] # s[a]
  BY <1>3, <1>4
<1> QED BY <1>1, <1>7, <1>10, <1>11 DEF OrdersOf

(* Unless rows tie, a row comes at its rank. *)
LEMMA OrderIsByRank ==
  ASSUME NEW d \in Kinds, NEW t \in Tables(d), NEW r \in RequestsOf(d), NEW s \in OrdersOf(d, t, r),
         d = "workspace" \/ \A q \in OrdersOf(d, t, r) : q = s
  PROVE  /\ s \in Seq(MatchOf(d, t, r)) /\ Len(s) = Cardinality(MatchOf(d, t, r)) /\ Len(s) \in Nat
         /\ DOMAIN s = 1 .. Len(s)
         /\ \A n \in DOMAIN s : s[n] \in MatchOf(d, t, r) /\ Rank(d, t, r, s[n]) = n - 1
         /\ \A i \in MatchOf(d, t, r) : \E n \in DOMAIN s : s[n] = i
<1>1. PICK M, R : M = MatchOf(d, t, r) /\ R = Ordering(d, t, r)
  OBVIOUS
<1>2. IsFiniteSet(M) /\ s \in SetToSeqs(M)
  BY <1>1, Matches DEF OrdersOf
<1>3. /\ s \in Seq(M) /\ Len(s) = Cardinality(M) /\ Cardinality(M) \in Nat /\ DOMAIN s = 1 .. Cardinality(M)
      /\ \A n \in DOMAIN s : s[n] \in M
      /\ \A m, n \in DOMAIN s : s[m] = s[n] => m = n
      /\ \A x \in M : \E n \in DOMAIN s : s[n] = x
  BY <1>2, ListsAll
<1>4. \A m, n \in DOMAIN s : m # n => KeyOf(d, t, s[m], r) # KeyOf(d, t, s[n], r)
  <2> SUFFICES ASSUME NEW m \in DOMAIN s, NEW n \in DOMAIN s, m # n,
                      KeyOf(d, t, s[m], r) = KeyOf(d, t, s[n], r)
               PROVE  FALSE
    OBVIOUS
  <2>1. CASE d = "workspace"
    <3>1. s[m] \in M /\ s[n] \in M /\ s[m] # s[n]
      BY <1>3
    <3> QED BY <1>1, <2>1, <3>1, WorkspaceUntied
  <2>2. CASE \A q \in OrdersOf(d, t, r) : q = s
    BY <2>2, TieGivesTwo
  <2> QED BY <2>1, <2>2
<1>5. SortedBy(s, R)
  <2> SUFFICES ASSUME NEW m \in DOMAIN s, NEW n \in DOMAIN s, m < n, <<s[n], s[m]>> \in R PROVE FALSE
    BY DEF SortedBy
  <2>1. m # n /\ s[m] \in M /\ s[n] \in M
    BY <1>3
  <2>2. ~Less(KeyOf(d, t, s[n], r), KeyOf(d, t, s[m], r)) /\ KeyOf(d, t, s[m], r) # KeyOf(d, t, s[n], r)
    BY <1>4, <2>1 DEF OrdersOf
  <2>3. Before(d, t, r, s[n], s[m])
    BY <1>1, <2>1, OrderFacts
  <2> QED BY <2>2, <2>3 DEF Before
<1>6. ASSUME NEW n \in DOMAIN s PROVE Rank(d, t, r, s[n]) = n - 1
  <2>1. /\ \A x \in M : <<x, x>> \notin R
        /\ \A x, y \in M : <<x, y>> \in R => <<y, x>> \notin R
        /\ \A x, y \in M : x # y => <<x, y>> \in R \/ <<y, x>> \in R
    BY <1>1, OrderFacts
  <2>2. Cardinality({x \in M : <<x, s[n]>> \in R}) = n - 1
    BY <1>2, <1>5, <2>1, SortedRank
  <2>3. Earlier(d, t, r, s[n]) = {x \in M : <<x, s[n]>> \in R}
    BY <1>1 DEF Earlier
  <2> QED BY <2>2, <2>3 DEF Rank
<1> QED BY <1>1, <1>3, <1>6

LEMMA OffsetFacts ==
  ASSUME NEW r, r.size \in Nat \ {0}, NEW page \in Nat \ {0}
  PROVE  /\ Offset(r, page) \in Nat /\ Offset(r, page + 1) = Offset(r, page) + r.size
         /\ Offset(r, 1) = 0 /\ Offset(r, page + 1) \in Nat
<1>1. PICK p, n : p = page - 1 /\ n = r.size /\ p \in Nat /\ n \in Nat
  OBVIOUS
<1>2. p * n \in Nat /\ (p + 1) * n = p * n + n /\ 0 * n = 0
  BY <1>1
<1>3. Offset(r, page) = p * n /\ Offset(r, page + 1) = (p + 1) * n /\ Offset(r, 1) = 0 * n
  BY <1>1 DEF Offset
<1> QED BY <1>1, <1>2, <1>3

(* A page holds the rows with the ranks between two offsets. *)
LEMMA PageIsByRank ==
  ASSUME NEW d \in Kinds, NEW t \in Tables(d), NEW r \in RequestsOf(d), NEW s \in OrdersOf(d, t, r),
         d = "workspace" \/ \A q \in OrdersOf(d, t, r) : q = s, NEW page \in Nat \ {0}
  PROVE  LET ids == Page(s, r, page)  M == MatchOf(d, t, r)  o == Offset(r, page)
             c == Cardinality(M) IN
         /\ ids \in Seq(M)
         /\ Len(ids) = IF c <= o THEN 0 ELSE IF o + r.size < c THEN r.size ELSE c - o
         /\ \A n \in DOMAIN ids : ids[n] \in M /\ Rank(d, t, r, ids[n]) = o + n - 1
         /\ \A i \in M : (\E n \in DOMAIN ids : ids[n] = i)
                           <=> o <= Rank(d, t, r, i) /\ Rank(d, t, r, i) < Offset(r, page + 1)
<1>0. PICK M, o, c, z, ids : /\ M = MatchOf(d, t, r) /\ o = Offset(r, page) /\ c = Cardinality(M)
                             /\ z = r.size /\ ids = Page(s, r, page)
  OBVIOUS
<1>1. z \in Nat \ {0}
  BY <1>0, ListingAssumptions DEF RequestsOf, Kinds
<1>2. o \in Nat /\ Offset(r, page + 1) = o + z
  BY <1>0, <1>1, OffsetFacts
<1>3. /\ s \in Seq(M) /\ Len(s) = c /\ c \in Nat /\ DOMAIN s = 1 .. c
      /\ \A n \in DOMAIN s : s[n] \in M /\ Rank(d, t, r, s[n]) = n - 1
      /\ \A i \in M : \E n \in DOMAIN s : s[n] = i
  BY <1>0, OrderIsByRank
<1>4. PICK e \in Nat : e = IF o + z < c THEN o + z ELSE c
  BY <1>1, <1>2, <1>3
<1>5. ids = SubSeq(s, o + 1, e)
  BY <1>0, <1>3, <1>4 DEF Page
<1>6. \A i \in o + 1 .. e : s[i] \in M
  BY <1>2, <1>3, <1>4
<1>7. /\ ids \in Seq(M) /\ Len(ids) = (IF o + 1 <= e THEN e - (o + 1) + 1 ELSE 0)
      /\ \A n \in 1 .. e - (o + 1) + 1 : ids[n] = s[o + 1 + n - 1]
  <2>1. o + 1 \in Int /\ e \in Int
    BY <1>2, <1>4
  <2> QED BY <1>5, <1>6, <2>1, SubSeqProperties
<1>8. Len(ids) = (IF c <= o THEN 0 ELSE IF o + z < c THEN z ELSE c - o) /\ Len(ids) \in Nat
      /\ DOMAIN ids = 1 .. Len(ids)
  <2>1. Len(ids) = (IF o + 1 <= e THEN e - (o + 1) + 1 ELSE 0) /\ ids \in Seq(M)
    BY <1>7
  <2>2. PICK y : y = Len(ids)
    OBVIOUS
  <2>3. y = (IF o + 1 <= e THEN e - (o + 1) + 1 ELSE 0) /\ y \in Nat /\ DOMAIN ids = 1 .. y
    BY <2>1, <2>2
  <2>4. c \in Nat
    BY <1>3
  <2>5. y = (IF c <= o THEN 0 ELSE IF o + z < c THEN z ELSE c - o)
    <3>1. CASE c <= o
      BY <1>1, <1>2, <1>4, <2>3, <2>4, <3>1
    <3>2. CASE ~(c <= o) /\ o + z < c
      BY <1>1, <1>2, <1>4, <2>3, <2>4, <3>2
    <3>3. CASE ~(c <= o) /\ ~(o + z < c)
      BY <1>1, <1>2, <1>4, <2>3, <2>4, <3>3
    <3> QED BY <3>1, <3>2, <3>3
  <2> QED BY <2>2, <2>3, <2>5
<1>9. ASSUME NEW n \in DOMAIN ids
      PROVE  ids[n] \in M /\ Rank(d, t, r, ids[n]) = o + n - 1 /\ n \in Nat /\ n <= z
  <2>0. PICK w \in Nat : w = Len(ids) /\ w = (IF o + 1 <= e THEN e - (o + 1) + 1 ELSE 0)
    BY <1>7, <1>8
  <2>4. n \in 1 .. w /\ e <= c /\ e <= o + z
    BY <1>1, <1>2, <1>3, <1>4, <1>8, <2>0
  <2>5. o + 1 <= e /\ n \in Nat /\ n >= 1 /\ n <= e - o
    BY <1>2, <1>4, <2>0, <2>4
  <2>1. n \in 1 .. e - (o + 1) + 1 /\ o + n \in DOMAIN s /\ n \in Nat /\ n <= z
    <3>0. c \in Nat /\ e <= c /\ o \in Nat
      BY <1>2, <1>3, <2>4
    <3>1. o + n \in Nat /\ o + n >= 1 /\ o + n <= c
      BY <2>5, <3>0
    <3>2. n <= z
      BY <1>1, <1>2, <1>4, <2>4, <2>5
    <3>3. n \in 1 .. e - (o + 1) + 1
      BY <1>2, <1>4, <2>5
    <3> QED BY <1>3, <2>5, <3>1, <3>2, <3>3
  <2>2. ids[n] = s[o + n]
    BY <1>2, <1>7, <2>1
  <2>3. s[o + n] \in M /\ Rank(d, t, r, s[o + n]) = (o + n) - 1
    BY <1>3, <2>1
  <2> QED BY <1>2, <2>1, <2>2, <2>3
<1>10. ASSUME NEW i \in M
       PROVE  (\E n \in DOMAIN ids : ids[n] = i) <=> o <= Rank(d, t, r, i) /\ Rank(d, t, r, i) < o + z
  <2>1. ASSUME NEW n \in DOMAIN ids, ids[n] = i
        PROVE  o <= Rank(d, t, r, i) /\ Rank(d, t, r, i) < o + z
    <3>1. Rank(d, t, r, i) = o + n - 1 /\ n \in Nat /\ n <= z /\ n >= 1
      BY <1>8, <1>9, <2>1
    <3> QED BY <1>1, <1>2, <3>1
  <2>2. ASSUME o <= Rank(d, t, r, i), Rank(d, t, r, i) < o + z
        PROVE  \E n \in DOMAIN ids : ids[n] = i
    <3>1. PICK m \in DOMAIN s : s[m] = i
      BY <1>3
    <3>2. Rank(d, t, r, i) = m - 1 /\ m \in 1 .. c
      BY <1>3, <3>1
    <3>3. PICK n : n = m - o
      OBVIOUS
    <3>3a. PICK k : k = Rank(d, t, r, i)
      OBVIOUS
    <3>3b. k = m - 1 /\ o <= k /\ k < o + z /\ c \in Nat /\ m \in 1 .. c
      BY <1>3, <2>2, <3>2, <3>3a
    <3>4. n \in Nat /\ n >= 1 /\ n <= z /\ m <= e /\ m = o + n
      BY <1>1, <1>2, <1>4, <3>3, <3>3b
    <3>5. n \in 1 .. e - (o + 1) + 1
      BY <1>2, <1>4, <3>4
    <3>6. n \in DOMAIN ids
      <4>1. Len(ids) = (IF o + 1 <= e THEN e - (o + 1) + 1 ELSE 0) /\ DOMAIN ids = 1 .. Len(ids)
        BY <1>7, <1>8
      <4>2. o + 1 <= e
        BY <1>2, <1>4, <3>5
      <4>3. DOMAIN ids = 1 .. e - (o + 1) + 1
        BY <4>1, <4>2
      <4> QED BY <3>5, <4>3
    <3>7. ids[n] = s[o + 1 + n - 1] /\ o + 1 + n - 1 = m
      BY <1>2, <1>7, <3>4, <3>5
    <3> QED BY <3>1, <3>6, <3>7
  <2> QED BY <2>1, <2>2
<1> QED BY <1>0, <1>2, <1>7, <1>8, <1>9, <1>10

(* On the last page all rows that are counted are behind. *)
LEMMA LastPage ==
  ASSUME NEW r, r.size \in Nat \ {0}, NEW page \in Nat \ {0}, NEW count \in Nat,
         ~(page < TotalPages(count, r.size))
  PROVE  count <= Offset(r, page + 1)
<1>1. PICK z, q, a : z = r.size /\ a = count + z - 1 /\ q = a \div z
  OBVIOUS
<1>2. z \in Nat \ {0} /\ a \in Nat /\ q \in Int
  BY <1>1
<1>3. a < (q + 1) * z
  BY <1>1, <1>2
<1>4. q <= page
  BY <1>1, <1>2 DEF TotalPages
<1>5. q * z <= page * z
  BY <1>2, <1>4
<1>6. Offset(r, page + 1) = page * z
  BY <1>1 DEF Offset
<1>7. (q + 1) * z = q * z + z /\ q * z \in Int /\ page * z \in Int
  BY <1>2
<1> QED BY <1>1, <1>2, <1>3, <1>5, <1>6, <1>7

-----------------------------------------------------------------------------
(* The walk.  HasRows: the page has been read and not yet been answered. *)

HasRows == walk.pc = "answer" \/ (kind = "workspace" /\ walk.pc \in {"count", "summary"})
HasCount == walk.pc \in {"summary", "answer"} \/ (kind = "articles" /\ walk.pc = "rows")

Shaped ==
  /\ walk = [pc |-> walk.pc, request |-> walk.request, page |-> walk.page, seen |-> walk.seen,
             first |-> walk.first, shown |-> walk.shown, count |-> walk.count, summary |-> walk.summary]
  /\ answer = [rows |-> answer.rows, count |-> answer.count, summary |-> answer.summary]

TypeOK ==
  /\ kind \in Kinds /\ items \in Contents(kind) /\ priority \in PriorityColumns
  /\ table \in Tables(kind) /\ written \in Nat /\ Shaped
  /\ walk.pc \in {"idle", "rows", "count", "summary", "answer", "done"}
  /\ kind = "articles" => walk.pc # "summary"
  /\ walk.seen \in Seq(Ids(kind)) /\ walk.shown \in Seq(RowsOf(kind)) /\ walk.page \in Nat \ {0}
  /\ walk.pc = "idle" => walk.seen = <<>> /\ walk.page = 1 /\ touched = {}
  /\ walk.pc # "idle" => walk.request \in RequestsOf(kind) /\ IsFiniteSet(walk.first)
  /\ HasRows => answer.rows \in Seq(Ids(kind) \X RowsOf(kind))
  /\ HasCount => answer.count \in Nat

(* The rows that nobody wrote since the walk began are still listed. *)
Unwritten == walk.first \ touched
StillListed == walk.pc # "idle" => Unwritten \subseteq MatchOf(kind, table, walk.request)

Held(i) == HasRows /\ \E n \in DOMAIN answer.rows : answer.rows[n][1] = i
SeenBefore(i) == \E n \in DOMAIN walk.seen : walk.seen[n] = i
Seen(i) == SeenBefore(i) \/ Held(i)
Again(i) ==
  \/ \E m, n \in DOMAIN walk.seen : m # n /\ walk.seen[m] = i /\ walk.seen[n] = i
  \/ SeenBefore(i) /\ Held(i)

Reached == Offset(walk.request, IF HasRows THEN walk.page + 1 ELSE walk.page)
PlaceOf(i) == Rank(kind, table, walk.request, i)

(* Shown twice, or shown and no longer behind what is read *)
Repeats == {i \in Unwritten : Again(i) \/ (Seen(i) /\ Reached <= PlaceOf(i))}
(* Behind what is read and not shown *)
Skipped == {i \in Unwritten : ~Seen(i) /\ PlaceOf(i) < Reached}
Unseen == {i \in Unwritten : ~Seen(i)}
(* What the page to be read will not show *)
Outside == {i \in Unwritten : /\ ~Seen(i)
                              /\ \/ PlaceOf(i) < Offset(walk.request, walk.page)
                                 \/ Offset(walk.request, walk.page + 1) <= PlaceOf(i)}

OnLast == ~(walk.page < TotalPages(answer.count, walk.request.size))
Ended == walk.pc = "done" \/ (walk.pc \in {"summary", "answer"} /\ OnLast)
Ending == kind = "articles" /\ walk.pc = "rows" /\ OnLast

(* Every row written lets one be repeated and one be missed. *)
Drift ==
  \/ kind = "articles" /\ tied
  \/ /\ HasRows => \A m, n \in DOMAIN answer.rows : answer.rows[m][1] = answer.rows[n][1] => m = n
     /\ Cardinality(Repeats) <= written /\ Cardinality(Skipped) <= written
     /\ Ended => Cardinality(Unseen) <= written
     /\ Ending => Cardinality(Outside) <= written

WalkInv == TypeOK /\ StillListed /\ (walk.pc # "idle" => Drift)

LEMMA ListIds ==
  ASSUME NEW d \in Kinds
  PROVE  /\ IsFiniteSet(Ids(d)) /\ Ids(d) \subseteq Int
         /\ \A r \in RequestsOf(d) : r.size \in Nat \ {0}
BY ListingAssumptions DEF Ids, RequestsOf, Kinds

(* What the actions do to the walk *)
LEMMA BeginFields ==
  ASSUME TypeOK, NEW r, BeginWalk(r) \/ BeginArticleWalk(r)
  PROVE  /\ walk.pc = "idle" /\ walk'.pc = (IF kind = "workspace" THEN "rows" ELSE "count")
         /\ walk'.request = r /\ walk'.first = MatchOf(kind, table, r)
         /\ walk'.page = walk.page /\ walk'.seen = walk.seen /\ walk'.shown = walk.shown
         /\ UNCHANGED <<kind, items, priority, table, answer, touched, written, tied>> /\ Shaped'
<1>1. PICK w, v, pc, M : /\ w = walk /\ v = walk' /\ pc = (IF kind = "workspace" THEN "rows" ELSE "count")
                         /\ M = MatchOf(kind, table, r)
  OBVIOUS
<1>2. w = [pc |-> w.pc, request |-> w.request, page |-> w.page, seen |-> w.seen,
           first |-> w.first, shown |-> w.shown, count |-> w.count, summary |-> w.summary]
  BY <1>1 DEF TypeOK, Shaped
<1>3. v = [w EXCEPT !.pc = pc, !.request = r, !.first = M]
  BY <1>1, Statements DEF BeginWalk, BeginArticleWalk, StartWalk
<1>4. v = [pc |-> pc, request |-> r, page |-> w.page, seen |-> w.seen,
           first |-> M, shown |-> w.shown, count |-> w.count, summary |-> w.summary]
  BY <1>2, <1>3
<1>5. v = [pc |-> v.pc, request |-> v.request, page |-> v.page, seen |-> v.seen,
           first |-> v.first, shown |-> v.shown, count |-> v.count, summary |-> v.summary]
  BY <1>4
<1>6. v.pc = pc /\ v.request = r /\ v.first = M /\ v.page = w.page /\ v.seen = w.seen /\ v.shown = w.shown
  BY <1>4
<1>7. walk.pc = "idle" /\ UNCHANGED <<kind, items, priority, table, answer, touched, written, tied>>
  <2>1. walk.pc = "idle" /\ UNCHANGED <<kind, items, priority, answer, touched, written, tied>>
    BY DEF BeginWalk, BeginArticleWalk, StartWalk
  <2> QED BY <2>1, TableKept
<1> QED BY <1>1, <1>5, <1>6, <1>7 DEF TypeOK, Shaped

(* The steps of a request to the next statement *)
Moves(pc) ==
  /\ walk'.pc = pc /\ walk'.request = walk.request /\ walk'.first = walk.first
  /\ walk'.page = walk.page /\ walk'.seen = walk.seen /\ walk'.shown = walk.shown
  /\ UNCHANGED <<kind, items, priority, table, touched, written>> /\ Shaped'

LEMMA WalkMoves ==
  ASSUME TypeOK, NEW pc, walk' = [walk EXCEPT !.pc = pc], NEW a, NEW b, NEW c,
         answer' = [rows |-> a, count |-> b, summary |-> c],
         UNCHANGED <<kind, items, priority, touched, written>>
  PROVE  Moves(pc) /\ answer'.rows = a /\ answer'.count = b /\ answer'.summary = c
<1>1. PICK w, v, x : w = walk /\ v = walk' /\ x = answer'
  OBVIOUS
<1>2. w = [pc |-> w.pc, request |-> w.request, page |-> w.page, seen |-> w.seen,
           first |-> w.first, shown |-> w.shown, count |-> w.count, summary |-> w.summary]
  BY <1>1 DEF TypeOK, Shaped
<1>3. v = [w EXCEPT !.pc = pc]
  BY <1>1
<1>4. v = [pc |-> pc, request |-> w.request, page |-> w.page, seen |-> w.seen,
           first |-> w.first, shown |-> w.shown, count |-> w.count, summary |-> w.summary]
  BY <1>2, <1>3
<1>5. v = [pc |-> v.pc, request |-> v.request, page |-> v.page, seen |-> v.seen,
           first |-> v.first, shown |-> v.shown, count |-> v.count, summary |-> v.summary]
  BY <1>4
<1>6. /\ v.pc = pc /\ v.request = w.request /\ v.first = w.first /\ v.page = w.page
      /\ v.seen = w.seen /\ v.shown = w.shown
  BY <1>4
<1>7. x = [rows |-> a, count |-> b, summary |-> c]
  BY <1>1
<1>8. x = [rows |-> x.rows, count |-> x.count, summary |-> x.summary] /\ x.rows = a /\ x.count = b /\ x.summary = c
  BY <1>7
<1> QED BY <1>1, <1>5, <1>6, <1>8, TableKept DEF Moves, Shaped

LEMMA RowsFields ==
  ASSUME TypeOK, ReadRows
  PROVE  /\ walk.pc = "rows" /\ Moves(IF kind = "workspace" THEN "count" ELSE "answer")
         /\ answer'.count = answer.count /\ answer'.summary = answer.summary
         /\ tied' = (tied \/ \E s, q \in OrdersOf(kind, table, walk.request) : s # q)
         /\ \E s \in OrdersOf(kind, table, walk.request) :
              LET ids == Page(s, walk.request, walk.page) IN
              answer'.rows = [n \in DOMAIN ids |-> <<ids[n], table[ids[n]]>>]
<1>1. PICK s \in OrdersOf(kind, table, walk.request) :
        LET ids == Page(s, walk.request, walk.page) IN
        answer' = [answer EXCEPT !.rows = [n \in DOMAIN ids |-> <<ids[n], table[ids[n]]>>]]
  BY Statements DEF ReadRows
<1>2. PICK ids, a, x, y : /\ ids = Page(s, walk.request, walk.page)
                          /\ a = [n \in DOMAIN ids |-> <<ids[n], table[ids[n]]>>] /\ x = answer /\ y = answer'
  OBVIOUS
<1>3. x = [rows |-> x.rows, count |-> x.count, summary |-> x.summary] /\ y = [x EXCEPT !.rows = a]
  BY <1>1, <1>2 DEF TypeOK, Shaped
<1>4. y = [rows |-> a, count |-> x.count, summary |-> x.summary]
  BY <1>3
<1>5. answer' = [rows |-> a, count |-> answer.count, summary |-> answer.summary]
  BY <1>2, <1>4
<1>6. /\ walk.pc = "rows" /\ walk' = [walk EXCEPT !.pc = IF kind = "workspace" THEN "count" ELSE "answer"]
      /\ UNCHANGED <<kind, items, priority, touched, written>>
  BY DEF ReadRows
<1>7. Moves(IF kind = "workspace" THEN "count" ELSE "answer") /\ answer'.rows = a
      /\ answer'.count = answer.count /\ answer'.summary = answer.summary
  BY <1>5, <1>6, WalkMoves
<1>8. tied' = (tied \/ \E p, q \in OrdersOf(kind, table, walk.request) : p # q)
  BY Statements DEF ReadRows
<1> QED BY <1>2, <1>6, <1>7, <1>8

LEMMA CountFields ==
  ASSUME TypeOK, ReadCount
  PROVE  /\ walk.pc = "count" /\ Moves(IF kind = "workspace" THEN "summary" ELSE "rows") /\ tied' = tied
         /\ answer'.rows = answer.rows /\ answer'.summary = answer.summary
         /\ answer'.count = Cardinality(MatchOf(kind, table, walk.request))
<1>1. PICK n, x, y : n = Cardinality(MatchOf(kind, table, walk.request)) /\ x = answer /\ y = answer'
  OBVIOUS
<1>2. x = [rows |-> x.rows, count |-> x.count, summary |-> x.summary] /\ y = [x EXCEPT !.count = n]
  BY <1>1, Statements DEF ReadCount, TypeOK, Shaped
<1>3. y = [rows |-> x.rows, count |-> n, summary |-> x.summary]
  BY <1>2
<1>4. answer' = [rows |-> answer.rows, count |-> n, summary |-> answer.summary]
  BY <1>1, <1>3
<1>5. /\ walk.pc = "count" /\ walk' = [walk EXCEPT !.pc = IF kind = "workspace" THEN "summary" ELSE "rows"]
      /\ UNCHANGED <<kind, items, priority, touched, written>> /\ tied' = tied
  BY DEF ReadCount
<1> QED BY <1>1, <1>4, <1>5, WalkMoves

LEMMA SummaryFields ==
  ASSUME TypeOK, ReadSummary
  PROVE  /\ walk.pc = "summary" /\ Moves("answer") /\ tied' = tied
         /\ answer'.rows = answer.rows /\ answer'.count = answer.count
         /\ answer'.summary = Summary([i \in MatchOf(kind, table, walk.request) |-> table[i]])
<1>1. PICK n, x, y : /\ n = Summary([i \in MatchOf(kind, table, walk.request) |-> table[i]])
                     /\ x = answer /\ y = answer'
  OBVIOUS
<1>2. x = [rows |-> x.rows, count |-> x.count, summary |-> x.summary] /\ y = [x EXCEPT !.summary = n]
  BY <1>1, Statements DEF ReadSummary, TypeOK, Shaped
<1>3. y = [rows |-> x.rows, count |-> x.count, summary |-> n]
  BY <1>2
<1>4. answer' = [rows |-> answer.rows, count |-> answer.count, summary |-> n]
  BY <1>1, <1>3
<1>5. /\ walk.pc = "summary" /\ walk' = [walk EXCEPT !.pc = "answer"]
      /\ UNCHANGED <<kind, items, priority, touched, written>> /\ tied' = tied
  BY DEF ReadSummary
<1> QED BY <1>1, <1>4, <1>5, WalkMoves

LEMMA RespondFields ==
  ASSUME TypeOK, Respond
  PROVE  /\ walk.pc = "answer" /\ UNCHANGED <<kind, items, priority, table, touched, written, tied>> /\ Shaped'
         /\ walk'.request = walk.request /\ walk'.first = walk.first /\ walk'.page = walk.page + 1
         /\ walk'.seen = walk.seen \o [n \in DOMAIN answer.rows |-> answer.rows[n][1]]
         /\ walk'.shown = walk.shown \o [n \in DOMAIN answer.rows |-> answer.rows[n][2]]
         /\ walk'.count = answer.count /\ walk'.summary = answer.summary
         /\ walk'.pc = IF OnLast THEN "done" ELSE IF kind = "workspace" THEN "rows" ELSE "count"
<1>1. PICK w, v, ids, rows, pc, a : /\ w = walk /\ v = walk' /\ a = answer
        /\ ids = [n \in DOMAIN answer.rows |-> answer.rows[n][1]]
        /\ rows = [n \in DOMAIN answer.rows |-> answer.rows[n][2]]
        /\ pc = (IF OnLast THEN "done" ELSE IF kind = "workspace" THEN "rows" ELSE "count")
  OBVIOUS
<1>2. w = [pc |-> w.pc, request |-> w.request, page |-> w.page, seen |-> w.seen,
           first |-> w.first, shown |-> w.shown, count |-> w.count, summary |-> w.summary]
  BY <1>1 DEF TypeOK, Shaped
<1>3. v = [w EXCEPT !.seen = @ \o ids, !.shown = @ \o rows, !.count = a.count, !.summary = a.summary,
                    !.page = @ + 1, !.pc = pc]
  BY <1>1 DEF Respond, OnLast
<1>4. v = [pc |-> pc, request |-> w.request, page |-> w.page + 1, seen |-> w.seen \o ids,
           first |-> w.first, shown |-> w.shown \o rows, count |-> a.count, summary |-> a.summary]
  BY <1>2, <1>3
<1>5. v = [pc |-> v.pc, request |-> v.request, page |-> v.page, seen |-> v.seen,
           first |-> v.first, shown |-> v.shown, count |-> v.count, summary |-> v.summary]
  BY <1>4
<1>6. /\ v.pc = pc /\ v.request = w.request /\ v.first = w.first /\ v.page = w.page + 1
      /\ v.seen = w.seen \o ids /\ v.shown = w.shown \o rows /\ v.count = a.count /\ v.summary = a.summary
  BY <1>4
<1>7. /\ walk.pc = "answer" /\ UNCHANGED <<kind, items, priority, touched, written, tied>>
      /\ answer' = NoAnswer
  BY DEF Respond
<1>8. answer' = [rows |-> answer'.rows, count |-> answer'.count, summary |-> answer'.summary]
  BY <1>7 DEF NoAnswer
<1> QED BY <1>1, <1>5, <1>6, <1>7, <1>8, TableKept DEF Shaped

-----------------------------------------------------------------------------
(* Steps of the walk keep WalkInv. *)

LEMMA Fewer ==
  ASSUME NEW A, NEW B, IsFiniteSet(B), A \subseteq B, NEW w \in Nat, Cardinality(B) <= w
  PROVE  Cardinality(A) <= w
<1>1. Cardinality(A) <= Cardinality(B) /\ Cardinality(A) \in Nat /\ Cardinality(B) \in Nat
  BY FS_Subset, FS_CardinalityType
<1> QED BY <1>1

LEMMA PartsFinite ==
  ASSUME TypeOK, walk.pc # "idle"
  PROVE  /\ IsFiniteSet(Unwritten) /\ IsFiniteSet(Repeats) /\ IsFiniteSet(Skipped)
         /\ IsFiniteSet(Unseen) /\ IsFiniteSet(Outside)
<1>1. IsFiniteSet(Unwritten)
  BY FS_Subset DEF TypeOK, Unwritten
<1>2. /\ Repeats \subseteq Unwritten /\ Skipped \subseteq Unwritten
      /\ Unseen \subseteq Unwritten /\ Outside \subseteq Unwritten
  BY DEF Repeats, Skipped, Unseen, Outside
<1> QED BY <1>1, <1>2, FS_Subset

LEMMA WalkStarts == Init => WalkInv
<1> SUFFICES ASSUME Init PROVE WalkInv
  OBVIOUS
<1>1. PICK w, a : w = walk /\ a = answer
  OBVIOUS
<1>2. /\ w = [pc |-> "idle", request |-> None, page |-> 1, seen |-> <<>>, first |-> {},
              shown |-> <<>>, count |-> 0, summary |-> None]
      /\ a = [rows |-> None, count |-> None, summary |-> None]
  BY <1>1 DEF Init, IdleWalk, NoAnswer
<1>3. w = [pc |-> w.pc, request |-> w.request, page |-> w.page, seen |-> w.seen,
           first |-> w.first, shown |-> w.shown, count |-> w.count, summary |-> w.summary]
  BY <1>2
<1>4. a = [rows |-> a.rows, count |-> a.count, summary |-> a.summary]
  BY <1>2
<1>5. Shaped
  BY <1>1, <1>3, <1>4 DEF Shaped
<1>6. walk.pc = "idle" /\ walk.page = 1 /\ walk.seen = <<>> /\ walk.shown = <<>>
  BY <1>1, <1>2
<1>7. /\ kind \in Kinds /\ table \in Tables(kind) /\ written \in Nat /\ touched = {}
      /\ items \in Contents(kind) /\ priority \in PriorityColumns
  <2>1. kind \in Kinds /\ written \in Nat /\ touched = {}
    BY DEF Init, Kinds
  <2>2. QuestionRows \subseteq Questions /\ ArticleRows \subseteq Articles /\ Priorities \subseteq PriorityColumns
    BY ListingAssumptions
  <2>3. items \in Contents(kind) /\ priority \in PriorityColumns
    BY <2>2 DEF Init, Contents, Ids, Stored
  <2> QED BY <2>1, <2>3, ViewTyped, TableIsView
<1>8. TypeOK
  BY <1>5, <1>6, <1>7 DEF TypeOK, HasRows, HasCount
<1> QED BY <1>6, <1>8 DEF WalkInv, StillListed

LEMMA BeginKeeps ==
  ASSUME WalkInv, NEW request \in Requests,
         BeginWalk(request) \/ BeginArticleWalk(request)
  PROVE  WalkInv'
<1>0. TypeOK /\ request \in RequestsOf(kind)
  BY Statements DEF WalkInv
<1>1. /\ walk.pc = "idle" /\ walk'.pc = (IF kind = "workspace" THEN "rows" ELSE "count")
      /\ walk'.request = request /\ walk'.first = MatchOf(kind, table, request)
      /\ walk'.page = walk.page /\ walk'.seen = walk.seen /\ walk'.shown = walk.shown
      /\ UNCHANGED <<kind, items, priority, table, answer, touched, written, tied>> /\ Shaped'
  BY <1>0, BeginFields
<1>2. /\ kind \in Kinds /\ table \in Tables(kind) /\ written \in Nat
      /\ walk.seen = <<>> /\ walk.page = 1 /\ touched = {} /\ walk.shown \in Seq(RowsOf(kind))
  BY <1>0, <1>1 DEF TypeOK
<1>3. IsFiniteSet(MatchOf(kind, table, request))
  BY <1>2, Matches
<1>4. ~HasRows' /\ ~HasCount' /\ ~Ended' /\ ~Ending' /\ walk'.pc # "idle" /\ walk'.pc # "summary"
  BY <1>1, <1>2 DEF HasRows, HasCount, Ended, Ending, Kinds
<1>5. TypeOK'
  <2>1. walk'.seen \in Seq(Ids(kind))
    BY <1>1, <1>2
  <2> QED BY <1>0, <1>1, <1>2, <1>3, <1>4, <2>1 DEF TypeOK
<1>6. Unwritten' = MatchOf(kind, table, request)
  BY <1>1, <1>2 DEF Unwritten
<1>7. StillListed'
  BY <1>1, <1>6 DEF StillListed
<1>8. Reached' = 0
  <2>1. Offset(request, 1) = 0
    BY <1>0, <1>2, ListIds, OffsetFacts
  <2> QED BY <1>1, <1>2, <1>4, <2>1 DEF Reached
<1>9. \A i \in Unwritten' : PlaceOf(i)' \in Nat
  <2>1. \A i \in MatchOf(kind, table, request) : Rank(kind, table, request, i) \in Nat
    BY <1>0, <1>2, RankFacts
  <2> QED BY <1>1, <1>6, <2>1 DEF PlaceOf
<1>10. \A i : ~Seen(i)' /\ ~Again(i)'
  <2>1. walk'.seen = <<>>
    BY <1>1, <1>2
  <2> QED BY <1>4, <2>1 DEF Seen, Again, SeenBefore, Held
<1>11. Repeats' = {}
  BY <1>10 DEF Repeats
<1>12. Skipped' = {}
  BY <1>8, <1>9 DEF Skipped
<1>13. Drift'
  <2>1. Cardinality({}) = 0
    BY FS_EmptySet
  <2> QED BY <1>1, <1>2, <1>4, <1>11, <1>12, <2>1 DEF Drift
<1> QED BY <1>5, <1>7, <1>13 DEF WalkInv

(* What a statement leaves as it was *)
LEMMA MovesKeep ==
  ASSUME WalkInv, walk.pc # "idle", NEW pc, Moves(pc), pc # "idle"
  PROVE  /\ Unwritten' = Unwritten /\ StillListed' /\ Unwritten \subseteq MatchOf(kind, table, walk.request)
         /\ \A i : /\ SeenBefore(i)' <=> SeenBefore(i)
                   /\ PlaceOf(i)' = PlaceOf(i)
         /\ kind' = kind /\ written' = written
         /\ \A i \in Unwritten : /\ PlaceOf(i) \in Nat
                                 /\ PlaceOf(i) < Cardinality(MatchOf(kind, table, walk.request))
<1>1. /\ walk'.pc = pc /\ walk'.request = walk.request /\ walk'.first = walk.first
      /\ walk'.page = walk.page /\ walk'.seen = walk.seen
      /\ kind' = kind /\ table' = table /\ touched' = touched /\ written' = written
  BY DEF Moves
<1>2. Unwritten' = Unwritten
  BY <1>1 DEF Unwritten
<1>3. Unwritten \subseteq MatchOf(kind, table, walk.request)
  BY DEF WalkInv, StillListed
<1>4. StillListed'
  BY <1>1, <1>2, <1>3 DEF StillListed
<1>5. \A i : PlaceOf(i)' = PlaceOf(i)
  BY <1>1 DEF PlaceOf
<1>6. \A i : SeenBefore(i)' <=> SeenBefore(i)
  BY <1>1 DEF SeenBefore
<1>7. \A i \in Unwritten : /\ PlaceOf(i) \in Nat
                           /\ PlaceOf(i) < Cardinality(MatchOf(kind, table, walk.request))
  <2>1. kind \in Kinds /\ table \in Tables(kind) /\ walk.request \in RequestsOf(kind)
    BY DEF WalkInv, TypeOK
  <2> QED BY <1>3, <2>1, RankFacts DEF PlaceOf
<1> QED BY <1>1, <1>2, <1>3, <1>4, <1>5, <1>6, <1>7

LEMMA MovesTyped ==
  ASSUME TypeOK, walk.pc # "idle", NEW pc \in {"rows", "count", "summary", "answer"}, Moves(pc),
         kind = "articles" => pc # "summary",
         HasRows' => answer'.rows \in Seq(Ids(kind) \X RowsOf(kind)), HasCount' => answer'.count \in Nat
  PROVE  TypeOK'
BY DEF TypeOK, Moves

LEMMA WalkOffsets ==
  ASSUME TypeOK, walk.pc # "idle"
  PROVE  LET o == Offset(walk.request, walk.page)  e == Offset(walk.request, walk.page + 1) IN
         /\ o \in Nat /\ e \in Nat /\ o <= e /\ e = o + walk.request.size /\ walk.request.size \in Nat \ {0}
<1>1. kind \in Kinds /\ walk.request \in RequestsOf(kind) /\ walk.page \in Nat \ {0}
  BY DEF TypeOK
<1>2. PICK r, p : r = walk.request /\ p = walk.page
  OBVIOUS
<1>3. r.size \in Nat \ {0} /\ p \in Nat \ {0}
  BY <1>1, <1>2, ListIds
<1>4. Offset(r, p) \in Nat /\ Offset(r, p + 1) = Offset(r, p) + r.size /\ Offset(r, p + 1) \in Nat
  BY <1>3, OffsetFacts
<1>5. Offset(r, p) <= Offset(r, p + 1)
  BY <1>3, <1>4
<1> QED BY <1>2, <1>3, <1>4, <1>5

(* A function on 1 .. n is a sequence *)
LEMMA SequenceOf ==
  ASSUME NEW A, NEW n \in Nat, NEW f \in [1 .. n -> A]
  PROVE  f \in Seq(A)
OBVIOUS

(* A page of any order: rows of the table *)
LEMMA PageRows ==
  ASSUME NEW d \in Kinds, NEW t \in Tables(d), NEW r \in RequestsOf(d), NEW s \in OrdersOf(d, t, r),
         NEW page \in Nat \ {0}
  PROVE  LET ids == Page(s, r, page) IN
         [n \in DOMAIN ids |-> <<ids[n], t[ids[n]]>>] \in Seq(Ids(d) \X RowsOf(d))
<1>1. PICK M : M = MatchOf(d, t, r)
  OBVIOUS
<1>2. s \in Seq(M)
  <2>1. IsFiniteSet(M) /\ s \in SetToSeqs(M)
    BY <1>1, Matches DEF OrdersOf
  <2> QED BY <2>1, ListsAll
<1>3. r.size \in Nat \ {0}
  BY ListIds
<1>4. PICK o, e : o = Offset(r, page) /\ e = IF o + r.size < Len(s) THEN o + r.size ELSE Len(s)
  OBVIOUS
<1>5. o \in Nat /\ e \in Nat /\ Len(s) \in Nat /\ e <= Len(s)
  <2>1. o \in Nat
    BY <1>3, <1>4, OffsetFacts
  <2>2. Len(s) \in Nat
    BY <1>2
  <2> QED BY <1>3, <1>4, <2>1, <2>2
<1>6. PICK ids : ids = Page(s, r, page)
  OBVIOUS
<1>7. ids = SubSeq(s, o + 1, e)
  BY <1>4, <1>6 DEF Page
<1>8. ids \in Seq(M)
  BY <1>2, <1>5, <1>7
<1>9. \A n \in DOMAIN ids : ids[n] \in Ids(d) /\ t[ids[n]] \in RowsOf(d)
  BY <1>1, <1>8, Matches
<1>10. PICK k \in Nat : DOMAIN ids = 1 .. k
  <2>1. DOMAIN ids = 1 .. Len(ids) /\ Len(ids) \in Nat
    BY <1>8
  <2> QED BY <2>1
<1>11. [n \in DOMAIN ids |-> <<ids[n], t[ids[n]]>>] \in [1 .. k -> Ids(d) \X RowsOf(d)]
  BY <1>9, <1>10
<1>12. [n \in DOMAIN ids |-> <<ids[n], t[ids[n]]>>] \in Seq(Ids(d) \X RowsOf(d))
  BY <1>11, SequenceOf
<1> QED BY <1>6, <1>12

LEMMA RowsKeep ==
  ASSUME WalkInv, ReadRows
  PROVE  WalkInv'
<1>0. TypeOK
  BY DEF WalkInv
<1>1. /\ walk.pc = "rows" /\ Moves(IF kind = "workspace" THEN "count" ELSE "answer")
      /\ answer'.count = answer.count /\ answer'.summary = answer.summary
      /\ tied' = (tied \/ \E s, q \in OrdersOf(kind, table, walk.request) : s # q)
      /\ \E s \in OrdersOf(kind, table, walk.request) :
           LET ids == Page(s, walk.request, walk.page) IN
           answer'.rows = [n \in DOMAIN ids |-> <<ids[n], table[ids[n]]>>]
  BY <1>0, RowsFields
<1>2. PICK s \in OrdersOf(kind, table, walk.request) :
        LET ids == Page(s, walk.request, walk.page) IN
        answer'.rows = [n \in DOMAIN ids |-> <<ids[n], table[ids[n]]>>]
  BY <1>1
<1>3. PICK d, t, r, page, ids, M, o, e :
        /\ d = kind /\ t = table /\ r = walk.request /\ page = walk.page
        /\ ids = Page(s, r, page) /\ M = MatchOf(d, t, r)
        /\ o = Offset(r, page) /\ e = Offset(r, page + 1)
  OBVIOUS
<1>4. /\ d \in Kinds /\ t \in Tables(d) /\ r \in RequestsOf(d) /\ page \in Nat \ {0}
      /\ s \in OrdersOf(d, t, r) /\ written \in Nat
  BY <1>0, <1>1, <1>2, <1>3 DEF TypeOK
<1>5. o \in Nat /\ e \in Nat /\ o <= e /\ e = o + r.size
  BY <1>0, <1>1, <1>3, WalkOffsets
<1>6. answer'.rows = [n \in DOMAIN ids |-> <<ids[n], t[ids[n]]>>]
  BY <1>2, <1>3
<1>7. answer'.rows \in Seq(Ids(d) \X RowsOf(d))
  <2>1. [n \in DOMAIN Page(s, r, page) |-> <<Page(s, r, page)[n], t[Page(s, r, page)[n]]>>]
          \in Seq(Ids(d) \X RowsOf(d))
    BY <1>4, PageRows
  <2> QED BY <1>3, <1>6, <2>1
<1>8. PICK pc \in {"count", "answer"} : pc = IF d = "workspace" THEN "count" ELSE "answer"
  OBVIOUS
<1>9. Moves(pc) /\ walk'.pc = pc /\ walk'.request = r /\ walk'.page = page /\ kind' = d
  BY <1>1, <1>3, <1>8 DEF Moves
<1>10. HasRows' /\ ~HasRows /\ ~Ending'
  BY <1>1, <1>3, <1>4, <1>8, <1>9 DEF HasRows, Ending, Kinds
<1>11. TypeOK'
  <2>1. HasCount' => answer'.count \in Nat
    <3>1. HasCount' => HasCount
      BY <1>1, <1>3, <1>4, <1>8, <1>9 DEF HasCount, Kinds
    <3> QED BY <1>0, <1>1, <3>1 DEF TypeOK
  <2> QED BY <1>0, <1>1, <1>3, <1>7, <1>8, <1>9, <2>1, MovesTyped
<1>12. /\ Unwritten' = Unwritten /\ StillListed' /\ Unwritten \subseteq M
       /\ \A i : (SeenBefore(i)' <=> SeenBefore(i)) /\ PlaceOf(i)' = PlaceOf(i)
       /\ written' = written /\ \A i \in Unwritten : PlaceOf(i) \in Nat
  BY <1>1, <1>3, <1>8, <1>9, MovesKeep
<1>13. CASE d = "articles" /\ tied'
  BY <1>9, <1>11, <1>12, <1>13 DEF WalkInv, Drift
<1>14. CASE ~(d = "articles" /\ tied')
  <2>1. d = "workspace" \/ \A q \in OrdersOf(d, t, r) : q = s
    BY <1>1, <1>3, <1>4, <1>14 DEF Kinds
  <2>2. /\ \A n \in DOMAIN ids : ids[n] \in M /\ Rank(d, t, r, ids[n]) = o + n - 1
        /\ \A i \in M : (\E n \in DOMAIN ids : ids[n] = i)
                           <=> o <= Rank(d, t, r, i) /\ Rank(d, t, r, i) < e
        /\ ids \in Seq(M)
    BY <1>3, <1>4, <1>5, <2>1, PageIsByRank
  <2>3. ~(kind = "articles" /\ tied)
    BY <1>1, <1>3, <1>14
  <2>4. Drift
    BY <1>1 DEF WalkInv
  <2>5. \A i \in Unwritten : Held(i)' <=> o <= PlaceOf(i) /\ PlaceOf(i) < e
    <3>1. \A i : Held(i)' <=> \E n \in DOMAIN ids : ids[n] = i
      BY <1>6, <1>10 DEF Held
    <3> QED BY <1>3, <1>12, <2>2, <3>1 DEF PlaceOf
  <2>6. \A i : ~Held(i)
    BY <1>10 DEF Held
  <2>7. Reached = o /\ Reached' = e
    BY <1>3, <1>9, <1>10 DEF Reached
  <2>8. \A i : Again(i)' => Again(i) \/ (SeenBefore(i) /\ Held(i)')
    <3>1. walk'.seen = walk.seen
      BY <1>9 DEF Moves
    <3> QED BY <1>12, <3>1 DEF Again
  <2>9. Repeats' \subseteq Repeats
    <3> SUFFICES ASSUME NEW i \in Repeats' PROVE i \in Repeats
      OBVIOUS
    <3>1. i \in Unwritten /\ (Again(i)' \/ (Seen(i)' /\ e <= PlaceOf(i)))
      BY <1>12, <2>7 DEF Repeats
    <3>2. PICK k \in Nat : k = PlaceOf(i)
      BY <1>12, <3>1
    <3>3. (Held(i)' <=> o <= k /\ k < e) /\ (Seen(i)' <=> SeenBefore(i) \/ Held(i)') /\ (Seen(i) <=> SeenBefore(i))
      BY <1>12, <2>5, <2>6, <3>1, <3>2 DEF Seen
    <3>4. Again(i) \/ (Seen(i) /\ o <= k)
      BY <1>5, <2>8, <3>1, <3>2, <3>3
    <3> QED BY <2>7, <3>1, <3>2, <3>4 DEF Repeats
  <2>10. Skipped' \subseteq Skipped
    <3> SUFFICES ASSUME NEW i \in Skipped' PROVE i \in Skipped
      OBVIOUS
    <3>1. i \in Unwritten /\ ~Seen(i)' /\ PlaceOf(i) < e
      BY <1>12, <2>7 DEF Skipped
    <3>2. PICK k \in Nat : k = PlaceOf(i)
      BY <1>12, <3>1
    <3>3. (Held(i)' <=> o <= k /\ k < e) /\ (Seen(i)' <=> SeenBefore(i) \/ Held(i)') /\ (Seen(i) <=> SeenBefore(i))
      BY <1>12, <2>5, <2>6, <3>1, <3>2 DEF Seen
    <3>4. ~Seen(i) /\ k < o
      BY <1>5, <3>1, <3>2, <3>3
    <3> QED BY <2>7, <3>1, <3>2, <3>4 DEF Skipped
  <2>11. ASSUME Ended' PROVE Cardinality(Unseen') <= written
    <3>1. Ending
      BY <1>1, <1>3, <1>4, <1>8, <1>9, <2>11 DEF Ended, Ending, OnLast, Kinds
    <3>2. Unseen' \subseteq Outside
      <4> SUFFICES ASSUME NEW i \in Unseen' PROVE i \in Outside
        OBVIOUS
      <4>1. i \in Unwritten /\ ~Seen(i)'
        BY <1>12 DEF Unseen
      <4>2. PICK k \in Nat : k = PlaceOf(i)
        BY <1>12, <4>1
      <4>3. (Held(i)' <=> o <= k /\ k < e) /\ (Seen(i)' <=> SeenBefore(i) \/ Held(i)') /\ (Seen(i) <=> SeenBefore(i))
        BY <1>12, <2>5, <2>6, <4>1, <4>2 DEF Seen
      <4>4. ~Seen(i) /\ (k < o \/ e <= k)
        BY <1>5, <4>1, <4>3
      <4> QED BY <1>3, <4>1, <4>2, <4>4 DEF Outside
    <3>3. Cardinality(Outside) <= written /\ IsFiniteSet(Outside)
      BY <1>0, <1>1, <2>3, <2>4, <3>1, PartsFinite DEF Drift
    <3> QED BY <1>4, <3>2, <3>3, Fewer
  <2>12. \A m, n \in DOMAIN answer'.rows : answer'.rows[m][1] = answer'.rows[n][1] => m = n
    <3>1. \A m, n \in DOMAIN ids : ids[m] = ids[n] => m = n
      <4> SUFFICES ASSUME NEW m \in DOMAIN ids, NEW n \in DOMAIN ids, ids[m] = ids[n] PROVE m = n
        OBVIOUS
      <4>1. o + m - 1 = o + n - 1
        BY <2>2
      <4>2. m \in Nat /\ n \in Nat
        BY <2>2
      <4> QED BY <1>5, <4>1, <4>2
    <3> QED BY <1>6, <3>1
  <2>13. Cardinality(Repeats') <= written /\ Cardinality(Skipped') <= written
    <3>1. /\ Cardinality(Repeats) <= written /\ Cardinality(Skipped) <= written
          /\ IsFiniteSet(Repeats) /\ IsFiniteSet(Skipped)
      BY <1>0, <1>1, <2>3, <2>4, PartsFinite DEF Drift
    <3> QED BY <1>4, <2>9, <2>10, <3>1, Fewer
  <2>14. Drift'
    BY <1>10, <1>12, <2>11, <2>12, <2>13 DEF Drift
  <2> QED BY <1>11, <1>12, <2>14 DEF WalkInv
<1> QED BY <1>13, <1>14

LEMMA CountKeeps ==
  ASSUME WalkInv, ReadCount
  PROVE  WalkInv'
<1>0. TypeOK
  BY DEF WalkInv
<1>1. /\ walk.pc = "count" /\ Moves(IF kind = "workspace" THEN "summary" ELSE "rows") /\ tied' = tied
      /\ answer'.rows = answer.rows /\ answer'.count = Cardinality(MatchOf(kind, table, walk.request))
  BY <1>0, CountFields
<1>2. PICK d, r, page, c, o, e :
        /\ d = kind /\ r = walk.request /\ page = walk.page /\ c = Cardinality(MatchOf(kind, table, r))
        /\ o = Offset(r, page) /\ e = Offset(r, page + 1)
  OBVIOUS
<1>3. d \in Kinds /\ r \in RequestsOf(d) /\ page \in Nat \ {0} /\ r.size \in Nat \ {0} /\ written \in Nat
  BY <1>0, <1>1, <1>2, ListIds DEF TypeOK
<1>4. c \in Nat
  BY <1>0, <1>2, Matches, FS_CardinalityType DEF TypeOK
<1>5. o \in Nat /\ e \in Nat /\ o <= e
  BY <1>0, <1>1, <1>2, WalkOffsets
<1>6. PICK pc \in {"summary", "rows"} : pc = IF d = "workspace" THEN "summary" ELSE "rows"
  OBVIOUS
<1>7. /\ Moves(pc) /\ walk'.pc = pc /\ walk'.request = r /\ walk'.page = page /\ kind' = d
      /\ walk'.seen = walk.seen /\ answer'.count = c
  BY <1>1, <1>2, <1>6 DEF Moves
<1>8. (HasRows' <=> d = "workspace") /\ (HasRows <=> d = "workspace")
  BY <1>1, <1>2, <1>3, <1>6, <1>7 DEF HasRows, Kinds
<1>9. TypeOK'
  <2>1. HasRows' => answer'.rows \in Seq(Ids(kind) \X RowsOf(kind))
    BY <1>0, <1>1, <1>8 DEF TypeOK
  <2> QED BY <1>0, <1>1, <1>2, <1>4, <1>6, <1>7, <2>1, MovesTyped
<1>10. /\ Unwritten' = Unwritten /\ StillListed'
       /\ \A i : (SeenBefore(i)' <=> SeenBefore(i)) /\ PlaceOf(i)' = PlaceOf(i)
       /\ written' = written /\ \A i \in Unwritten : PlaceOf(i) \in Nat /\ PlaceOf(i) < c
  BY <1>1, <1>2, <1>6, <1>7, MovesKeep
<1>11. CASE d = "articles" /\ tied'
  BY <1>7, <1>9, <1>10, <1>11 DEF WalkInv, Drift
<1>12. CASE ~(d = "articles" /\ tied')
  <2>1. Drift /\ ~(kind = "articles" /\ tied)
    BY <1>1, <1>2, <1>12 DEF WalkInv
  <2>2. \A i : Held(i)' <=> Held(i)
    BY <1>1, <1>8 DEF Held
  <2>3. \A i : (Seen(i)' <=> Seen(i)) /\ (Again(i)' <=> Again(i))
    <3>1. \A i : Seen(i)' <=> Seen(i)
      BY <1>10, <2>2 DEF Seen
    <3>2. \A i : Again(i)' <=> Again(i)
      BY <1>7, <1>10, <2>2 DEF Again
    <3> QED BY <3>1, <3>2
  <2>4. Reached' = Reached /\ Reached = IF d = "workspace" THEN e ELSE o
    BY <1>2, <1>7, <1>8 DEF Reached
  <2>5. Repeats' = Repeats /\ Skipped' = Skipped
    BY <1>10, <2>3, <2>4 DEF Repeats, Skipped
  <2>6. /\ Cardinality(Repeats) <= written /\ Cardinality(Skipped) <= written /\ IsFiniteSet(Skipped)
        /\ HasRows => \A m, n \in DOMAIN answer.rows : answer.rows[m][1] = answer.rows[n][1] => m = n
    BY <1>0, <1>1, <2>1, PartsFinite DEF Drift
  <2>7. ASSUME OnLast' PROVE c <= e
    <3>1. ~(page < TotalPages(c, r.size))
      BY <1>7, <2>7 DEF OnLast
    <3> QED BY <1>2, <1>3, <1>4, <3>1, LastPage
  <2>8. ASSUME Ended' PROVE Cardinality(Unseen') <= written
    <3>1. d = "workspace" /\ OnLast'
      BY <1>6, <1>7, <2>8 DEF Ended
    <3>2. Unseen' \subseteq Skipped
      <4> SUFFICES ASSUME NEW i \in Unseen' PROVE i \in Skipped
        OBVIOUS
      <4>1. i \in Unwritten /\ ~Seen(i)
        BY <1>10, <2>3 DEF Unseen
      <4>2. PICK k \in Nat : k = PlaceOf(i)
        BY <1>10, <4>1
      <4>3. k < c /\ c <= e
        BY <1>10, <2>7, <3>1, <4>1, <4>2
      <4>4. k < e
        BY <1>4, <1>5, <4>3
      <4> QED BY <2>4, <3>1, <4>1, <4>2, <4>4 DEF Skipped
    <3> QED BY <1>3, <2>6, <3>2, Fewer
  <2>9. ASSUME Ending' PROVE Cardinality(Outside') <= written
    <3>1. d = "articles" /\ OnLast'
      BY <1>6, <1>7, <2>9 DEF Ending
    <3>2. Outside' \subseteq Skipped
      <4> SUFFICES ASSUME NEW i \in Outside' PROVE i \in Skipped
        OBVIOUS
      <4>1. i \in Unwritten /\ ~Seen(i) /\ (PlaceOf(i) < o \/ e <= PlaceOf(i))
        BY <1>2, <1>7, <1>10, <2>3 DEF Outside
      <4>2. PICK k \in Nat : k = PlaceOf(i)
        BY <1>10, <4>1
      <4>3. k < c /\ c <= e /\ (k < o \/ e <= k)
        BY <1>10, <2>7, <3>1, <4>1, <4>2
      <4>4. k < o
        BY <1>4, <1>5, <4>3
      <4> QED BY <2>4, <3>1, <4>1, <4>2, <4>4 DEF Skipped
    <3> QED BY <1>3, <2>6, <3>2, Fewer
  <2>10. HasRows' => \A m, n \in DOMAIN answer'.rows : answer'.rows[m][1] = answer'.rows[n][1] => m = n
    BY <1>1, <1>8, <2>6
  <2>11. Drift'
    BY <1>10, <2>5, <2>6, <2>8, <2>9, <2>10 DEF Drift
  <2> QED BY <1>9, <1>10, <2>11 DEF WalkInv
<1> QED BY <1>11, <1>12

LEMMA SummaryKeeps ==
  ASSUME WalkInv, ReadSummary
  PROVE  WalkInv'
<1>0. TypeOK
  BY DEF WalkInv
<1>1. /\ walk.pc = "summary" /\ Moves("answer") /\ tied' = tied
      /\ answer'.rows = answer.rows /\ answer'.count = answer.count
  BY <1>0, SummaryFields
<1>2. /\ walk'.pc = "answer" /\ walk'.request = walk.request /\ walk'.page = walk.page /\ kind' = kind
      /\ walk'.seen = walk.seen
  BY <1>1 DEF Moves
<1>3. kind = "workspace" /\ HasRows /\ HasRows' /\ HasCount
  BY <1>0, <1>1, <1>2 DEF TypeOK, Kinds, HasRows, HasCount
<1>4. TypeOK'
  <2>1. answer'.rows \in Seq(Ids(kind) \X RowsOf(kind)) /\ answer'.count \in Nat
    BY <1>0, <1>1, <1>3 DEF TypeOK
  <2> QED BY <1>0, <1>1, <2>1, MovesTyped
<1>5. /\ Unwritten' = Unwritten /\ StillListed' /\ written' = written
      /\ \A i : (SeenBefore(i)' <=> SeenBefore(i)) /\ PlaceOf(i)' = PlaceOf(i)
  BY <1>1, MovesKeep
<1>6. \A i : Held(i)' <=> Held(i)
  BY <1>1, <1>3 DEF Held
<1>7. \A i : Seen(i)' <=> Seen(i)
  BY <1>5, <1>6 DEF Seen
<1>8. \A i : Again(i)' <=> Again(i)
  BY <1>2, <1>5, <1>6 DEF Again
<1>9. Reached' = Reached
  BY <1>2, <1>3 DEF Reached
<1>10. Repeats' = Repeats /\ Skipped' = Skipped /\ Unseen' = Unseen
  BY <1>5, <1>7, <1>8, <1>9 DEF Repeats, Skipped, Unseen
<1>11. ~Ending' /\ (Ended' => Ended)
  BY <1>1, <1>2, <1>3 DEF Ending, Ended, OnLast
<1>12. Drift
  BY <1>1 DEF WalkInv
<1>13. Drift'
  BY <1>1, <1>3, <1>2, <1>5, <1>10, <1>11, <1>12 DEF Drift
<1> QED BY <1>4, <1>5, <1>13 DEF WalkInv

(* What a list says of each item when another is appended *)
LEMMA Appended ==
  ASSUME NEW S, NEW s \in Seq(S), NEW q \in Seq(S)
  PROVE  /\ s \o q \in Seq(S) /\ Len(s \o q) = Len(s) + Len(q)
         /\ DOMAIN s = 1 .. Len(s) /\ DOMAIN q = 1 .. Len(q) /\ Len(s) \in Nat /\ Len(q) \in Nat
         /\ DOMAIN (s \o q) = 1 .. Len(s) + Len(q)
         /\ \A n \in 1 .. Len(s) : n \in DOMAIN (s \o q) /\ (s \o q)[n] = s[n]
         /\ \A n \in 1 .. Len(q) : Len(s) + n \in DOMAIN (s \o q) /\ (s \o q)[Len(s) + n] = q[n]
         /\ \A n \in DOMAIN (s \o q) : n \in 1 .. Len(s) \/ (n - Len(s) \in 1 .. Len(q) /\ Len(s) + (n - Len(s)) = n)
<1>1. PICK c : c = s \o q
  OBVIOUS
<1>2. c \in Seq(S) /\ Len(c) = Len(s) + Len(q) /\ Len(s) \in Nat /\ Len(q) \in Nat
  BY <1>1
<1>3. DOMAIN s = 1 .. Len(s) /\ DOMAIN q = 1 .. Len(q) /\ DOMAIN c = 1 .. Len(s) + Len(q)
  BY <1>2
<1>4. \A n \in 1 .. Len(s) : n \in DOMAIN c /\ c[n] = s[n]
  BY <1>1, <1>2, <1>3
<1>5. ASSUME NEW n \in 1 .. Len(q) PROVE Len(s) + n \in DOMAIN c /\ c[Len(s) + n] = q[n]
  <2>1. Len(s) + n \in 1 .. Len(s) + Len(q) /\ Len(s) + n > Len(s) /\ Len(s) + n - Len(s) = n
    BY <1>2
  <2> QED BY <1>1, <1>2, <1>3, <2>1
<1>6. \A n \in DOMAIN c : n \in 1 .. Len(s) \/ (n - Len(s) \in 1 .. Len(q) /\ Len(s) + (n - Len(s)) = n)
  BY <1>2, <1>3
<1> QED BY <1>1, <1>2, <1>3, <1>4, <1>5, <1>6

(* The item is in the list; it is in it twice. *)
Has(s, i) == \E n \in DOMAIN s : s[n] = i
Twice(s, i) == \E m, n \in DOMAIN s : m # n /\ s[m] = i /\ s[n] = i

LEMMA AppendedItems ==
  ASSUME NEW S, NEW s \in Seq(S), NEW q \in Seq(S), NEW i,
         \A m, n \in DOMAIN q : q[m] = q[n] => m = n
  PROVE  /\ Has(s \o q, i) <=> Has(s, i) \/ Has(q, i)
         /\ Twice(s \o q, i) <=> Twice(s, i) \/ (Has(s, i) /\ Has(q, i))
<1>1. PICK c, a, b : c = s \o q /\ a = Len(s) /\ b = Len(q)
  OBVIOUS
<1>2. /\ a \in Nat /\ b \in Nat /\ DOMAIN s = 1 .. a /\ DOMAIN q = 1 .. b /\ DOMAIN c = 1 .. a + b
      /\ \A n \in 1 .. a : n \in DOMAIN c /\ c[n] = s[n]
      /\ \A n \in 1 .. b : a + n \in DOMAIN c /\ c[a + n] = q[n]
      /\ \A n \in DOMAIN c : n \in 1 .. a \/ (n - a \in 1 .. b /\ a + (n - a) = n)
  BY <1>1, Appended
<1>3. ASSUME NEW n \in DOMAIN c, c[n] = i
      PROVE  (n \in DOMAIN s /\ s[n] = i) \/ (n - a \in DOMAIN q /\ q[n - a] = i)
  <2>1. CASE n \in 1 .. a
    BY <1>2, <1>3, <2>1
  <2>2. CASE n - a \in 1 .. b /\ a + (n - a) = n
    <3>1. PICK k \in 1 .. b : k = n - a /\ a + k = n
      BY <2>2
    <3>2. c[a + k] = q[k]
      BY <1>2, <3>1
    <3> QED BY <1>2, <1>3, <3>1, <3>2
  <2> QED BY <1>2, <2>1, <2>2
<1>4. ASSUME NEW n \in DOMAIN s PROVE n \in DOMAIN c /\ c[n] = s[n]
  BY <1>2
<1>5. ASSUME NEW n \in DOMAIN q PROVE a + n \in DOMAIN c /\ c[a + n] = q[n]
  BY <1>2
<1>6. ASSUME NEW m \in DOMAIN c, NEW n \in DOMAIN c, m # n, c[m] = i, c[n] = i
      PROVE  \/ \E x, y \in DOMAIN s : x # y /\ s[x] = i /\ s[y] = i
             \/ (\E x \in DOMAIN s : s[x] = i) /\ (\E x \in DOMAIN q : q[x] = i)
  <2>1. (m \in DOMAIN s /\ s[m] = i) \/ (m - a \in DOMAIN q /\ q[m - a] = i)
    BY <1>3, <1>6
  <2>2. (n \in DOMAIN s /\ s[n] = i) \/ (n - a \in DOMAIN q /\ q[n - a] = i)
    BY <1>3, <1>6
  <2>3. ~(m - a \in DOMAIN q /\ q[m - a] = i /\ n - a \in DOMAIN q /\ q[n - a] = i)
    <3> SUFFICES ASSUME m - a \in DOMAIN q, q[m - a] = i, n - a \in DOMAIN q, q[n - a] = i PROVE FALSE
      OBVIOUS
    <3>1. m - a = n - a
      OBVIOUS
    <3>2. m \in Nat /\ n \in Nat
      BY <1>2
    <3> QED BY <1>2, <1>6, <3>1, <3>2
  <2> QED BY <1>6, <2>1, <2>2, <2>3
<1>7. ASSUME NEW x \in DOMAIN s, NEW y \in DOMAIN q, s[x] = i, q[y] = i
      PROVE  \E m, n \in DOMAIN c : m # n /\ c[m] = i /\ c[n] = i
  <2>1. x # a + y
    BY <1>2
  <2> QED BY <1>4, <1>5, <1>7, <2>1
<1>8. ASSUME NEW x \in DOMAIN s, NEW y \in DOMAIN s, x # y, s[x] = i, s[y] = i
      PROVE  \E m, n \in DOMAIN c : m # n /\ c[m] = i /\ c[n] = i
  BY <1>4, <1>8
<1>9. (\E n \in DOMAIN c : c[n] = i) <=> (\E n \in DOMAIN s : s[n] = i) \/ (\E n \in DOMAIN q : q[n] = i)
  BY <1>3, <1>4, <1>5
<1>10. (\E m, n \in DOMAIN c : m # n /\ c[m] = i /\ c[n] = i) <=>
         \/ \E m, n \in DOMAIN s : m # n /\ s[m] = i /\ s[n] = i
         \/ (\E n \in DOMAIN s : s[n] = i) /\ (\E n \in DOMAIN q : q[n] = i)
  BY <1>6, <1>7, <1>8
<1> QED BY <1>1, <1>9, <1>10 DEF Has, Twice

(* The ids and the rows of a list of pairs *)
FirstColumn(rows) == [n \in DOMAIN rows |-> rows[n][1]]
SecondColumn(rows) == [n \in DOMAIN rows |-> rows[n][2]]

LEMMA Columns ==
  ASSUME NEW A, NEW B, NEW rows \in Seq(A \X B)
  PROVE  FirstColumn(rows) \in Seq(A) /\ SecondColumn(rows) \in Seq(B)
<1>1. PICK n \in Nat : DOMAIN rows = 1 .. n /\ \A k \in 1 .. n : rows[k] \in A \X B
  <2>1. DOMAIN rows = 1 .. Len(rows) /\ Len(rows) \in Nat /\ \A k \in 1 .. Len(rows) : rows[k] \in A \X B
    OBVIOUS
  <2> QED BY <2>1
<1>2. FirstColumn(rows) \in [1 .. n -> A]
  BY <1>1 DEF FirstColumn
<1>3. SecondColumn(rows) \in [1 .. n -> B]
  BY <1>1 DEF SecondColumn
<1> QED BY <1>1, <1>2, <1>3, SequenceOf

LEMMA RespondKeeps ==
  ASSUME WalkInv, Respond
  PROVE  WalkInv'
<1>0. TypeOK
  BY DEF WalkInv
<1>1. /\ walk.pc = "answer" /\ UNCHANGED <<kind, items, priority, table, touched, written, tied>> /\ Shaped'
      /\ walk'.request = walk.request /\ walk'.first = walk.first /\ walk'.page = walk.page + 1
      /\ walk'.seen = walk.seen \o [n \in DOMAIN answer.rows |-> answer.rows[n][1]]
      /\ walk'.shown = walk.shown \o [n \in DOMAIN answer.rows |-> answer.rows[n][2]]
      /\ walk'.pc = IF OnLast THEN "done" ELSE IF kind = "workspace" THEN "rows" ELSE "count"
  BY <1>0, RespondFields
<1>2. PICK S, R, s, h, rows, ids, held :
        /\ S = Ids(kind) /\ R = RowsOf(kind) /\ s = walk.seen /\ h = walk.shown /\ rows = answer.rows
        /\ ids = [n \in DOMAIN rows |-> rows[n][1]] /\ held = [n \in DOMAIN rows |-> rows[n][2]]
  OBVIOUS
<1>3. /\ kind \in Kinds /\ s \in Seq(S) /\ h \in Seq(R) /\ rows \in Seq(S \X R)
      /\ walk.page \in Nat \ {0} /\ written \in Nat
  BY <1>0, <1>1, <1>2 DEF TypeOK, HasRows
<1>4. ids \in Seq(S) /\ held \in Seq(R)
  <2>1. ids = FirstColumn(rows) /\ held = SecondColumn(rows)
    BY <1>2 DEF FirstColumn, SecondColumn
  <2> QED BY <1>3, <2>1, Columns
<1>5. s \o ids \in Seq(S) /\ h \o held \in Seq(R)
  BY <1>3, <1>4
<1>6. HasRows /\ ~HasRows' /\ ~HasCount' /\ ~Ending' /\ (Ended' => Ended) /\ walk'.pc # "idle" /\ walk'.pc # "summary"
      /\ walk'.pc \in {"rows", "count", "done"}
  BY <1>1, <1>3 DEF HasRows, HasCount, Ending, Ended, Kinds
<1>7. walk'.page \in Nat \ {0}
  BY <1>1, <1>3
<1>8. walk'.seen = s \o ids /\ walk'.shown = h \o held
  BY <1>1, <1>2
<1>9. TypeOK'
  BY <1>0, <1>1, <1>2, <1>5, <1>6, <1>7, <1>8 DEF TypeOK
<1>10. Unwritten' = Unwritten /\ \A i : PlaceOf(i)' = PlaceOf(i)
  BY <1>1 DEF Unwritten, PlaceOf
<1>11. StillListed'
  BY <1>1, <1>10 DEF WalkInv, StillListed
<1>12. Drift
  BY <1>1 DEF WalkInv
<1>13. CASE kind = "articles" /\ tied
  BY <1>1, <1>9, <1>11, <1>13 DEF WalkInv, Drift
<1>14. CASE ~(kind = "articles" /\ tied)
  <2>1. \A m, n \in DOMAIN rows : rows[m][1] = rows[n][1] => m = n
    BY <1>2, <1>6, <1>12, <1>14 DEF Drift
  <2>2. \A m, n \in DOMAIN ids : ids[m] = ids[n] => m = n
    BY <1>2, <2>1
  <2>3. \A i : /\ Has(s \o ids, i) <=> Has(s, i) \/ Has(ids, i)
               /\ Twice(s \o ids, i) <=> Twice(s, i) \/ (Has(s, i) /\ Has(ids, i))
    <3>1. s \in Seq(S) /\ ids \in Seq(S)
      BY <1>3, <1>4
    <3> QED BY <2>2, <3>1, AppendedItems
  <2>4. \A i : Held(i) <=> Has(ids, i)
    BY <1>2, <1>6 DEF Held, Has
  <2>5. \A i : SeenBefore(i) <=> Has(s, i)
    BY <1>2 DEF SeenBefore, Has
  <2>6. \A i : ~Held(i)'
    BY <1>6 DEF Held
  <2>7. \A i : SeenBefore(i)' <=> Has(s \o ids, i)
    BY <1>8 DEF SeenBefore, Has
  <2>8a. \A i : Seen(i)' <=> Seen(i)
    BY <2>3, <2>4, <2>5, <2>6, <2>7 DEF Seen
  <2>8. \A i : Again(i)' <=> Again(i)
    <3> TAKE i
    <3>1. Again(i)' <=> Twice(s \o ids, i)
      BY <1>8, <2>6 DEF Again, Twice
    <3>2. Again(i) <=> Twice(s, i) \/ (Has(s, i) /\ Has(ids, i))
      BY <1>2, <2>4, <2>5 DEF Again, Twice
    <3> QED BY <2>3, <3>1, <3>2
  <2>9. Reached' = Reached
    BY <1>1, <1>6 DEF Reached
  <2>10. Repeats' = Repeats /\ Skipped' = Skipped /\ Unseen' = Unseen
    BY <1>10, <2>8a, <2>8, <2>9 DEF Repeats, Skipped, Unseen
  <2>11. Drift'
    BY <1>1, <1>6, <1>12, <1>14, <2>10 DEF Drift
  <2> QED BY <1>9, <1>11, <2>11 DEF WalkInv
<1> QED BY <1>13, <1>14

(* A commit adds at most one to each of the sets that Drift counts. *)
(* What requests write is typed. *)
LEMMA WriteItemTyped ==
  ASSUME TypeOK, NEW i \in DOMAIN items, NEW row \in AllRows, WriteItem(i, row)
  PROVE  items' \in Contents(kind) /\ priority' \in PriorityColumns /\ Commit
<1>1. items \in [Ids(kind) -> Stored(kind) \cup {None}] /\ priority \in PriorityColumns
  BY DEF TypeOK, Contents
<1>2. row \in Stored(kind) \cup {None}
  BY ListingAssumptions DEF AllRows, Stored
<1>3. items' = [items EXCEPT ![i] = row] /\ priority' = priority /\ Commit
  BY DEF WriteItem
<1> QED BY <1>1, <1>2, <1>3 DEF Contents

LEMMA DeleteSubtreeTyped ==
  ASSUME TypeOK, NEW level, NEW node, DeleteSubtree(level, node)
  PROVE  items' \in Contents(kind) /\ priority' \in PriorityColumns /\ Commit
<1>1. items \in [Ids(kind) -> Stored(kind) \cup {None}] /\ priority \in PriorityColumns
  BY DEF TypeOK, Contents
<1>2. /\ items' = [i \in DOMAIN items |->
           IF items[i] # None /\ Above(items[i].sub)[level] = node THEN None ELSE items[i]]
      /\ priority' = priority /\ Commit
  BY DEF DeleteSubtree
<1>3. DOMAIN items = Ids(kind) /\ \A i \in Ids(kind) : items[i] \in Stored(kind) \cup {None}
  BY <1>1
<1>4. items' \in [Ids(kind) -> Stored(kind) \cup {None}]
  BY <1>2, <1>3
<1> QED BY <1>1, <1>2, <1>4 DEF Contents

LEMMA NumberingsTyped ==
  ASSUME NEW level \in Levels, NEW numbers \in Numberings[level]
  PROVE  \A n \in DOMAIN numbers : numbers[n] \in Int
<1>1. PICK S, m : numbers \in Bijection(S, 1 .. m)
  BY DEF Numberings
<1>2. numbers \in [S -> 1 .. m]
  BY <1>1 DEF Bijection, Injection
<1> QED BY <1>2

LEMMA ReorderTyped ==
  ASSUME TypeOK, NEW level \in Levels, NEW numbers \in Numberings[level], Reorder(level, numbers)
  PROVE  items' \in Contents(kind) /\ priority' \in PriorityColumns /\ Commit
<1>1. items \in Contents(kind) /\ priority \in PriorityColumns
  BY DEF TypeOK
<1>2. PICK column : column = [n \in Nodes[level] |->
        IF n \in DOMAIN numbers THEN numbers[n] ELSE priority[level][n]]
  OBVIOUS
<1>3. priority' = [priority EXCEPT ![level] = column] /\ items' = items /\ Commit
  BY <1>2 DEF Reorder
<1>4. \A n \in Nodes[level] : priority[level][n] \in Int
  BY <1>1 DEF PriorityColumns, Levels
<1>5. column \in [Nodes[level] -> Int]
  BY <1>2, <1>4, NumberingsTyped
<1>6. priority' \in PriorityColumns
  <2>1. CASE level = "sheet"
    BY <1>1, <1>3, <1>5, <2>1 DEF PriorityColumns
  <2>2. CASE level = "section"
    BY <1>1, <1>3, <1>5, <2>2 DEF PriorityColumns
  <2>3. CASE level = "subsection"
    BY <1>1, <1>3, <1>5, <2>3 DEF PriorityColumns
  <2> QED BY <2>1, <2>2, <2>3 DEF Levels
<1> QED BY <1>1, <1>3, <1>6

LEMMA WriteTagTyped ==
  ASSUME TypeOK, NEW slug \in Slugs, NEW slugs \in SUBSET Slugs, WriteTag(slug, slugs)
  PROVE  items' \in Contents(kind) /\ priority' \in PriorityColumns /\ Commit
<1>1. kind = "articles" /\ priority' = priority /\ Commit
  BY DEF WriteTag
<1>2. /\ items' = [i \in DOMAIN items |->
           IF items[i] # None /\ slug \in items[i].tags
           THEN [items[i] EXCEPT !.tags = (@ \ {slug}) \cup slugs] ELSE items[i]]
  BY DEF WriteTag
<1>3. /\ items \in [Ids(kind) -> Articles \cup {None}] /\ priority \in PriorityColumns
      /\ Contents(kind) = [Ids(kind) -> Articles \cup {None}]
  BY <1>1 DEF TypeOK, Contents, Stored
<1>4. \A a \in Articles : [a EXCEPT !.tags = (@ \ {slug}) \cup slugs] \in Articles
  BY DEF Articles
<1>5. items' \in [Ids(kind) -> Articles \cup {None}]
  BY <1>2, <1>3, <1>4
<1> QED BY <1>1, <1>3, <1>5

LEMMA WritesTyped ==
  ASSUME TypeOK, Write
  PROVE  /\ walk.pc \notin {"idle", "done"} /\ Commit
         /\ items' \in Contents(kind) /\ priority' \in PriorityColumns
<1>1. walk.pc \notin {"idle", "done"}
  BY DEF Write
<1>2. ASSUME NEW i \in DOMAIN items, NEW row \in AllRows, WriteItem(i, row)
      PROVE  items' \in Contents(kind) /\ priority' \in PriorityColumns /\ Commit
  BY <1>2, WriteItemTyped
<1>3. ASSUME NEW level \in Levels, NEW node \in Nodes[level], DeleteSubtree(level, node)
      PROVE  items' \in Contents(kind) /\ priority' \in PriorityColumns /\ Commit
  BY <1>3, DeleteSubtreeTyped
<1>4. ASSUME NEW level \in Levels, NEW numbers \in Numberings[level], Reorder(level, numbers)
      PROVE  items' \in Contents(kind) /\ priority' \in PriorityColumns /\ Commit
  BY <1>4, ReorderTyped
<1>5. ASSUME NEW slug \in Slugs, NEW slugs \in {{}} \cup {{s} : s \in Slugs}, WriteTag(slug, slugs)
      PROVE  items' \in Contents(kind) /\ priority' \in PriorityColumns /\ Commit
  BY <1>5, WriteTagTyped
<1> QED BY <1>1, <1>2, <1>3, <1>4, <1>5 DEF Write

LEMMA CommitKeeps ==
  ASSUME WalkInv, walk.pc \notin {"idle", "done"}, items' \in Contents(kind),
         priority' \in PriorityColumns, Commit
  PROVE  WalkInv'
<1>a. PICK W : W = Changed
  OBVIOUS
<1>0. TypeOK /\ walk.pc \notin {"idle", "done"}
      /\ touched' = touched \cup W /\ written' = written + Cardinality(W)
      /\ kind' = kind /\ walk' = walk /\ answer' = answer /\ tied' = tied
  BY <1>a DEF WalkInv, Commit
<1>1. PICK d, t, v, r, o, e : /\ d = kind /\ t = table /\ v = table' /\ r = walk.request
                              /\ o = Offset(r, walk.page) /\ e = Offset(r, walk.page + 1)
  OBVIOUS
<1>2. d \in Kinds /\ t \in Tables(d) /\ r \in RequestsOf(d) /\ written \in Nat /\ DOMAIN items = Ids(d)
  BY <1>0, <1>1 DEF TypeOK, Contents
<1>3. v \in Tables(d)
  <2>1. table' = View(kind', items', priority')
    BY TableIsView
  <2> QED BY <1>0, <1>1, <1>2, <2>1, ViewTyped
<1>4. IsFiniteSet(W) /\ Cardinality(W) \in Nat
  <2>1. W \subseteq Ids(d) /\ IsFiniteSet(Ids(d))
    BY <1>2, <1>a, ListIds DEF Changed
  <2> QED BY <2>1, FS_Subset, FS_CardinalityType
<1>5. v \in Tables(d) /\ Rewritten(t, v, W)
  <2>1. DOMAIN t = Ids(d)
    BY <1>2 DEF Tables
  <2>2. \A i \in Ids(d) \ W : table'[i] = table[i]
    BY <1>2, <1>a DEF Changed
  <2> QED BY <1>1, <1>3, <2>1, <2>2 DEF Rewritten
<1>6. o \in Nat /\ e \in Nat
  BY <1>0, <1>1, WalkOffsets
<1>7. (HasRows' <=> HasRows) /\ (HasCount' <=> HasCount) /\ (Ended' <=> Ended) /\ (Ending' <=> Ending) /\ Shaped'
  <2>1. Shaped
    BY <1>0 DEF TypeOK
  <2> QED BY <1>0, <2>1 DEF HasRows, HasCount, Ended, Ending, OnLast, Shaped
<1>8. TypeOK'
  <2>1. written' \in Nat
    BY <1>0, <1>2, <1>4
  <2>2. table' \in Tables(kind') /\ items' \in Contents(kind') /\ priority' \in PriorityColumns
    BY <1>0, <1>1, <1>5
  <2> QED BY <1>0, <1>7, <2>1, <2>2 DEF TypeOK
<1>9. Unwritten' = Unwritten \ W
  BY <1>0 DEF Unwritten
<1>10. Unwritten \subseteq MatchOf(d, t, r)
  BY <1>0, <1>1 DEF WalkInv, StillListed
<1>11. Unwritten' \subseteq MatchOf(d, v, r)
  BY <1>2, <1>5, <1>9, <1>10, OthersStay
<1>12. StillListed'
  BY <1>0, <1>1, <1>11 DEF StillListed
<1>13. Drift
  BY <1>0 DEF WalkInv
<1>14. CASE d = "articles" /\ tied
  BY <1>0, <1>1, <1>8, <1>12, <1>14 DEF WalkInv, Drift
<1>15. CASE ~(d = "articles" /\ tied)
  <2>1. PICK c : c = Reached
    OBVIOUS
  <2>2. c \in Nat /\ Reached' = c
    BY <1>0, <1>1, <1>6, <1>7, <2>1 DEF Reached
  <2>3. \A i : (Seen(i)' <=> Seen(i)) /\ (Again(i)' <=> Again(i))
    BY <1>0, <1>7 DEF Seen, Again, SeenBefore, Held
  <2>4. \A i : PlaceOf(i) = Rank(d, t, r, i) /\ PlaceOf(i)' = Rank(d, v, r, i)
    BY <1>0, <1>1 DEF PlaceOf
  <2>5. \A i \in Unwritten' : /\ i \in Unwritten /\ i \notin W /\ i \in MatchOf(d, t, r)
                              /\ Rank(d, t, r, i) \in Nat /\ Rank(d, v, r, i) \in Nat
    BY <1>2, <1>5, <1>9, <1>10, <1>11, RankFacts
  <2>6. ASSUME NEW b \in Nat, NEW f \in Nat, NEW A, IsFiniteSet(A), NEW B, IsFiniteSet(B),
               \A k \in B \ A : k \in Unwritten' /\ Crosses(d, t, v, r, b, f, k)
        PROVE  /\ Cardinality(B) <= Cardinality(A) + Cardinality(W)
               /\ Cardinality(A) \in Nat /\ Cardinality(B) \in Nat
    <3>1. PICK X : X = B \ A
      OBVIOUS
    <3>2. X \subseteq MatchOf(d, t, r) \ W /\ \A k \in X : Crosses(d, t, v, r, b, f, k)
      BY <2>5, <2>6, <3>1
    <3>3. Cardinality(X) <= Cardinality(W)
      BY <1>2, <1>4, <1>5, <3>2, NoMoreCross
    <3> QED BY <1>4, <2>6, <3>1, <3>3, AtMostMore
  <2>7. PICK A, B : A = Repeats /\ B = Repeats'
    OBVIOUS
  <2>f. /\ IsFiniteSet(Repeats) /\ IsFiniteSet(Skipped) /\ IsFiniteSet(Outside)
        /\ IsFiniteSet(Repeats') /\ IsFiniteSet(Skipped') /\ IsFiniteSet(Outside')
    <3>1. IsFiniteSet(Repeats) /\ IsFiniteSet(Skipped) /\ IsFiniteSet(Outside)
      BY <1>0, PartsFinite
    <3>2. IsFiniteSet(Unwritten')
      <4>1. IsFiniteSet(walk.first) /\ Unwritten' \subseteq walk.first
        BY <1>0 DEF TypeOK, Unwritten
      <4> QED BY <4>1, FS_Subset
    <3>3. Repeats' \subseteq Unwritten' /\ Skipped' \subseteq Unwritten' /\ Outside' \subseteq Unwritten'
      BY DEF Repeats, Skipped, Outside
    <3> QED BY <3>1, <3>2, <3>3, FS_Subset
  <2>8. Cardinality(B) <= Cardinality(A) + Cardinality(W) /\ Cardinality(A) \in Nat /\ Cardinality(B) \in Nat
    <3>1. ASSUME NEW k \in B, k \notin A PROVE k \in Unwritten' /\ Crosses(d, t, v, r, 0, c, k)
      <4>1. k \in Unwritten' /\ (Again(k) \/ (Seen(k) /\ c <= Rank(d, v, r, k)))
        BY <2>2, <2>3, <2>4, <2>7 DEF Repeats
      <4>2. ~(Again(k) \/ (Seen(k) /\ c <= Rank(d, t, r, k)))
        BY <2>1, <2>4, <2>5, <2>7, <3>1, <4>1 DEF Repeats
      <4>3. Rank(d, t, r, k) < c /\ c <= Rank(d, v, r, k)
        BY <2>2, <2>5, <4>1, <4>2
      <4> QED BY <4>1, <4>3 DEF Crosses
    <3>2. IsFiniteSet(A) /\ IsFiniteSet(B)
      BY <2>7, <2>f
    <3> QED BY <2>2, <2>6, <3>1, <3>2
  <2>9. PICK C, D : C = Skipped /\ D = Skipped'
    OBVIOUS
  <2>10. Cardinality(D) <= Cardinality(C) + Cardinality(W) /\ Cardinality(C) \in Nat /\ Cardinality(D) \in Nat
    <3>1. ASSUME NEW k \in D, k \notin C PROVE k \in Unwritten' /\ Crosses(d, t, v, r, c, 0, k)
      <4>1. k \in Unwritten' /\ ~Seen(k) /\ Rank(d, v, r, k) < c
        BY <2>2, <2>3, <2>4, <2>9 DEF Skipped
      <4>2. ~(Rank(d, t, r, k) < c)
        BY <2>1, <2>4, <2>5, <2>9, <3>1, <4>1 DEF Skipped
      <4>3. c <= Rank(d, t, r, k)
        BY <2>2, <2>5, <4>1, <4>2
      <4> QED BY <4>1, <4>3 DEF Crosses
    <3>2. IsFiniteSet(C) /\ IsFiniteSet(D)
      BY <2>9, <2>f
    <3> QED BY <2>2, <2>6, <3>1, <3>2
  <2>11. PICK E, F : E = Outside /\ F = Outside'
    OBVIOUS
  <2>12. Cardinality(F) <= Cardinality(E) + Cardinality(W) /\ Cardinality(E) \in Nat /\ Cardinality(F) \in Nat
    <3>1. ASSUME NEW k \in F, k \notin E PROVE k \in Unwritten' /\ Crosses(d, t, v, r, o, e, k)
      <4>1. k \in Unwritten' /\ ~Seen(k) /\ (Rank(d, v, r, k) < o \/ e <= Rank(d, v, r, k))
        BY <1>0, <1>1, <2>3, <2>4, <2>11 DEF Outside
      <4>2. ~(Rank(d, t, r, k) < o \/ e <= Rank(d, t, r, k))
        BY <1>1, <2>4, <2>5, <2>11, <3>1, <4>1 DEF Outside
      <4>3. o <= Rank(d, t, r, k) /\ Rank(d, t, r, k) < e
        BY <1>6, <2>5, <4>1, <4>2
      <4> QED BY <4>1, <4>3 DEF Crosses
    <3>2. IsFiniteSet(E) /\ IsFiniteSet(F)
      BY <2>11, <2>f
    <3> QED BY <1>6, <2>6, <3>1, <3>2
  <2>13. /\ Cardinality(A) <= written /\ Cardinality(C) <= written
         /\ Ended => Cardinality(Unseen) <= written
         /\ Ending => Cardinality(E) <= written
         /\ HasRows => \A m, n \in DOMAIN answer.rows : answer.rows[m][1] = answer.rows[n][1] => m = n
    BY <1>1, <1>13, <1>15, <2>7, <2>9, <2>11 DEF Drift
  <2>14. Cardinality(Repeats') <= written' /\ Cardinality(Skipped') <= written'
    BY <1>0, <1>2, <1>4, <2>7, <2>8, <2>9, <2>10, <2>13
  <2>15. Ending' => Cardinality(Outside') <= written'
    BY <1>0, <1>2, <1>4, <1>7, <2>11, <2>12, <2>13
  <2>16. Ended' => Cardinality(Unseen') <= written'
    <3>1. Unseen' \subseteq Unseen
      BY <1>9, <2>3 DEF Unseen
    <3>2. IsFiniteSet(Unseen) /\ Cardinality(Unseen) \in Nat
      BY <1>0, PartsFinite, FS_CardinalityType
    <3>3. Ended => Cardinality(Unseen) <= written'
      BY <1>0, <1>2, <1>4, <2>13, <3>2
    <3>4. written' \in Nat
      BY <1>0, <1>2, <1>4
    <3> QED BY <1>7, <3>1, <3>2, <3>3, <3>4, Fewer
  <2>17. Drift'
    BY <1>0, <1>7, <2>13, <2>14, <2>15, <2>16 DEF Drift
  <2> QED BY <1>8, <1>12, <2>17 DEF WalkInv
<1> QED BY <1>14, <1>15

LEMMA WalkStaysCounted == Spec => []WalkInv
<1>1. WalkInv /\ [Next]_vars => WalkInv'
  <2> SUFFICES ASSUME WalkInv, [Next]_vars PROVE WalkInv'
    OBVIOUS
  <2>1. CASE UNCHANGED vars
    <3>1. table' = table
      BY <2>1, TableKept DEF vars
    <3> QED BY <2>1, <3>1 DEF vars, WalkInv, TypeOK, Shaped, HasRows, HasCount, StillListed,
                    Unwritten, Drift, Repeats, Skipped, Unseen, Outside, Ended, Ending, OnLast, Seen,
                    Again, SeenBefore, Held, Reached, PlaceOf
  <2>2. ASSUME NEW request \in Requests, BeginWalk(request) \/ BeginArticleWalk(request) PROVE WalkInv'
    BY <2>2, BeginKeeps
  <2>3. CASE ReadRows
    BY <2>3, RowsKeep
  <2>4. CASE ReadCount
    BY <2>4, CountKeeps
  <2>5. CASE ReadSummary
    BY <2>5, SummaryKeeps
  <2>6. CASE Respond
    BY <2>6, RespondKeeps
  <2>7. CASE Write
    <3>1. TypeOK
      BY DEF WalkInv
    <3> QED BY <2>7, <3>1, WritesTyped, CommitKeeps
  <2> QED BY <2>1, <2>2, <2>3, <2>4, <2>5, <2>6, <2>7 DEF Next
<1> QED BY <1>1, WalkStarts, PTL DEF Spec

(* At the end of a walk: a row that was missed is unseen, a row shown more
   than once is repeated. *)
LEMMA DriftAtEnd == WalkInv => WalkDrift
<1> SUFFICES ASSUME WalkInv, walk.pc = "done", ~(kind = "articles" /\ tied)
             PROVE  LET kept == walk.first \ touched IN
                    /\ Cardinality({i \in kept : Times(i) = 0}) <= written
                    /\ Cardinality({i \in kept : Times(i) > 1}) <= written
  BY DEF WalkDrift
<1>1. TypeOK /\ Drift /\ written \in Nat /\ walk.seen \in Seq(Ids(kind))
  BY DEF WalkInv, TypeOK
<1>2. Ended /\ ~HasRows
  BY DEF Ended, HasRows
<1>3. /\ Cardinality(Unseen) <= written /\ IsFiniteSet(Unseen)
      /\ Cardinality(Repeats) <= written /\ IsFiniteSet(Repeats)
  BY <1>1, <1>2, PartsFinite DEF Drift
<1>4. PICK s : s = walk.seen
  OBVIOUS
<1>5. ASSUME NEW i
      PROVE  /\ Times(i) = 0 => ~Seen(i)
             /\ Times(i) > 1 => Again(i)
  <2>1. PICK T : T = {n \in DOMAIN s : s[n] = i}
    OBVIOUS
  <2>2. IsFiniteSet(T)
    <3>1. DOMAIN s = 1 .. Len(s) /\ Len(s) \in Nat
      BY <1>1, <1>4
    <3>2. IsFiniteSet(DOMAIN s)
      BY <3>1, FS_Interval
    <3> QED BY <2>1, <3>2, FS_Subset
  <2>3. Times(i) = Cardinality(T)
    BY <1>4, <2>1 DEF Times
  <2>4. Cardinality(T) = 0 => T = {}
    BY <2>2, FS_EmptySet
  <2>5. Times(i) = 0 => ~Seen(i)
    BY <1>2, <1>4, <2>1, <2>3, <2>4 DEF Seen, SeenBefore, Held
  <2>6. ASSUME ~Again(i) PROVE ~(Times(i) > 1)
    <3>1. \A m, n \in T : m = n
      BY <1>4, <2>1, <2>6 DEF Again
    <3>2. Cardinality(T) <= 1 /\ Cardinality(T) \in Nat
      BY <3>1, AllAlike
    <3> QED BY <2>3, <3>2
  <2> QED BY <2>5, <2>6
<1>6. {i \in walk.first \ touched : Times(i) = 0} \subseteq Unseen
  BY <1>5 DEF Unseen, Unwritten
<1>7. {i \in walk.first \ touched : Times(i) > 1} \subseteq Repeats
  BY <1>5 DEF Repeats, Unwritten
<1>8. Cardinality({i \in walk.first \ touched : Times(i) = 0}) <= written
  BY <1>1, <1>3, <1>6, Fewer
<1>9. Cardinality({i \in walk.first \ touched : Times(i) > 1}) <= written
  BY <1>1, <1>3, <1>7, Fewer
<1> QED BY <1>8, <1>9

(* Whoever reads all pages of a list while others commit misses at most as
   many rows, and sees at most as many more than once, as were written, beyond
   those themselves: however many of them one commit writes, for any page size
   and any number of commits (list_competency_matrix_workspace in every sort;
   the list of articles as long as no rows tie). *)
THEOREM WalksDriftByWrites == Spec => []WalkDrift
BY WalkStaysCounted, DriftAtEnd, PTL

-----------------------------------------------------------------------------
(* If nobody writes, the pages are the list. *)

MissingSome(q) == MissingInSql(q) # {}
RowsAt(t, M) == [i \in M |-> t[i]]

(* The items come at their ranks, after those of the pages before; the rows
   are those of the table. *)
Listed(t, r, s, h, from) ==
  /\ DOMAIN h = DOMAIN s
  /\ \A n \in DOMAIN s : /\ s[n] \in MatchOf("workspace", t, r) /\ h[n] = t[s[n]]
                         /\ Rank("workspace", t, r, s[n]) = from + n - 1

HeldIds == [n \in DOMAIN answer.rows |-> answer.rows[n][1]]
HeldRows == [n \in DOMAIN answer.rows |-> answer.rows[n][2]]

Quiet ==
  LET r == walk.request
      M == MatchOf("workspace", table, r)
      c == Cardinality(M)
      o == Offset(r, walk.page)
  IN /\ Listed(table, r, walk.seen, walk.shown, 0)
     /\ Len(walk.seen) = IF c <= o THEN c ELSE o
     /\ HasRows => /\ Listed(table, r, HeldIds, HeldRows, o)
                   /\ Len(HeldIds) = IF c <= o THEN 0 ELSE IF o + r.size < c THEN r.size ELSE c - o
     /\ HasCount => answer.count = c
     /\ walk.pc = "answer" => answer.summary = Summary(RowsAt(table, M))
     /\ walk.pc = "done" => c <= o /\ walk.count = c /\ walk.summary = Summary(RowsAt(table, M))

QuietInv ==
  kind = "workspace" /\ written = 0 =>
    IF walk.pc = "idle" THEN walk.shown = <<>> ELSE Quiet

LEMMA QuietStarts == Init => QuietInv
<1> SUFFICES ASSUME Init PROVE QuietInv
  OBVIOUS
<1>1. PICK w : w = walk
  OBVIOUS
<1>2. w = [pc |-> "idle", request |-> None, page |-> 1, seen |-> <<>>, first |-> {},
           shown |-> <<>>, count |-> 0, summary |-> None]
  BY <1>1 DEF Init, IdleWalk
<1>3. w.pc = "idle" /\ w.shown = <<>>
  BY <1>2
<1> QED BY <1>1, <1>3 DEF QuietInv

LEMMA QuietBegins ==
  ASSUME WalkInv, QuietInv, NEW request \in Requests,
         BeginWalk(request) \/ BeginArticleWalk(request)
  PROVE  QuietInv'
<1>0. TypeOK /\ request \in RequestsOf(kind)
  BY Statements DEF WalkInv
<1>1. /\ walk.pc = "idle" /\ walk'.pc = (IF kind = "workspace" THEN "rows" ELSE "count")
      /\ walk'.request = request /\ walk'.page = walk.page /\ walk'.seen = walk.seen /\ walk'.shown = walk.shown
      /\ UNCHANGED <<kind, items, priority, table, answer, touched, written, tied>>
  BY <1>0, BeginFields
<1>2. SUFFICES ASSUME kind = "workspace", written = 0 PROVE Quiet'
  BY <1>1 DEF QuietInv
<1>3. walk'.seen = <<>> /\ walk'.shown = <<>> /\ walk'.page = 1 /\ walk'.pc = "rows" /\ kind' = "workspace"
  BY <1>0, <1>1, <1>2 DEF TypeOK, QuietInv
<1>4. ~HasRows' /\ ~HasCount' /\ walk'.pc # "answer" /\ walk'.pc # "done"
  BY <1>3 DEF HasRows, HasCount
<1>5. Offset(request, 1) = 0
  BY <1>0, ListIds, OffsetFacts, <1>2 DEF Kinds
<1>6. PICK c : c = Cardinality(MatchOf("workspace", table, request))
  OBVIOUS
<1>7. c \in Nat
  <2>1. table \in Tables("workspace") /\ "workspace" \in Kinds
    BY <1>0, <1>2 DEF TypeOK, Kinds
  <2> QED BY <1>6, <2>1, Matches, FS_CardinalityType
<1>8. Listed(table, request, <<>>, <<>>, 0) /\ Len(<<>>) = 0
  BY DEF Listed
<1>9. 0 = IF c <= 0 THEN c ELSE 0
  BY <1>7
<1> QED BY <1>1, <1>3, <1>4, <1>5, <1>6, <1>8, <1>9 DEF Quiet

LEMMA QuietRows ==
  ASSUME WalkInv, QuietInv, ReadRows
  PROVE  QuietInv'
<1>0. TypeOK
  BY DEF WalkInv
<1>1. /\ walk.pc = "rows" /\ Moves(IF kind = "workspace" THEN "count" ELSE "answer")
      /\ \E s \in OrdersOf(kind, table, walk.request) :
           LET ids == Page(s, walk.request, walk.page) IN
           answer'.rows = [n \in DOMAIN ids |-> <<ids[n], table[ids[n]]>>]
  BY <1>0, RowsFields
<1>2. SUFFICES ASSUME kind = "workspace", written = 0 PROVE Quiet'
  BY <1>1 DEF QuietInv, Moves
<1>3. PICK t, r, page : t = table /\ r = walk.request /\ page = walk.page
  OBVIOUS
<1>4a. PICK s \in OrdersOf("workspace", t, r) :
         LET ids == Page(s, r, page) IN
         answer'.rows = [n \in DOMAIN ids |-> <<ids[n], t[ids[n]]>>]
  BY <1>1, <1>2, <1>3
<1>4. PICK ids : ids = Page(s, r, page) /\ answer'.rows = [n \in DOMAIN ids |-> <<ids[n], t[ids[n]]>>]
  BY <1>4a
<1>5. /\ t \in Tables("workspace") /\ r \in RequestsOf("workspace") /\ page \in Nat \ {0}
      /\ "workspace" \in Kinds
  BY <1>0, <1>1, <1>2, <1>3 DEF TypeOK, Kinds
<1>6. PICK M, o, c : M = MatchOf("workspace", t, r) /\ o = Offset(r, page) /\ c = Cardinality(M)
  OBVIOUS
<1>7. /\ ids \in Seq(M)
      /\ Len(ids) = IF c <= o THEN 0 ELSE IF o + r.size < c THEN r.size ELSE c - o
      /\ \A n \in DOMAIN ids : ids[n] \in M /\ Rank("workspace", t, r, ids[n]) = o + n - 1
  BY <1>4, <1>5, <1>6, PageIsByRank
<1>8. PICK held : held = [n \in DOMAIN ids |-> t[ids[n]]]
  OBVIOUS
<1>9. HeldIds' = ids /\ HeldRows' = held
  BY <1>4, <1>7, <1>8 DEF HeldIds, HeldRows
<1>10. Listed(t, r, ids, held, o)
  BY <1>6, <1>7, <1>8 DEF Listed
<1>11. /\ walk'.pc = "count" /\ walk'.request = r /\ walk'.page = page /\ table' = t
       /\ walk'.seen = walk.seen /\ walk'.shown = walk.shown /\ kind' = "workspace"
  BY <1>1, <1>2, <1>3 DEF Moves
<1>12. HasRows' /\ ~HasCount' /\ walk'.pc # "answer" /\ walk'.pc # "done"
  BY <1>11 DEF HasRows, HasCount
<1>13. Quiet
  BY <1>1, <1>2 DEF QuietInv
<1>14. Listed(t, r, walk.seen, walk.shown, 0) /\ Len(walk.seen) = IF c <= o THEN c ELSE o
  BY <1>3, <1>6, <1>13 DEF Quiet
<1> QED BY <1>6, <1>7, <1>9, <1>10, <1>11, <1>12, <1>14 DEF Quiet

LEMMA QuietCount ==
  ASSUME WalkInv, QuietInv, ReadCount
  PROVE  QuietInv'
<1>0. TypeOK
  BY DEF WalkInv
<1>1. /\ walk.pc = "count" /\ Moves(IF kind = "workspace" THEN "summary" ELSE "rows")
      /\ answer'.rows = answer.rows /\ answer'.count = Cardinality(MatchOf(kind, table, walk.request))
  BY <1>0, CountFields
<1>2. SUFFICES ASSUME kind = "workspace", written = 0 PROVE Quiet'
  BY <1>1 DEF QuietInv, Moves
<1>3. /\ walk'.pc = "summary" /\ walk'.request = walk.request /\ walk'.page = walk.page /\ table' = table
      /\ walk'.seen = walk.seen /\ walk'.shown = walk.shown /\ kind' = "workspace"
  BY <1>1, <1>2 DEF Moves
<1>4. HasRows /\ HasRows' /\ walk'.pc # "answer" /\ walk'.pc # "done"
  BY <1>1, <1>2, <1>3 DEF HasRows
<1>5. HeldIds' = HeldIds /\ HeldRows' = HeldRows
  BY <1>1 DEF HeldIds, HeldRows
<1>6. Quiet
  BY <1>1, <1>2 DEF QuietInv
<1> QED BY <1>1, <1>2, <1>3, <1>4, <1>5, <1>6 DEF Quiet

LEMMA QuietSummary ==
  ASSUME WalkInv, QuietInv, ReadSummary
  PROVE  QuietInv'
<1>0. TypeOK
  BY DEF WalkInv
<1>1. /\ walk.pc = "summary" /\ Moves("answer")
      /\ answer'.rows = answer.rows /\ answer'.count = answer.count
      /\ answer'.summary = Summary([i \in MatchOf(kind, table, walk.request) |-> table[i]])
  BY <1>0, SummaryFields
<1>2. SUFFICES ASSUME kind = "workspace", written = 0 PROVE Quiet'
  BY <1>1 DEF QuietInv, Moves
<1>3. /\ walk'.pc = "answer" /\ walk'.request = walk.request /\ walk'.page = walk.page /\ table' = table
      /\ walk'.seen = walk.seen /\ walk'.shown = walk.shown /\ kind' = "workspace"
  BY <1>1, <1>2 DEF Moves
<1>4. HasRows /\ HasRows' /\ HasCount
  BY <1>1, <1>2, <1>3 DEF HasRows, HasCount
<1>5. HeldIds' = HeldIds /\ HeldRows' = HeldRows
  BY <1>1 DEF HeldIds, HeldRows
<1>6. Quiet
  BY <1>1, <1>2 DEF QuietInv
<1>7. answer'.summary = Summary(RowsAt(table, MatchOf("workspace", table, walk.request)))
  BY <1>1, <1>2 DEF RowsAt
<1> QED BY <1>1, <1>2, <1>3, <1>4, <1>5, <1>6, <1>7 DEF Quiet

(* A page is appended to the pages before. *)
LEMMA ListedAppends ==
  ASSUME NEW t, NEW r, NEW A, NEW B, NEW s \in Seq(A), NEW h \in Seq(B), NEW q \in Seq(A), NEW g \in Seq(B),
         Listed(t, r, s, h, 0), Listed(t, r, q, g, Len(s))
  PROVE  Listed(t, r, s \o q, h \o g, 0)
<1>1. PICK M, R, a, b : /\ M = MatchOf("workspace", t, r) /\ R = [i \in M |-> Rank("workspace", t, r, i)]
                        /\ a = Len(s) /\ b = Len(q)
  OBVIOUS
<1>2. PICK c, e : c = s \o q /\ e = h \o g
  OBVIOUS
<1>3. /\ DOMAIN c = 1 .. a + b /\ a \in Nat /\ b \in Nat /\ DOMAIN s = 1 .. a /\ DOMAIN q = 1 .. b
      /\ \A n \in 1 .. a : c[n] = s[n]
      /\ \A n \in 1 .. b : c[a + n] = q[n]
      /\ \A n \in DOMAIN c : n \in 1 .. a \/ (n - a \in 1 .. b /\ a + (n - a) = n)
  BY <1>1, <1>2, Appended
<1>4. DOMAIN h = DOMAIN s /\ DOMAIN g = DOMAIN q
  BY DEF Listed
<1>5a. ASSUME NEW k \in Nat, NEW l \in Nat, 1 .. k = 1 .. l PROVE k = l
  <2>1. ASSUME k < l PROVE FALSE
    <3>1. l \in 1 .. l /\ l \notin 1 .. k
      BY <2>1
    <3> QED BY <1>5a, <3>1
  <2>2. ASSUME l < k PROVE FALSE
    <3>1. k \in 1 .. k /\ k \notin 1 .. l
      BY <2>2
    <3> QED BY <1>5a, <3>1
  <2> QED BY <2>1, <2>2
<1>5. Len(h) = a /\ Len(g) = b
  <2>1. Len(h) \in Nat /\ Len(g) \in Nat /\ DOMAIN h = 1 .. Len(h) /\ DOMAIN g = 1 .. Len(g)
    OBVIOUS
  <2>2. 1 .. Len(h) = 1 .. a /\ 1 .. Len(g) = 1 .. b
    BY <1>3, <1>4, <2>1
  <2>3. a \in Nat /\ b \in Nat
    BY <1>3
  <2> QED BY <1>5a, <2>1, <2>2, <2>3
<1>6. /\ DOMAIN e = 1 .. a + b
      /\ \A n \in 1 .. a : e[n] = h[n]
      /\ \A n \in 1 .. b : e[a + n] = g[n]
  <2>1. PICK x, y : x = Len(h) /\ y = Len(g)
    OBVIOUS
  <2>2. /\ DOMAIN e = 1 .. x + y
        /\ \A n \in 1 .. x : e[n] = h[n]
        /\ \A n \in 1 .. y : e[x + n] = g[n]
    BY <1>2, <2>1, Appended
  <2> QED BY <1>5, <2>1, <2>2
<1>7. ASSUME NEW n \in DOMAIN c
      PROVE  c[n] \in M /\ e[n] = t[c[n]] /\ R[c[n]] = 0 + n - 1
  <2>1. CASE n \in 1 .. a
    <3>1. s[n] \in M /\ h[n] = t[s[n]] /\ R[s[n]] = 0 + n - 1
      BY <1>1, <1>3, <2>1 DEF Listed
    <3> QED BY <1>3, <1>6, <2>1, <3>1
  <2>2. CASE n - a \in 1 .. b /\ a + (n - a) = n
    <3>1. PICK k \in 1 .. b : n = a + k
      BY <2>2
    <3>2. q[k] \in M /\ g[k] = t[q[k]] /\ R[q[k]] = a + k - 1
      BY <1>1, <1>3 DEF Listed
    <3>3. c[n] = q[k] /\ e[n] = g[k]
      BY <1>3, <1>6, <3>1
    <3> QED BY <1>3, <3>1, <3>2, <3>3
  <2> QED BY <1>3, <2>1, <2>2
<1> QED BY <1>1, <1>2, <1>3, <1>6, <1>7 DEF Listed

LEMMA QuietResponds ==
  ASSUME WalkInv, QuietInv, Respond
  PROVE  QuietInv'
<1>0. TypeOK
  BY DEF WalkInv
<1>1. /\ walk.pc = "answer" /\ UNCHANGED <<kind, items, priority, table, touched, written, tied>>
      /\ walk'.request = walk.request /\ walk'.page = walk.page + 1
      /\ walk'.seen = walk.seen \o [n \in DOMAIN answer.rows |-> answer.rows[n][1]]
      /\ walk'.shown = walk.shown \o [n \in DOMAIN answer.rows |-> answer.rows[n][2]]
      /\ walk'.count = answer.count /\ walk'.summary = answer.summary
      /\ walk'.pc = IF OnLast THEN "done" ELSE IF kind = "workspace" THEN "rows" ELSE "count"
  BY <1>0, RespondFields
<1>2. SUFFICES ASSUME kind = "workspace", written = 0 PROVE Quiet'
  BY <1>1 DEF QuietInv
<1>3. PICK t, r, page, M, o, e, c, z :
        /\ t = table /\ r = walk.request /\ page = walk.page /\ M = MatchOf("workspace", t, r)
        /\ o = Offset(r, page) /\ e = Offset(r, page + 1) /\ c = Cardinality(M) /\ z = r.size
  OBVIOUS
<1>4. PICK s, h, q, g : s = walk.seen /\ h = walk.shown /\ q = HeldIds /\ g = HeldRows
  OBVIOUS
<1>5. HasRows /\ HasCount /\ ~HasRows' /\ ~HasCount' /\ walk'.pc # "answer" /\ walk'.pc # "idle"
  BY <1>1, <1>2 DEF HasRows, HasCount
<1>6. /\ t \in Tables("workspace") /\ r \in RequestsOf("workspace") /\ "workspace" \in Kinds
      /\ page \in Nat \ {0} /\ z \in Nat \ {0}
      /\ s \in Seq(QuestionIds) /\ h \in Seq(JoinedRows)
      /\ answer.rows \in Seq(QuestionIds \X JoinedRows)
  BY <1>0, <1>1, <1>2, <1>3, <1>4, <1>5, ListIds DEF TypeOK, Kinds, Ids, RowsOf
<1>7. q \in Seq(QuestionIds) /\ g \in Seq(JoinedRows)
  <2>1. q = FirstColumn(answer.rows) /\ g = SecondColumn(answer.rows)
    BY <1>4 DEF HeldIds, HeldRows, FirstColumn, SecondColumn
  <2> QED BY <1>6, <2>1, Columns
<1>8. c \in Nat
  BY <1>3, <1>6, Matches, FS_CardinalityType
<1>9. o \in Nat /\ e \in Nat /\ e = o + z
  BY <1>0, <1>1, <1>3, WalkOffsets
<1>10. Quiet
  BY <1>1, <1>2 DEF QuietInv
<1>11. /\ Listed(t, r, s, h, 0) /\ Len(s) = IF c <= o THEN c ELSE o
       /\ Listed(t, r, q, g, o) /\ Len(q) = IF c <= o THEN 0 ELSE IF o + z < c THEN z ELSE c - o
       /\ answer.count = c /\ answer.summary = Summary(RowsAt(t, M))
  BY <1>1, <1>3, <1>4, <1>5, <1>10 DEF Quiet
<1>12. Listed(t, r, q, g, Len(s))
  <2>1. CASE c <= o
    <3>1. Len(q) = 0
      BY <1>11, <2>1
    <3>2. DOMAIN q = {}
      BY <1>7, <3>1
    <3> QED BY <1>11, <3>2 DEF Listed
  <2>2. CASE ~(c <= o)
    BY <1>11, <2>2
  <2> QED BY <2>1, <2>2
<1>13. Listed(t, r, s \o q, h \o g, 0)
  BY <1>6, <1>7, <1>11, <1>12, ListedAppends
<1>14. Len(s \o q) = IF c <= e THEN c ELSE e
  <2>1. PICK a, b : a = Len(s) /\ b = Len(q)
    OBVIOUS
  <2>2. Len(s \o q) = a + b
    BY <1>6, <1>7, <2>1, Appended
  <2>3. a = (IF c <= o THEN c ELSE o) /\ b = IF c <= o THEN 0 ELSE IF o + z < c THEN z ELSE c - o
    BY <1>11, <2>1
  <2>4. a + b = IF c <= e THEN c ELSE e
    <3>1. CASE c <= o
      BY <1>6, <1>8, <1>9, <2>3, <3>1
    <3>2. CASE ~(c <= o) /\ o + z < c
      BY <1>6, <1>8, <1>9, <2>3, <3>2
    <3>3. CASE ~(c <= o) /\ ~(o + z < c)
      BY <1>6, <1>8, <1>9, <2>3, <3>3
    <3> QED BY <3>1, <3>2, <3>3
  <2> QED BY <2>2, <2>4
<1>15. walk'.pc = "done" => c <= e
  <2> SUFFICES ASSUME OnLast PROVE c <= e
    BY <1>1, <1>2
  <2>1. ~(page < TotalPages(c, r.size))
    BY <1>3, <1>11 DEF OnLast
  <2> QED BY <1>3, <1>6, <1>8, <2>1, LastPage
<1>16. /\ walk'.seen = s \o q /\ walk'.shown = h \o g /\ table' = t /\ walk'.request = r /\ walk'.page = page + 1
       /\ walk'.count = c /\ walk'.summary = Summary(RowsAt(t, M))
  BY <1>1, <1>3, <1>4, <1>11 DEF HeldIds, HeldRows
<1> QED BY <1>3, <1>5, <1>13, <1>14, <1>15, <1>16 DEF Quiet

(* A commit that changes no row *)
LEMMA QuietWrites ==
  ASSUME WalkInv, WalkInv', QuietInv, Write
  PROVE  QuietInv'
<1>1. SUFFICES ASSUME kind' = "workspace", written' = 0 PROVE QuietInv'
  BY DEF QuietInv
<1>2. TypeOK /\ TypeOK'
  BY DEF WalkInv
<1>3. UNCHANGED <<kind, walk, answer>> /\ written' = written + Cardinality(Changed)
  BY <1>2, WritesTyped DEF Commit
<1>4. kind \in Kinds /\ written \in Nat /\ DOMAIN items = Ids(kind)
      /\ table \in Tables(kind) /\ table' \in Tables(kind)
  BY <1>2, <1>3 DEF TypeOK, Contents
<1>5. IsFiniteSet(Changed) /\ Cardinality(Changed) \in Nat
  <2>1. Changed \subseteq Ids(kind) /\ IsFiniteSet(Ids(kind))
    BY <1>4, ListIds DEF Changed
  <2> QED BY <2>1, FS_Subset, FS_CardinalityType
<1>6. written = 0 /\ Cardinality(Changed) = 0
  BY <1>1, <1>3, <1>4, <1>5
<1>7. Changed = {}
  BY <1>5, <1>6, FS_EmptySet
<1>8. table' = table
  <2>1. \A i \in Ids(kind) : table'[i] = table[i]
    BY <1>4, <1>7 DEF Changed
  <2>2. PICK t, v : t = table /\ v = table'
    OBVIOUS
  <2>3. t \in [Ids(kind) -> RowsOf(kind) \cup {None}] /\ v \in [Ids(kind) -> RowsOf(kind) \cup {None}]
        /\ \A i \in Ids(kind) : v[i] = t[i]
    BY <1>4, <2>1, <2>2 DEF Tables
  <2>4. v = t
    BY <2>3
  <2> QED BY <2>2, <2>4
<1> QED BY <1>1, <1>3, <1>6, <1>8 DEF QuietInv, Quiet, HasRows, HasCount, HeldIds, HeldRows

LEMMA QuietStays == Spec => [](WalkInv /\ QuietInv)
<1>1. WalkInv /\ WalkInv' /\ QuietInv /\ [Next]_vars => QuietInv'
  <2> SUFFICES ASSUME WalkInv, WalkInv', QuietInv, [Next]_vars PROVE QuietInv'
    OBVIOUS
  <2>1. CASE UNCHANGED vars
    <3>1. table' = table
      BY <2>1, TableKept DEF vars
    <3> QED BY <2>1, <3>1 DEF vars, QuietInv, Quiet, HasRows, HasCount, HeldIds, HeldRows
  <2>2. ASSUME NEW request \in Requests, BeginWalk(request) \/ BeginArticleWalk(request) PROVE QuietInv'
    BY <2>2, QuietBegins
  <2>3. CASE ReadRows
    BY <2>3, QuietRows
  <2>4. CASE ReadCount
    BY <2>4, QuietCount
  <2>5. CASE ReadSummary
    BY <2>5, QuietSummary
  <2>6. CASE Respond
    BY <2>6, QuietResponds
  <2>7. CASE Write
    BY <2>7, QuietWrites
  <2> QED BY <2>1, <2>2, <2>3, <2>4, <2>5, <2>6, <2>7 DEF Next
<1> QED BY <1>1, WalkStaysCounted, QuietStarts, PTL DEF Spec

(* As many items of the whole list are in P as there are members of P. *)
ItemsIn(s, P) == {n \in DOMAIN s : s[n] \in P}

LEMMA ListedCounts ==
  ASSUME NEW t \in Tables("workspace"), NEW r \in RequestsOf("workspace"), NEW A, NEW s \in Seq(A), NEW h,
         Listed(t, r, s, h, 0), Len(s) = Cardinality(MatchOf("workspace", t, r)),
         NEW P, P \subseteq MatchOf("workspace", t, r)
  PROVE  IsFiniteSet(ItemsIn(s, P)) /\ Cardinality(ItemsIn(s, P)) = Cardinality(P)
<1>0. PICK T : T = {n \in DOMAIN s : s[n] \in P}
  OBVIOUS
<1>1. PICK M, c : M = MatchOf("workspace", t, r) /\ c = Len(s)
  OBVIOUS
<1>2. "workspace" \in Kinds
  BY DEF Kinds
<1>3. DOMAIN s = 1 .. c /\ c \in Nat /\ c = Cardinality(M) /\ IsFiniteSet(P) /\ P \subseteq M
  BY <1>1, <1>2, Matches, FS_Subset
<1>4. \A n \in DOMAIN s : s[n] \in M /\ Rank("workspace", t, r, s[n]) = n - 1
  BY <1>1, <1>3 DEF Listed
<1>5. ASSUME NEW i \in M PROVE \E n \in DOMAIN s : s[n] = i
  <2>1. PICK k : k = Rank("workspace", t, r, i)
    OBVIOUS
  <2>2. k \in Nat /\ k < c
    BY <1>1, <1>2, <1>3, <2>1, RankFacts
  <2>3. k + 1 \in DOMAIN s /\ (k + 1) - 1 = k
    BY <1>3, <2>2
  <2>4. s[k + 1] \in M /\ Rank("workspace", t, r, s[k + 1]) = k
    BY <1>4, <2>3
  <2>5. s[k + 1] = i
    BY <1>1, <1>2, <2>1, <2>4, RanksDiffer
  <2> QED BY <2>3, <2>5
<1>6. \A m, n \in DOMAIN s : s[m] = s[n] => m = n
  <2> SUFFICES ASSUME NEW m \in DOMAIN s, NEW n \in DOMAIN s, s[m] = s[n] PROVE m = n
    OBVIOUS
  <2>1. m - 1 = n - 1 /\ m \in Nat /\ n \in Nat
    BY <1>3, <1>4
  <2> QED BY <2>1
<1>7. PICK f : f = [n \in T |-> s[n]]
  OBVIOUS
<1>8. f \in Bijection(T, P)
  <2>1. f \in [T -> P]
    BY <1>0, <1>7
  <2>2. \A m, n \in T : f[m] = f[n] => m = n
    BY <1>0, <1>6, <1>7
  <2>3. \A i \in P : \E n \in T : f[n] = i
    BY <1>0, <1>3, <1>5, <1>7
  <2> QED BY <2>1, <2>2, <2>3 DEF Bijection, Injection, Surjection, IsInjective
<1>9. ExistsBijection(T, P)
  BY <1>8 DEF ExistsBijection
<1>10. IsFiniteSet(T)
  <2>1. IsFiniteSet(DOMAIN s)
    BY <1>3, FS_Interval
  <2> QED BY <1>0, <2>1, FS_Subset
<1> QED BY <1>0, <1>9, <1>10, FS_Bijection DEF ItemsIn

(* Drafts, incomplete and ready rows in numbers *)
Divided(M, D, I, N, R, B) ==
  /\ IsFiniteSet(M) /\ D \subseteq M /\ I \subseteq M
  /\ N = I \ D /\ R = M \ (D \cup I) /\ B = D \cap I

LEMMA SummaryNumbers ==
  ASSUME NEW M, NEW D, NEW I, NEW N, NEW R, NEW B, Divided(M, D, I, N, R, B)
  PROVE  /\ Cardinality(D) + Cardinality(N) + Cardinality(R) = Cardinality(M)
         /\ Cardinality(B) + Cardinality(N) = Cardinality(I)
<1> USE DEF Divided
<1>1. IsFiniteSet(D) /\ IsFiniteSet(I) /\ IsFiniteSet(N) /\ IsFiniteSet(R) /\ IsFiniteSet(B)
  BY FS_Subset
<1>2. PICK a, b, c, e, f, m : /\ a = Cardinality(D) /\ b = Cardinality(N) /\ c = Cardinality(R)
                              /\ e = Cardinality(B) /\ f = Cardinality(I) /\ m = Cardinality(M)
  OBVIOUS
<1>3. a \in Nat /\ b \in Nat /\ c \in Nat /\ e \in Nat /\ f \in Nat /\ m \in Nat
  BY <1>1, <1>2, FS_CardinalityType
<1>4. f = e + b
  <2>1. B \cup N = I /\ B \cap N = {}
    OBVIOUS
  <2> QED BY <1>1, <1>2, <2>1, DisjointUnion
<1>5. PICK U : U = D \cup N
  OBVIOUS
<1>6. IsFiniteSet(U) /\ Cardinality(U) = a + b
  <2>1. D \cap N = {}
    OBVIOUS
  <2> QED BY <1>1, <1>2, <1>5, <2>1, DisjointUnion
<1>7. m = Cardinality(U) + c
  <2>1. U \cup R = M /\ U \cap R = {}
    BY <1>5
  <2> QED BY <1>1, <1>2, <1>6, <2>1, DisjointUnion
<1> QED BY <1>2, <1>3, <1>4, <1>6, <1>7

LEMMA SummaryAtEnd == WalkInv /\ QuietInv => SummaryMatchesPages
<1> SUFFICES ASSUME WalkInv, QuietInv, walk.pc = "done", kind = "workspace", written = 0
             PROVE  LET summary == walk.summary
                        shown == walk.shown
                        missing == {n \in DOMAIN shown : MissingFields(shown[n]) # {}}
                    IN /\ summary.total = walk.count /\ walk.count = Len(shown)
                       /\ summary.draft + summary.dangerous + summary.ready = summary.total
                       /\ summary.missingDraft + summary.dangerous =
                            Cardinality(missing) - Cardinality(missing \ Incomplete(shown))
  BY DEF SummaryMatchesPages
<1>1. PICK t, r, M, c, o : /\ t = table /\ r = walk.request /\ M = MatchOf("workspace", t, r)
                           /\ c = Cardinality(M) /\ o = Offset(r, walk.page)
  OBVIOUS
<1>2. PICK s, h, f : s = walk.seen /\ h = walk.shown /\ f = RowsAt(t, M)
  OBVIOUS
<1>3. /\ t \in Tables("workspace") /\ r \in RequestsOf("workspace") /\ "workspace" \in Kinds
      /\ s \in Seq(QuestionIds) /\ h \in Seq(JoinedRows)
  BY <1>1, <1>2 DEF WalkInv, TypeOK, Kinds, Ids, RowsOf
<1>4. Quiet
  BY DEF QuietInv
<1>5. /\ Listed(t, r, s, h, 0) /\ Len(s) = (IF c <= o THEN c ELSE o)
      /\ c <= o /\ walk.count = c /\ walk.summary = Summary(f)
  BY <1>1, <1>2, <1>4 DEF Quiet
<1>6. IsFiniteSet(M) /\ c \in Nat
  BY <1>1, <1>3, Matches, FS_CardinalityType
<1>7. Len(s) = c /\ DOMAIN h = DOMAIN s /\ DOMAIN s = 1 .. c
  BY <1>3, <1>5, <1>6 DEF Listed
<1>8. Len(h) = c
  BY <1>3, <1>6, <1>7
<1>9. PICK D, I : D = {i \in M : ~Published(t[i])} /\ I = {i \in M : MissingInSql(t[i]) # {}}
  OBVIOUS
<1>10. DOMAIN f = M /\ Drafts(f) = D /\ Incomplete(f) = I
  BY <1>2, <1>9 DEF RowsAt, Drafts, Incomplete
<1>11. PICK N, R, B : N = I \ D /\ R = M \ (D \cup I) /\ B = D \cap I
  OBVIOUS
<1>12. Summary(f) = [total |-> Cardinality(M), draft |-> Cardinality(D), missingDraft |-> Cardinality(B),
                     dangerous |-> Cardinality(N), ready |-> Cardinality(R)]
  BY <1>10, <1>11 DEF Summary
<1>13. PICK y : y = walk.summary
  OBVIOUS
<1>14. /\ y.total = c /\ y.draft + y.dangerous + y.ready = c
       /\ y.missingDraft + y.dangerous = Cardinality(I)
  <2>1. /\ y.total = c /\ y.draft = Cardinality(D) /\ y.missingDraft = Cardinality(B)
        /\ y.dangerous = Cardinality(N) /\ y.ready = Cardinality(R)
    BY <1>1, <1>5, <1>12, <1>13
  <2>2. Divided(M, D, I, N, R, B)
    BY <1>6, <1>9, <1>11 DEF Divided
  <2>3. /\ Cardinality(D) + Cardinality(N) + Cardinality(R) = Cardinality(M)
        /\ Cardinality(B) + Cardinality(N) = Cardinality(I)
    BY <2>2, SummaryNumbers
  <2> QED BY <1>1, <2>1, <2>3
<1>15. PICK missing, T : /\ missing = {n \in DOMAIN h : MissingFields(h[n]) # {}}
                         /\ T = Incomplete(h)
  OBVIOUS
<1>16. T = ItemsIn(s, I)
  <2>1. \A n \in DOMAIN s : s[n] \in M /\ h[n] = t[s[n]]
    BY <1>1, <1>5 DEF Listed
  <2>2. \A n \in DOMAIN s : MissingInSql(h[n]) # {} <=> s[n] \in I
    BY <1>9, <2>1
  <2> QED BY <1>7, <1>15, <2>2 DEF Incomplete, ItemsIn
<1>17. IsFiniteSet(T) /\ Cardinality(T) = Cardinality(I)
  <2>1. I \subseteq MatchOf("workspace", t, r)
    BY <1>1, <1>9
  <2>2. Len(s) = Cardinality(MatchOf("workspace", t, r))
    BY <1>1, <1>7
  <2> QED BY <1>3, <1>5, <1>16, <2>1, <2>2, ListedCounts
<1>18. T \subseteq missing
  <2> SUFFICES ASSUME NEW n \in DOMAIN h, MissingInSql(h[n]) # {} PROVE MissingFields(h[n]) # {}
    BY <1>15 DEF Incomplete
  <2>1. CASE h[n].grade = Null
    BY <2>1 DEF MissingFields
  <2>2. CASE h[n].grade # Null
    <3>1. PICK f0 \in DOMAIN h[n].texts : h[n].texts[f0] = "spaces"
      BY <2>2 DEF MissingInSql
    <3>2. "spaces" # "text"
      OBVIOUS
    <3> QED BY <3>1, <3>2 DEF MissingFields
  <2> QED BY <2>1, <2>2
<1>19. IsFiniteSet(missing)
  <2>1. IsFiniteSet(DOMAIN h)
    BY <1>6, <1>7, FS_Interval
  <2> QED BY <1>15, <2>1, FS_Subset
<1>20. Cardinality(missing) - Cardinality(missing \ T) = Cardinality(T)
  <2>1. Cardinality(missing \ T) = Cardinality(missing) - Cardinality(missing \cap T)
    BY <1>19, FS_Difference
  <2>2. missing \cap T = T
    BY <1>18
  <2>3. Cardinality(missing) \in Nat /\ Cardinality(T) \in Nat
    BY <1>17, <1>19, FS_CardinalityType
  <2>4. Cardinality(missing \cap T) = Cardinality(T)
    BY <2>2
  <2>5. PICK a, b : a = Cardinality(missing) /\ b = Cardinality(T)
    OBVIOUS
  <2>6. Cardinality(missing \ T) = a - b /\ a \in Nat /\ b \in Nat
    BY <2>1, <2>3, <2>4, <2>5
  <2>7. a - (a - b) = b
    BY <2>6
  <2> QED BY <2>5, <2>6, <2>7
<1>21. y.total = walk.count /\ walk.count = Len(h)
  BY <1>5, <1>8, <1>14
<1> QED BY <1>2, <1>13, <1>14, <1>15, <1>17, <1>20, <1>21

(* If no commit falls into a walk through the workspace, what its three
   statements compute, two in SQL and one in Python, fits together, for any
   questions, filter, sort and page size. *)
THEOREM SummaryAlwaysMatchesPages == Spec => []SummaryMatchesPages
BY QuietStays, SummaryAtEnd, PTL

-----------------------------------------------------------------------------
(* The filter options *)

LEMMA OptionsOfTable == OptionsLead
<1> SUFFICES ASSUME kind = "workspace" PROVE OptionsLead
  BY DEF OptionsLead
<1> DEFINE Leads(f) == \E q \in Rows : QuestionMatches(q, f)
<1>2. ASSUME NEW q, NEW f, f.from = None, f.to = None, f.missing = None, f.search = {},
             Among(q.sub.sheet, f.sheets), Among(q.sub.section, f.sections),
             Among(q.sub.id, f.subsections), Among(q.grade, f.grades),
             Among(q.frequency, f.frequencies), Among(q.status, f.statuses)
      PROVE  QuestionMatches(q, f)
  BY <1>2 DEF QuestionMatches, InDimensions, InState, InDates, Among
<1>3. ASSUME NEW q
      PROVE  /\ QuestionMatches(q, [NoFilter EXCEPT !.subsections = {q.sub.id}])
             /\ QuestionMatches(q, [NoFilter EXCEPT !.sections = {q.sub.section}])
             /\ QuestionMatches(q, [NoFilter EXCEPT !.sheets = {q.sub.sheet}])
             /\ QuestionMatches(q, [NoFilter EXCEPT !.grades = {q.grade}])
             /\ QuestionMatches(q, [NoFilter EXCEPT !.frequencies = {q.frequency}])
             /\ QuestionMatches(q, [NoFilter EXCEPT !.statuses = {q.status}])
  <2>1. QuestionMatches(q, [NoFilter EXCEPT !.subsections = {q.sub.id}])
    <3>1. PICK f : f = [NoFilter EXCEPT !.subsections = {q.sub.id}]
      OBVIOUS
    <3>2. /\ f.subsections = {q.sub.id} /\ f.from = None /\ f.to = None /\ f.missing = None
          /\ f.sheets = {} /\ f.sections = {} /\ f.grades = {}
          /\ f.frequencies = {} /\ f.statuses = {} /\ f.search = {}
      BY <3>1 DEF NoFilter
    <3>3. QuestionMatches(q, f)
      BY <1>2, <3>2 DEF Among
    <3> QED BY <3>1, <3>3
  <2>2. QuestionMatches(q, [NoFilter EXCEPT !.sections = {q.sub.section}])
    <3>1. PICK f : f = [NoFilter EXCEPT !.sections = {q.sub.section}]
      OBVIOUS
    <3>2. /\ f.sections = {q.sub.section} /\ f.from = None /\ f.to = None /\ f.missing = None
          /\ f.sheets = {} /\ f.subsections = {} /\ f.grades = {}
          /\ f.frequencies = {} /\ f.statuses = {} /\ f.search = {}
      BY <3>1 DEF NoFilter
    <3>3. QuestionMatches(q, f)
      BY <1>2, <3>2 DEF Among
    <3> QED BY <3>1, <3>3
  <2>3. QuestionMatches(q, [NoFilter EXCEPT !.sheets = {q.sub.sheet}])
    <3>1. PICK f : f = [NoFilter EXCEPT !.sheets = {q.sub.sheet}]
      OBVIOUS
    <3>2. /\ f.sheets = {q.sub.sheet} /\ f.from = None /\ f.to = None /\ f.missing = None
          /\ f.sections = {} /\ f.subsections = {} /\ f.grades = {}
          /\ f.frequencies = {} /\ f.statuses = {} /\ f.search = {}
      BY <3>1 DEF NoFilter
    <3>3. QuestionMatches(q, f)
      BY <1>2, <3>2 DEF Among
    <3> QED BY <3>1, <3>3
  <2>4. QuestionMatches(q, [NoFilter EXCEPT !.grades = {q.grade}])
    <3>1. PICK f : f = [NoFilter EXCEPT !.grades = {q.grade}]
      OBVIOUS
    <3>2. /\ f.grades = {q.grade} /\ f.from = None /\ f.to = None /\ f.missing = None
          /\ f.sheets = {} /\ f.sections = {} /\ f.subsections = {}
          /\ f.frequencies = {} /\ f.statuses = {} /\ f.search = {}
      BY <3>1 DEF NoFilter
    <3>3. QuestionMatches(q, f)
      BY <1>2, <3>2 DEF Among
    <3> QED BY <3>1, <3>3
  <2>5. QuestionMatches(q, [NoFilter EXCEPT !.frequencies = {q.frequency}])
    <3>1. PICK f : f = [NoFilter EXCEPT !.frequencies = {q.frequency}]
      OBVIOUS
    <3>2. /\ f.frequencies = {q.frequency} /\ f.from = None /\ f.to = None /\ f.missing = None
          /\ f.sheets = {} /\ f.sections = {} /\ f.subsections = {}
          /\ f.grades = {} /\ f.statuses = {} /\ f.search = {}
      BY <3>1 DEF NoFilter
    <3>3. QuestionMatches(q, f)
      BY <1>2, <3>2 DEF Among
    <3> QED BY <3>1, <3>3
  <2>6. QuestionMatches(q, [NoFilter EXCEPT !.statuses = {q.status}])
    <3>1. PICK f : f = [NoFilter EXCEPT !.statuses = {q.status}]
      OBVIOUS
    <3>2. /\ f.statuses = {q.status} /\ f.from = None /\ f.to = None /\ f.missing = None
          /\ f.sheets = {} /\ f.sections = {} /\ f.subsections = {}
          /\ f.grades = {} /\ f.frequencies = {} /\ f.search = {}
      BY <3>1 DEF NoFilter
    <3>3. QuestionMatches(q, f)
      BY <1>2, <3>2 DEF Among
    <3> QED BY <3>1, <3>3
  <2> QED BY <2>1, <2>2, <2>3, <2>4, <2>5, <2>6
<1>4. \A u \in OptionSubsections : Leads([NoFilter EXCEPT !.subsections = {u}])
  BY <1>3 DEF OptionSubsections
<1>5. \A c \in OptionSections : Leads([NoFilter EXCEPT !.sections = {c}])
  BY <1>3 DEF OptionSections
<1>6. \A x \in OptionSheets : Leads([NoFilter EXCEPT !.sheets = {x}])
  BY <1>3 DEF OptionSheets
<1>7. \A g \in OptionGrades : Leads([NoFilter EXCEPT !.grades = {g}])
  BY <1>3 DEF OptionGrades
<1>8. \A f \in OptionFrequencies : Leads([NoFilter EXCEPT !.frequencies = {f}])
  BY <1>3 DEF OptionFrequencies
<1>9. \A p \in OptionStatuses : Leads([NoFilter EXCEPT !.statuses = {p}])
  BY <1>3 DEF OptionStatuses
<1>10. \A q \in Rows :
         /\ \E u \in OptionSubsections : QuestionMatches(q, [NoFilter EXCEPT !.subsections = {u}])
         /\ \E p \in OptionStatuses : QuestionMatches(q, [NoFilter EXCEPT !.statuses = {p}])
  BY <1>3 DEF OptionSubsections, OptionStatuses
<1> QED BY <1>4, <1>5, <1>6, <1>7, <1>8, <1>9, <1>10 DEF OptionsLead

(* No filter option offered for the workspace is a dead end, whatever the
   table holds, and every question is reached by one. *)
THEOREM OptionsAlwaysLead == Spec => []OptionsLead
BY OptionsOfTable, PTL

-----------------------------------------------------------------------------
(* The grouped lists.  A list is in order of its keys, which begin with the
   structure: what lies between two items of a section or a subsection is of
   it too, and the runs of equal names are the classes of the items. *)

(* names cuts a list of N items like cls does, and no class is interrupted. *)
CutAlike(names, cls, N) ==
  /\ N \in Nat /\ DOMAIN names = 1 .. N /\ DOMAIN cls = 1 .. N
  /\ \A m, n \in 1 .. N : names[m] = names[n] <=> cls[m] = cls[n]
  /\ \A k, m, n \in 1 .. N : m < k /\ k < n /\ cls[m] = cls[n] => cls[k] = cls[m]

Class(cls, c) == {n \in DOMAIN cls : cls[n] = c}
ClassesOf(cls) == {cls[n] : n \in DOMAIN cls}

LEMMA ClassIsGroup ==
  ASSUME NEW names, NEW cls, NEW N, CutAlike(names, cls, N), NEW i \in 1 .. N
  PROVE  Class(cls, cls[i]) \in Groups(names)
<1>0. /\ N \in Nat /\ DOMAIN names = 1 .. N /\ DOMAIN cls = 1 .. N
      /\ \A m, n \in 1 .. N : names[m] = names[n] <=> cls[m] = cls[n]
      /\ \A k, m, n \in 1 .. N : m < k /\ k < n /\ cls[m] = cls[n] => cls[k] = cls[m]
  BY DEF CutAlike
<1>1. PICK g : g = Class(cls, cls[i])
  OBVIOUS
<1>2. g = {n \in 1 .. N : cls[n] = cls[i]} /\ i \in g /\ g \subseteq 1 .. N
  BY <1>0, <1>1 DEF Class
<1>3. g \subseteq Nat /\ IsFiniteSet(g)
  <2>1. IsFiniteSet(1 .. N)
    BY <1>0, FS_Interval
  <2> QED BY <1>0, <1>2, <2>1, FS_Subset
<1>4. PICK m \in g : \A n \in g : m <= n
  BY <1>2, <1>3, LeastExists
<1>5. PICK n \in g : \A k \in g : k <= n
  BY <1>2, <1>3, LargestExists
<1>6. g = m .. n
  <2>1. ASSUME NEW k \in g PROVE k \in m .. n
    BY <1>3, <1>4, <1>5
  <2>2. ASSUME NEW k \in m .. n PROVE k \in g
    <3>1. k \in 1 .. N /\ m \in 1 .. N /\ n \in 1 .. N /\ cls[m] = cls[i] /\ cls[n] = cls[i]
      BY <1>0, <1>2
    <3>2. k = m \/ k = n \/ (m < k /\ k < n)
      BY <3>1
    <3>3. cls[k] = cls[i]
      BY <1>0, <3>1, <3>2
    <3> QED BY <1>2, <3>1, <3>3
  <2> QED BY <2>1, <2>2
<1>7. g \in {x .. y : x, y \in DOMAIN names}
  BY <1>0, <1>2, <1>6
<1>8. \A x, y \in g : names[x] = names[y]
  BY <1>0, <1>2
<1>9. \A x \in DOMAIN names \ g : \A y \in g : names[x] # names[y]
  BY <1>0, <1>2
<1>10. g \in {h \in SUBSET DOMAIN names :
               /\ h # {}
               /\ \A x, y \in h : names[x] = names[y]
               /\ \A y \in DOMAIN names \ h : (y + 1 \in h \/ y - 1 \in h) =>
                    \A x \in h : names[y] # names[x]}
  <2>1. g \in SUBSET DOMAIN names /\ g # {}
    BY <1>0, <1>2
  <2> QED BY <1>8, <1>9, <2>1
<1> QED BY <1>1, <1>7, <1>10 DEF Groups

LEMMA GroupIsClass ==
  ASSUME NEW names, NEW cls, NEW N, CutAlike(names, cls, N), NEW g \in Groups(names)
  PROVE  \E i \in 1 .. N : g = Class(cls, cls[i])
<1>0. /\ N \in Nat /\ DOMAIN names = 1 .. N /\ DOMAIN cls = 1 .. N
      /\ \A m, n \in 1 .. N : names[m] = names[n] <=> cls[m] = cls[n]
      /\ \A k, m, n \in 1 .. N : m < k /\ k < n /\ cls[m] = cls[n] => cls[k] = cls[m]
  BY DEF CutAlike
<1>1. /\ g \in {x .. y : x, y \in DOMAIN names} /\ g \subseteq 1 .. N /\ g # {}
      /\ \A x, y \in g : names[x] = names[y]
      /\ \A x \in 1 .. N \ g : (x + 1 \in g \/ x - 1 \in g) => \A y \in g : names[x] # names[y]
  <2>1. g \in {x .. y : x, y \in DOMAIN names}
    BY DEF Groups
  <2>2. g \in {h \in SUBSET DOMAIN names :
                 /\ h # {}
                 /\ \A x, y \in h : names[x] = names[y]
                 /\ \A y \in DOMAIN names \ h : (y + 1 \in h \/ y - 1 \in h) =>
                      \A x \in h : names[y] # names[x]}
    BY DEF Groups
  <2>3. /\ g \in SUBSET DOMAIN names /\ g # {}
        /\ \A x, y \in g : names[x] = names[y]
        /\ \A y \in DOMAIN names \ g : (y + 1 \in g \/ y - 1 \in g) => \A x \in g : names[y] # names[x]
    BY <2>2
  <2>4. DOMAIN names = 1 .. N
    BY <1>0
  <2> QED BY <2>1, <2>3, <2>4
<1>2. PICK m \in 1 .. N, n \in 1 .. N : g = m .. n
  BY <1>0, <1>1
<1>3. m <= n /\ m \in g /\ n \in g
  BY <1>1, <1>2
<1>4. ASSUME NEW k \in g PROVE cls[k] = cls[m]
  BY <1>0, <1>1, <1>3
<1>5. ASSUME NEW k \in 1 .. N, cls[k] = cls[m] PROVE k \in g
  <2>1. ASSUME k < m PROVE FALSE
    <3>1. m - 1 \in 1 .. N /\ m - 1 \notin g /\ (m - 1) + 1 \in g
      BY <1>0, <1>2, <1>3, <2>1
    <3>2. names[m - 1] # names[m]
      BY <1>1, <1>3, <3>1
    <3>3. m - 1 = k \/ (k < m - 1 /\ m - 1 < m)
      BY <2>1
    <3>4. cls[m - 1] = cls[m]
      BY <1>0, <1>5, <3>1, <3>3
    <3> QED BY <1>0, <3>1, <3>2, <3>4
  <2>2. ASSUME n < k PROVE FALSE
    <3>1. n + 1 \in 1 .. N /\ n + 1 \notin g /\ (n + 1) - 1 \in g
      BY <1>0, <1>2, <1>3, <2>2
    <3>2. names[n + 1] # names[n]
      BY <1>1, <1>3, <3>1
    <3>3. n + 1 = k \/ (n < n + 1 /\ n + 1 < k)
      BY <2>2
    <3>4. cls[n] = cls[m]
      BY <1>3, <1>4
    <3>5. cls[n + 1] = cls[n]
      BY <1>0, <1>5, <3>1, <3>3, <3>4
    <3> QED BY <1>0, <3>1, <3>2, <3>5
  <2> QED BY <1>2, <2>1, <2>2
<1>6. g = Class(cls, cls[m])
  BY <1>0, <1>1, <1>4, <1>5 DEF Class
<1> QED BY <1>6

LEMMA GroupsAreClasses ==
  ASSUME NEW names, NEW cls, NEW N, CutAlike(names, cls, N)
  PROVE  Cardinality(Groups(names)) = Cardinality(ClassesOf(cls))
<1>0. N \in Nat /\ DOMAIN cls = 1 .. N
  BY DEF CutAlike
<1>1. PICK C, G : C = ClassesOf(cls) /\ G = Groups(names)
  OBVIOUS
<1>2. PICK f : f = [c \in C |-> Class(cls, c)]
  OBVIOUS
<1>3. \A c \in C : \E i \in 1 .. N : c = cls[i]
  BY <1>0, <1>1 DEF ClassesOf
<1>4. \A i \in 1 .. N : cls[i] \in C
  BY <1>0, <1>1 DEF ClassesOf
<1>5. f \in [C -> G]
  <2>1. \A c \in C : Class(cls, c) \in G
    BY <1>1, <1>3, ClassIsGroup
  <2> QED BY <1>2, <2>1
<1>6. \A c, e \in C : f[c] = f[e] => c = e
  <2> SUFFICES ASSUME NEW c \in C, NEW e \in C, f[c] = f[e] PROVE c = e
    OBVIOUS
  <2>1. PICK i \in 1 .. N : c = cls[i]
    BY <1>3
  <2>2. i \in Class(cls, c)
    BY <1>0, <2>1 DEF Class
  <2>3. i \in Class(cls, e)
    BY <1>2, <2>2
  <2> QED BY <2>1, <2>3 DEF Class
<1>7. \A g \in G : \E c \in C : f[c] = g
  <2> SUFFICES ASSUME NEW g \in G PROVE \E c \in C : f[c] = g
    OBVIOUS
  <2>1. PICK i \in 1 .. N : g = Class(cls, cls[i])
    BY <1>1, GroupIsClass
  <2> QED BY <1>2, <1>4, <2>1
<1>8. ExistsBijection(C, G)
  <2>1. f \in Bijection(C, G)
    BY <1>5, <1>6, <1>7 DEF Bijection, Injection, Surjection, IsInjective
  <2> QED BY <2>1 DEF ExistsBijection
<1>9. IsFiniteSet(C)
  <2>1. PICK h : h = [i \in 1 .. N |-> cls[i]]
    OBVIOUS
  <2>2. h \in Surjection(1 .. N, C)
    BY <1>3, <1>4, <2>1 DEF Surjection
  <2>3. IsFiniteSet(1 .. N)
    BY <1>0, FS_Interval
  <2> QED BY <2>2, <2>3, FS_Surjection
<1> QED BY <1>1, <1>8, <1>9, FS_Bijection

(* What is between two keys that begin alike begins like them. *)
AlikeUpTo(a, c, p) == \A x \in 1 .. p : a[x] = c[x]

LEMMA Squeezed ==
  ASSUME NEW N \in Nat, NEW a \in [1 .. N -> Int], NEW b \in [1 .. N -> Int], NEW c \in [1 .. N -> Int],
         Less(a, b), Less(b, c), NEW p \in 1 .. N, AlikeUpTo(a, c, p)
  PROVE  AlikeUpTo(b, a, p)
<1> USE DEF AlikeUpTo
<1>1. PICK m \in 1 .. N : a[m] < b[m] /\ \A x \in 1 .. m - 1 : a[x] = b[x]
  BY DEF Less
<1>2. PICK n \in 1 .. N : b[n] < c[n] /\ \A x \in 1 .. n - 1 : b[x] = c[x]
  BY DEF Less
<1>3. \A x \in 1 .. N : a[x] \in Int /\ b[x] \in Int /\ c[x] \in Int
  OBVIOUS
<1>4. CASE p < m
  <2>1. \A x \in 1 .. p : x \in 1 .. m - 1
    BY <1>4
  <2> QED BY <1>1, <2>1
<1>5. CASE m <= p
  <2>1. m \in 1 .. p /\ a[m] = c[m]
    BY <1>5
  <2>2. CASE m < n
    <3>1. m \in 1 .. n - 1
      BY <2>2
    <3> QED BY <1>1, <1>2, <1>3, <2>1, <3>1
  <2>3. CASE m = n
    BY <1>1, <1>2, <1>3, <2>1, <2>3
  <2>4. CASE n < m
    <3>1. n \in 1 .. m - 1 /\ n \in 1 .. p
      BY <1>5, <2>4
    <3> QED BY <1>1, <1>2, <1>3, <3>1
  <2> QED BY <2>2, <2>3, <2>4
<1> QED BY <1>4, <1>5

LEMMA ListKeyFacts ==
  ASSUME NEW q \in JoinedRows, NEW i \in Int
  PROVE  LET u == q.sub  k == ListKey(i, q) IN
         /\ k \in [1 .. 8 -> Int] /\ k[8] = i
         /\ k[1] = u.sheetPriority /\ k[2] = u.sheet /\ k[3] = u.sectionPriority
         /\ k[4] = u.section /\ k[5] = u.priority /\ k[6] = u.id
<1>1. PICK a, b, c, d, e, f, g :
        /\ a = q.sub.sheetPriority /\ b = q.sub.sheet /\ c = q.sub.sectionPriority
        /\ d = q.sub.section /\ e = q.sub.priority /\ f = q.sub.id /\ g = NullsLast(q.grade)
        /\ a \in Int /\ b \in Int /\ c \in Int /\ d \in Int /\ e \in Int /\ f \in Int /\ g \in Int
  BY QuestionFields, StructureKeyTyped
<1>2. PICK s, x, k : s = <<a, b, c, d, e, f>> /\ x = <<g, i>> /\ k = s \o x
  OBVIOUS
<1>3. ListKey(i, q) = k
  BY <1>1, <1>2 DEF ListKey, StructureKey
<1>4. /\ s \in Seq(Int) /\ x \in Seq(Int) /\ Len(s) = 6 /\ Len(x) = 2
      /\ s[1] = a /\ s[2] = b /\ s[3] = c /\ s[4] = d /\ s[5] = e /\ s[6] = f /\ x[2] = i
  BY <1>1, <1>2
<1>5. /\ k \in Seq(Int) /\ Len(k) = 6 + 2
      /\ \A n \in 1 .. 6 : k[n] = s[n]
      /\ \A n \in 1 .. 2 : k[6 + n] = x[n]
  BY <1>2, <1>4, Appended
<1>6. Len(k) = 8 /\ k[8] = x[2]
  <2>1. 6 + 2 = 8 /\ 2 \in 1 .. 2
    OBVIOUS
  <2>2. PICK m, y : m = 6 + 2 /\ y = 2
    OBVIOUS
  <2>3. k[6 + y] = x[y] /\ 6 + y = m
    BY <1>5, <2>1, <2>2
  <2>4. k[m] = x[y] /\ Len(k) = m
    BY <1>5, <2>2, <2>3
  <2> QED BY <2>1, <2>2, <2>4
<1>7. k \in [1 .. 8 -> Int]
  <2>1. k \in [1 .. Len(k) -> Int]
    BY <1>5, LenProperties
  <2> QED BY <1>6, <2>1
<1> QED BY <1>1, <1>3, <1>4, <1>5, <1>6, <1>7

(* Questions of a sheet in the order of their keys *)
SheetItems(t, sheet, only) ==
  {i \in Present(t) : t[i].sub.sheet = sheet /\ (only => Available(t[i]))}
InOrder(t, s) ==
  \A m, n \in DOMAIN s : m < n => Less(ListKey(s[m], t[s[m]]), ListKey(s[n], t[s[n]]))
ListOf(t, sheet, only) == CHOOSE s \in SetToSeqs(SheetItems(t, sheet, only)) : InOrder(t, s)

LEMMA SheetItemsTyped ==
  ASSUME NEW t \in Tables("workspace"), NEW sheet, NEW only
  PROVE  /\ IsFiniteSet(SheetItems(t, sheet, only))
         /\ \A i \in SheetItems(t, sheet, only) :
              i \in Int /\ t[i] \in JoinedRows /\ t[i].sub.sheet = sheet
<1>1. IsFiniteSet(QuestionIds) /\ QuestionIds \subseteq Int
  BY ListingAssumptions
<1>2. DOMAIN t = QuestionIds /\ \A i \in QuestionIds : t[i] \in JoinedRows \cup {None}
  BY DEF Tables, Ids, RowsOf
<1>3. SheetItems(t, sheet, only) \subseteq QuestionIds
  BY <1>2 DEF SheetItems, Present
<1>4. \A i \in SheetItems(t, sheet, only) : t[i] # None /\ t[i].sub.sheet = sheet
  BY DEF SheetItems, Present
<1> QED BY <1>1, <1>2, <1>3, <1>4, FS_Subset

LEMMA ListIsInOrder ==
  ASSUME NEW t \in Tables("workspace"), NEW sheet, NEW only
  PROVE  /\ ListOf(t, sheet, only) \in SetToSeqs(SheetItems(t, sheet, only))
         /\ InOrder(t, ListOf(t, sheet, only))
<1>1. PICK S, key : S = SheetItems(t, sheet, only) /\ key = [i \in S |-> ListKey(i, t[i])]
  OBVIOUS
<1>2. IsFiniteSet(S) /\ \A i \in S : i \in Int /\ t[i] \in JoinedRows
  BY <1>1, SheetItemsTyped
<1>3. \A i \in S : key[i] = ListKey(i, t[i]) /\ key[i] \in [1 .. 8 -> Int] /\ key[i][8] = i
  BY <1>1, <1>2, ListKeyFacts
<1>4. PICK R : R = {p \in S \X S : Less(key[p[1]], key[p[2]])}
  OBVIOUS
<1>5. \A i, j \in S : <<i, j>> \in R <=> Less(key[i], key[j])
  BY <1>4
<1>6. \A i, j \in S : /\ Less(key[i], key[j]) => key[i] # key[j]
                      /\ i # j => Less(key[i], key[j]) \/ Less(key[j], key[i])
  <2> SUFFICES ASSUME NEW i \in S, NEW j \in S
               PROVE  /\ Less(key[i], key[j]) => key[i] # key[j]
                      /\ i # j => Less(key[i], key[j]) \/ Less(key[j], key[i])
    OBVIOUS
  <2>1. 8 \in Nat /\ key[i] \in [1 .. 8 -> Int] /\ key[j] \in [1 .. 8 -> Int]
    BY <1>3
  <2>2. /\ Less(key[i], key[j]) => key[i] # key[j]
        /\ key[i] # key[j] => Less(key[i], key[j]) \/ Less(key[j], key[i])
    BY <2>1, LessFacts
  <2> QED BY <1>3, <2>2
<1>7. \A i, j, k \in S : Less(key[i], key[j]) /\ Less(key[j], key[k]) => Less(key[i], key[k])
  <2> SUFFICES ASSUME NEW i \in S, NEW j \in S, NEW k \in S, Less(key[i], key[j]), Less(key[j], key[k])
               PROVE  Less(key[i], key[k])
    OBVIOUS
  <2>1. 8 \in Nat /\ key[i] \in [1 .. 8 -> Int] /\ key[j] \in [1 .. 8 -> Int] /\ key[k] \in [1 .. 8 -> Int]
    BY <1>3
  <2> QED BY <2>1, LessTransitive
<1>8. PICK s \in SetToSeqs(S) : SortedBy(s, R)
  <2>1. \A i \in S : <<i, i>> \notin R
    BY <1>5, <1>6
  <2>2. \A i, j, k \in S : <<i, j>> \in R /\ <<j, k>> \in R => <<i, k>> \in R
    BY <1>5, <1>7
  <2> QED BY <1>2, <2>1, <2>2, SortedExists
<1>9. InOrder(t, s)
  <2>1. \A n \in DOMAIN s : s[n] \in S
    BY <1>2, <1>8, ListsAll
  <2>2. \A m, n \in DOMAIN s : s[m] = s[n] => m = n
    BY <1>2, <1>8, ListsAll
  <2>3. DOMAIN s = 1 .. Cardinality(S)
    BY <1>2, <1>8, ListsAll
  <2> SUFFICES ASSUME NEW m \in DOMAIN s, NEW n \in DOMAIN s, m < n
               PROVE  Less(ListKey(s[m], t[s[m]]), ListKey(s[n], t[s[n]]))
    BY DEF InOrder
  <2>4. <<s[n], s[m]>> \notin R
    BY <1>8 DEF SortedBy
  <2>5. s[m] # s[n]
    <3>1. m # n
      BY <2>3, FS_CardinalityType, <1>2
    <3> QED BY <2>2, <3>1
  <2>6. Less(key[s[m]], key[s[n]])
    BY <1>5, <1>6, <2>1, <2>4, <2>5
  <2> QED BY <1>3, <2>1, <2>6
<1>10. \E z \in SetToSeqs(SheetItems(t, sheet, only)) : InOrder(t, z)
  BY <1>1, <1>8, <1>9
<1> QED BY <1>10 DEF ListOf

(* The places of the table's questions: those of one section, and of one
   subsection, agree. *)
PlacedBy(t, p) ==
  \A i \in DOMAIN t : t[i] # None => \E u \in DOMAIN Subsections : t[i].sub = Place(p, u)

LEMMA ViewPlaced ==
  ASSUME NEW m \in Contents("workspace"), NEW p
  PROVE  PlacedBy(View("workspace", m, p), p)
<1>1. m \in [QuestionIds -> Questions \cup {None}]
  BY DEF Contents, Ids, Stored
<1>2. PICK t : t = View("workspace", m, p)
  OBVIOUS
<1>3. t = [i \in DOMAIN m |-> IF m[i] = None THEN None ELSE Joined(p, m[i])]
  BY <1>2 DEF View
<1>4. ASSUME NEW i \in DOMAIN t, t[i] # None
      PROVE  \E u \in DOMAIN Subsections : t[i].sub = Place(p, u)
  <2>1. t[i] = Joined(p, m[i]) /\ m[i] \in Questions
    BY <1>1, <1>3, <1>4
  <2>2. Joined(p, m[i]).sub = Place(p, m[i].sub) /\ m[i].sub \in DOMAIN Subsections
    BY <2>1 DEF Joined, Questions
  <2> QED BY <2>1, <2>2
<1> QED BY <1>2, <1>4 DEF PlacedBy

LEMMA PlacedAlike ==
  ASSUME NEW p, NEW e \in DOMAIN Subsections, NEW f \in DOMAIN Subsections, NEW x, NEW z,
         x = Place(p, e), z = Place(p, f)
  PROVE  /\ x.section = z.section =>
              /\ x.sheet = z.sheet /\ x.sheetPriority = z.sheetPriority
              /\ x.sectionPriority = z.sectionPriority
         /\ x.id = z.id => x = z
         /\ x.sheet = z.sheet => (x.sectionName = z.sectionName <=> x.section = z.section)
         /\ x.section = z.section => (x.name = z.name <=> x.id = z.id)
<1>1. PICK c, d : c = Subsections[e] /\ d = Subsections[f]
  OBVIOUS
<1>2. /\ x.sheetPriority = p.sheet[c.sheet] /\ x.sheet = c.sheet
      /\ x.sectionPriority = p.section[c.section] /\ x.section = c.section
      /\ x.sectionName = c.sectionName /\ x.id = e /\ x.name = c.name
  BY <1>1 DEF Place
<1>3. /\ z.sheetPriority = p.sheet[d.sheet] /\ z.sheet = d.sheet
      /\ z.sectionPriority = p.section[d.section] /\ z.section = d.section
      /\ z.sectionName = d.sectionName /\ z.id = f /\ z.name = d.name
  BY <1>1 DEF Place
<1>4. /\ c.section = d.section => c.sheet = d.sheet /\ c.sectionName = d.sectionName
      /\ c.sheet = d.sheet /\ c.sectionName = d.sectionName => c.section = d.section
      /\ c.section = d.section /\ c.name = d.name => e = f
  BY <1>1, ListingAssumptions
<1>5. x.section = z.section =>
        x.sheet = z.sheet /\ x.sheetPriority = z.sheetPriority /\ x.sectionPriority = z.sectionPriority
  BY <1>2, <1>3, <1>4
<1>6. x.id = z.id => x = z
  BY <1>2, <1>3
<1>7. x.sheet = z.sheet => (x.sectionName = z.sectionName <=> x.section = z.section)
  BY <1>2, <1>3, <1>4
<1>8. x.section = z.section => (x.name = z.name <=> x.id = z.id)
  BY <1>1, <1>2, <1>3, <1>4
<1> QED BY <1>5, <1>6, <1>7, <1>8

Sub(t, i) == t[i].sub.id
Section(t, i) == t[i].sub.section
Sections(t, s) == [n \in DOMAIN s |-> Section(t, s[n])]
Subs(t, s) == [n \in DOMAIN s |-> Sub(t, s[n])]

LEMMA ListPlaced ==
  ASSUME NEW t \in Tables("workspace"), NEW p, PlacedBy(t, p), NEW sheet, NEW only,
         NEW s \in Seq(SheetItems(t, sheet, only))
  PROVE  \A n \in DOMAIN s : /\ s[n] \in Int /\ t[s[n]] \in JoinedRows /\ t[s[n]].sub.sheet = sheet
                             /\ \E u \in DOMAIN Subsections : t[s[n]].sub = Place(p, u)
<1>1. \A n \in DOMAIN s : s[n] \in SheetItems(t, sheet, only)
  OBVIOUS
<1>2. \A n \in DOMAIN s : s[n] \in DOMAIN t /\ t[s[n]] # None
  BY <1>1 DEF SheetItems, Present
<1> QED BY <1>1, <1>2, SheetItemsTyped DEF PlacedBy

LEMMA Uninterrupted ==
  ASSUME NEW t \in Tables("workspace"), NEW p, PlacedBy(t, p), NEW sheet, NEW only,
         NEW s \in Seq(SheetItems(t, sheet, only)), InOrder(t, s),
         NEW k \in DOMAIN s, NEW m \in DOMAIN s, NEW n \in DOMAIN s, m < k, k < n
  PROVE  /\ Section(t, s[m]) = Section(t, s[n]) => Section(t, s[k]) = Section(t, s[m])
         /\ Sub(t, s[m]) = Sub(t, s[n]) => Sub(t, s[k]) = Sub(t, s[m])
<1>2. \A x \in DOMAIN s : /\ s[x] \in Int /\ t[s[x]] \in JoinedRows
                           /\ \E u \in DOMAIN Subsections : t[s[x]].sub = Place(p, u)
  BY ListPlaced
<1>3. PICK a, b, c : /\ a = ListKey(s[m], t[s[m]]) /\ b = ListKey(s[k], t[s[k]])
                     /\ c = ListKey(s[n], t[s[n]])
  OBVIOUS
<1>4. Less(a, b) /\ Less(b, c)
  BY <1>3 DEF InOrder
<1>5. PICK u, v, w : u = t[s[m]].sub /\ v = t[s[k]].sub /\ w = t[s[n]].sub
  OBVIOUS
<1>7. /\ a \in [1 .. 8 -> Int] /\ a[1] = u.sheetPriority /\ a[2] = u.sheet /\ a[3] = u.sectionPriority
      /\ a[4] = u.section /\ a[5] = u.priority /\ a[6] = u.id
  BY <1>2, <1>3, <1>5, ListKeyFacts
<1>8. b \in [1 .. 8 -> Int] /\ b[4] = v.section /\ b[6] = v.id
  BY <1>2, <1>3, <1>5, ListKeyFacts
<1>9. /\ c \in [1 .. 8 -> Int] /\ c[1] = w.sheetPriority /\ c[2] = w.sheet /\ c[3] = w.sectionPriority
      /\ c[4] = w.section /\ c[5] = w.priority /\ c[6] = w.id
  BY <1>2, <1>3, <1>5, ListKeyFacts
<1>10. PICK e \in DOMAIN Subsections, f \in DOMAIN Subsections : u = Place(p, e) /\ w = Place(p, f)
  BY <1>2, <1>5
<1>11. ASSUME u.section = w.section PROVE v.section = u.section
  <2>1. u.sheet = w.sheet /\ u.sectionPriority = w.sectionPriority /\ u.sheetPriority = w.sheetPriority
    BY <1>10, <1>11, PlacedAlike
  <2>2. a[1] = c[1] /\ a[2] = c[2] /\ a[3] = c[3] /\ a[4] = c[4]
    BY <1>7, <1>9, <1>11, <2>1
  <2>3. \A j \in 1 .. 4 : j = 1 \/ j = 2 \/ j = 3 \/ j = 4
    OBVIOUS
  <2>4. AlikeUpTo(a, c, 4)
    BY <2>2, <2>3 DEF AlikeUpTo
  <2>5. 4 \in 1 .. 8 /\ 4 \in 1 .. 4 /\ 8 \in Nat
    OBVIOUS
  <2>5a. a \in [1 .. 8 -> Int] /\ b \in [1 .. 8 -> Int] /\ c \in [1 .. 8 -> Int]
    BY <1>7, <1>8, <1>9
  <2>5b. AlikeUpTo(b, a, 4)
    BY <1>4, <2>4, <2>5, <2>5a, Squeezed
  <2>6. b[4] = a[4]
    BY <2>5, <2>5b DEF AlikeUpTo
  <2> QED BY <1>7, <1>8, <2>6
<1>12. ASSUME u.id = w.id PROVE v.id = u.id
  <2>0. u = w
    BY <1>10, <1>12, PlacedAlike
  <2>1. a[1] = c[1] /\ a[2] = c[2] /\ a[3] = c[3] /\ a[4] = c[4] /\ a[5] = c[5] /\ a[6] = c[6]
    BY <1>7, <1>9, <2>0
  <2>2. \A j \in 1 .. 6 : j = 1 \/ j = 2 \/ j = 3 \/ j = 4 \/ j = 5 \/ j = 6
    OBVIOUS
  <2>3. AlikeUpTo(a, c, 6)
    BY <2>1, <2>2 DEF AlikeUpTo
  <2>4. 6 \in 1 .. 8 /\ 6 \in 1 .. 6 /\ 8 \in Nat
    OBVIOUS
  <2>4a. a \in [1 .. 8 -> Int] /\ b \in [1 .. 8 -> Int] /\ c \in [1 .. 8 -> Int]
    BY <1>7, <1>8, <1>9
  <2>4b. AlikeUpTo(b, a, 6)
    BY <1>4, <2>3, <2>4, <2>4a, Squeezed
  <2>5. b[6] = a[6]
    BY <2>4, <2>4b DEF AlikeUpTo
  <2> QED BY <1>7, <1>8, <2>5
<1> QED BY <1>5, <1>11, <1>12 DEF Section, Sub

LEMMA SectionsAreCut ==
  ASSUME NEW t \in Tables("workspace"), NEW p, PlacedBy(t, p), NEW sheet, NEW only,
         NEW s \in Seq(SheetItems(t, sheet, only)), InOrder(t, s)
  PROVE  CutAlike(SectionNames(t, s), Sections(t, s), Len(s))
<1>1. DOMAIN s = 1 .. Len(s) /\ Len(s) \in Nat
  OBVIOUS
<1>2. \A x \in DOMAIN s : /\ t[s[x]].sub.sheet = sheet
                           /\ \E u \in DOMAIN Subsections : t[s[x]].sub = Place(p, u)
  BY ListPlaced
<1>3. \A m, n \in DOMAIN s :
        t[s[m]].sub.sectionName = t[s[n]].sub.sectionName <=> Section(t, s[m]) = Section(t, s[n])
  BY <1>2, PlacedAlike DEF Section
<1>4. PICK names, cls : names = SectionNames(t, s) /\ cls = Sections(t, s)
  OBVIOUS
<1>5. DOMAIN names = DOMAIN s /\ DOMAIN cls = DOMAIN s /\ \A n \in DOMAIN s : cls[n] = Section(t, s[n])
  BY <1>4 DEF SectionNames, Sections
<1>6. \A m, n \in DOMAIN s : names[m] = names[n] <=> cls[m] = cls[n]
  BY <1>3, <1>4 DEF SectionNames, Sections
<1>7. \A k, m, n \in DOMAIN s : m < k /\ k < n /\ cls[m] = cls[n] => cls[k] = cls[m]
  BY <1>5, Uninterrupted
<1> QED BY <1>1, <1>4, <1>5, <1>6, <1>7 DEF CutAlike

LEMMA SubsectionsAreCut ==
  ASSUME NEW t \in Tables("workspace"), NEW p, PlacedBy(t, p), NEW sheet, NEW only,
         NEW s \in Seq(SheetItems(t, sheet, only)), InOrder(t, s),
         \A m, n \in DOMAIN s : Section(t, s[m]) = Section(t, s[n])
  PROVE  CutAlike(SubsectionNames(t, s), Subs(t, s), Len(s))
<1>1. DOMAIN s = 1 .. Len(s) /\ Len(s) \in Nat
  OBVIOUS
<1>2. \A x \in DOMAIN s : \E u \in DOMAIN Subsections : t[s[x]].sub = Place(p, u)
  BY ListPlaced
<1>3. \A m, n \in DOMAIN s :
        t[s[m]].sub.name = t[s[n]].sub.name <=> Sub(t, s[m]) = Sub(t, s[n])
  BY <1>2, PlacedAlike DEF Section, Sub
<1>4. PICK names, cls : names = SubsectionNames(t, s) /\ cls = Subs(t, s)
  OBVIOUS
<1>5. DOMAIN names = DOMAIN s /\ DOMAIN cls = DOMAIN s /\ \A n \in DOMAIN s : cls[n] = Sub(t, s[n])
  BY <1>4 DEF SubsectionNames, Subs
<1>6. \A m, n \in DOMAIN s : names[m] = names[n] <=> cls[m] = cls[n]
  BY <1>3, <1>4 DEF SubsectionNames, Subs
<1>7. \A k, m, n \in DOMAIN s : m < k /\ k < n /\ cls[m] = cls[n] => cls[k] = cls[m]
  BY <1>5, Uninterrupted
<1> QED BY <1>1, <1>4, <1>5, <1>6, <1>7 DEF CutAlike

(* A part of a list is in order too. *)
LEMMA PartInOrder ==
  ASSUME NEW t, NEW S, NEW s \in Seq(S), InOrder(t, s), NEW a \in 1 .. Len(s), NEW b \in 1 .. Len(s), a <= b
  PROVE  /\ SubSeq(s, a, b) \in Seq(S) /\ InOrder(t, SubSeq(s, a, b))
         /\ \A n \in DOMAIN SubSeq(s, a, b) : \E m \in a .. b : SubSeq(s, a, b)[n] = s[m]
<1>1. PICK p, z : p = SubSeq(s, a, b) /\ z = b - a + 1
  OBVIOUS
<1>2. DOMAIN s = 1 .. Len(s) /\ Len(s) \in Nat
  OBVIOUS
<1>3. z \in Nat /\ a \in Nat /\ b \in Nat
  BY <1>1, <1>2
<1>4. p \in Seq(S) /\ Len(p) = z /\ \A n \in 1 .. z : p[n] = s[a + n - 1]
  BY <1>1, <1>2, <1>3
<1>5. DOMAIN p = 1 .. z
  BY <1>4
<1>6. \A n \in 1 .. z : a + n - 1 \in a .. b /\ a + n - 1 \in DOMAIN s
  BY <1>1, <1>2, <1>3
<1>7. InOrder(t, p)
  <2> SUFFICES ASSUME NEW m \in DOMAIN p, NEW n \in DOMAIN p, m < n
               PROVE  Less(ListKey(p[m], t[p[m]]), ListKey(p[n], t[p[n]]))
    BY DEF InOrder
  <2>1. PICK x, y : x = a + m - 1 /\ y = a + n - 1
    OBVIOUS
  <2>1a. m \in 1 .. z /\ n \in 1 .. z
    BY <1>5
  <2>2. x \in DOMAIN s /\ y \in DOMAIN s /\ x < y
    <3>1. x \in DOMAIN s /\ y \in DOMAIN s
      BY <1>6, <2>1, <2>1a
    <3>2. x < y
      BY <1>3, <2>1, <2>1a
    <3> QED BY <3>1, <3>2
  <2>3. p[m] = s[x] /\ p[n] = s[y]
    BY <1>4, <1>5, <2>1
  <2> QED BY <2>2, <2>3 DEF InOrder
<1> QED BY <1>1, <1>4, <1>5, <1>6, <1>7

FirstOf(g) == CHOOSE m \in g : \A n \in g : m <= n
LastOf(g) == CHOOSE m \in g : \A n \in g : n <= m

LEMMA RunEnds ==
  ASSUME NEW g, g \subseteq Nat, IsFiniteSet(g), g # {}
  PROVE  /\ FirstOf(g) \in g /\ \A n \in g : FirstOf(g) <= n
         /\ LastOf(g) \in g /\ \A n \in g : n <= LastOf(g)
<1>1. \E m \in g : \A n \in g : m <= n
  BY LeastExists
<1>2. \E m \in g : \A n \in g : n <= m
  BY LargestExists
<1> QED BY <1>1, <1>2, Zenon DEF FirstOf, LastOf

RunsWhole(t, s) ==
  LET sections == Groups(SectionNames(t, s))
  IN /\ Cardinality(sections) = Cardinality({t[s[n]].sub.section : n \in DOMAIN s})
     /\ \A g \in sections :
          LET part == SubSeq(s, CHOOSE m \in g : \A n \in g : m <= n,
                                CHOOSE m \in g : \A n \in g : n <= m)
          IN Cardinality(Groups(SubsectionNames(t, part)))
               = Cardinality({t[part[n]].sub.id : n \in DOMAIN part})

LEMMA GroupsOfTable ==
  ASSUME NEW t \in Tables("workspace"), NEW p, PlacedBy(t, p), NEW sheet, NEW only
  PROVE  RunsWhole(t, ListItems(t, sheet, only))
<1>3. PICK S : S = SheetItems(t, sheet, only)
  OBVIOUS
<1>4. PICK s : s = ListOf(t, sheet, only)
  OBVIOUS
<1>5. ListItems(t, sheet, only) = s
  BY <1>4 DEF ListItems, ListOf, SheetItems, InOrder
<1>6. s \in Seq(S) /\ InOrder(t, s)
  <2>1. s \in SetToSeqs(S) /\ InOrder(t, s)
    BY <1>3, <1>4, ListIsInOrder
  <2>2. IsFiniteSet(S)
    BY <1>3, SheetItemsTyped
  <2> QED BY <2>1, <2>2, ListsAll
<1>7. PICK names : names = SectionNames(t, s)
  OBVIOUS
<1>9. CutAlike(names, Sections(t, s), Len(s))
  BY <1>3, <1>6, <1>7, SectionsAreCut
<1>10. Cardinality(Groups(names)) = Cardinality(ClassesOf(Sections(t, s)))
  BY <1>9, GroupsAreClasses
<1>11. ClassesOf(Sections(t, s)) = {t[s[n]].sub.section : n \in DOMAIN s}
  BY DEF ClassesOf, Sections, Section
<1>12. ASSUME NEW g \in Groups(names), NEW part, part = SubSeq(s, FirstOf(g), LastOf(g))
       PROVE  Cardinality(Groups(SubsectionNames(t, part)))
                = Cardinality({t[part[n]].sub.id : n \in DOMAIN part})
  <2>1. DOMAIN s = 1 .. Len(s) /\ Len(s) \in Nat /\ DOMAIN names = 1 .. Len(s)
    BY <1>6, <1>9 DEF CutAlike
  <2>2. /\ g \in {x .. y : x, y \in 1 .. Len(s)} /\ g \subseteq 1 .. Len(s) /\ g # {}
        /\ \A x, y \in g : names[x] = names[y]
    BY <2>1 DEF Groups
  <2>3. g \subseteq Nat /\ IsFiniteSet(g)
    <3>1. IsFiniteSet(1 .. Len(s))
      BY <2>1, FS_Interval
    <3> QED BY <2>1, <2>2, <3>1, FS_Subset
  <2>4. PICK a, b : a = FirstOf(g) /\ b = LastOf(g)
    OBVIOUS
  <2>5. a \in g /\ b \in g /\ \A n \in g : a <= n /\ n <= b
    <3>1. g # {}
      BY <2>2
    <3> QED BY <2>3, <2>4, <3>1, RunEnds
  <2>7. g = a .. b /\ a \in 1 .. Len(s) /\ b \in 1 .. Len(s) /\ a <= b
    <3>1. PICK x \in 1 .. Len(s), y \in 1 .. Len(s) : g = x .. y
      BY <2>2
    <3>2. x \in g /\ y \in g
      BY <2>1, <2>2, <3>1
    <3>3. a = x /\ b = y
      BY <2>1, <2>5, <3>1, <3>2
    <3> QED BY <2>2, <2>5, <3>1, <3>3
  <2>8. part = SubSeq(s, a, b)
    BY <1>12, <2>4
  <2>9. /\ part \in Seq(S) /\ InOrder(t, part)
        /\ \A n \in DOMAIN part : \E m \in a .. b : part[n] = s[m]
    BY <1>6, <2>7, <2>8, PartInOrder
  <2>10. \A m, n \in g : Section(t, s[m]) = Section(t, s[n])
    <3>1. \A m, n \in 1 .. Len(s) : names[m] = names[n] <=> Sections(t, s)[m] = Sections(t, s)[n]
      BY <1>9 DEF CutAlike
    <3>2. \A m \in 1 .. Len(s) : Sections(t, s)[m] = Section(t, s[m])
      BY <2>1 DEF Sections
    <3> QED BY <2>2, <3>1, <3>2
  <2>11. \A m, n \in DOMAIN part : Section(t, part[m]) = Section(t, part[n])
    BY <2>7, <2>9, <2>10
  <2>12. CutAlike(SubsectionNames(t, part), Subs(t, part), Len(part))
    BY <1>3, <2>9, <2>11, SubsectionsAreCut
  <2>13. Cardinality(Groups(SubsectionNames(t, part))) = Cardinality(ClassesOf(Subs(t, part)))
    BY <2>12, GroupsAreClasses
  <2>14. ClassesOf(Subs(t, part)) = {t[part[n]].sub.id : n \in DOMAIN part}
    BY DEF ClassesOf, Subs, Sub
  <2> QED BY <2>13, <2>14
<1>13. \A g \in Groups(names) :
         LET part == SubSeq(s, CHOOSE m \in g : \A n \in g : m <= n,
                               CHOOSE m \in g : \A n \in g : n <= m)
         IN Cardinality(Groups(SubsectionNames(t, part)))
              = Cardinality({t[part[n]].sub.id : n \in DOMAIN part})
  BY <1>12 DEF FirstOf, LastOf
<1>14. Cardinality(Groups(names)) = Cardinality({t[s[n]].sub.section : n \in DOMAIN s})
  BY <1>10, <1>11
<1>15. RunsWhole(t, s)
  BY <1>7, <1>13, <1>14 DEF RunsWhole
<1> QED BY <1>5, <1>15

(* itertools.groupby never cuts a section or a subsection in two and never
   joins two, for any sheet and any priorities, tied or not, and however
   siblings are reordered. *)
THEOREM GroupsAlwaysWhole == Spec => []GroupsWhole
<1>1. WalkInv => GroupsWhole
  <2> SUFFICES ASSUME WalkInv, kind = "workspace" PROVE GroupsWhole
    BY DEF GroupsWhole
  <2>1. table \in Tables("workspace") /\ items \in Contents("workspace")
    BY DEF WalkInv, TypeOK
  <2>2. table = View("workspace", items, priority)
    BY TableIsView
  <2>3. PlacedBy(table, priority)
    BY <2>1, <2>2, ViewPlaced
  <2>4. \A sheet \in Nodes.sheet, onlyPublished \in BOOLEAN :
          RunsWhole(table, ListItems(table, sheet, onlyPublished))
    BY <2>1, <2>3, GroupsOfTable
  <2> QED BY <2>4, Zenon DEF GroupsWhole, RunsWhole
<1> QED BY <1>1, WalkStaysCounted, PTL

=============================================================================
