--------------------------- MODULE ArticleCatalog ---------------------------
(***************************************************************************)
(* Articles, their folders and their tags under concurrent moderators.  A  *)
(* request is one READ COMMITTED transaction, a member of Tx: it reads,    *)
(* perhaps under the article's row lock, and its last step writes and      *)
(* commits.  Locks that only the last step takes are not kept: they delay  *)
(* others and change no result.  The files of an article are the matter of *)
(* FileLifecycle, the response cache of ResponseCache.                     *)
(***************************************************************************)
EXTENDS Naturals, FiniteSets, FiniteSetsExt, Sequences, SequencesExt, Functions

CONSTANTS Tx,            \* concurrent requests
          Articles, Folders, Tags,
          IdOrder,       \* every folder id once, in ORDER BY id order
          Writings,      \* the contents an instance tries, see Writing
          StartArticles, StartFolders, StartTags,
          Ops,           \* the operations an instance allows
          MaxRequests,   \* bound: requests in a behaviour
          None

VARIABLES articles,   \* committed: a Writing with its publication date `at`, or None
          prio,       \* committed: the priority of each folder, 0 when it does not exist
          tags,       \* committed: the name of each tag, None when it does not exist
          rowLock,    \* the holder of each article's row lock
          tx,         \* private state of each transaction
          left,       \* requests still to come
          raced       \* history: a folder was created while folders were being ordered

Writing == [text : Nat, status : {"Draft", "Published"}, folder : Folders, tags : SUBSET Tags]

(* The rows of articles: a Writing and its publication date *)
ArticleRows == [text : Nat, status : {"Draft", "Published"}, folder : Folders,
                tags : SUBSET Tags, at : Nat \cup {None}]

CatalogOps == {"create", "update", "delete", "publish", "unpublish",
               "createFolder", "deleteFolder", "reorderFolders",
               "createTag", "updateTag", "deleteTag"}

ASSUME CatalogAssumptions ==
  /\ Writings \subseteq Writing /\ MaxRequests \in Nat /\ IsFiniteSet(Articles)
  /\ IdOrder \in Seq(Folders) /\ IsInjective(IdOrder) /\ Range(IdOrder) = Folders
  /\ StartFolders \subseteq Folders /\ StartArticles \in [Articles -> ArticleRows \cup {None}]
  /\ \A a \in Articles : StartArticles[a] # None =>
       /\ StartArticles[a].folder \in StartFolders /\ StartArticles[a].tags \subseteq StartTags
       /\ StartArticles[a].status = "Published" => StartArticles[a].at # None
  /\ None \notin Articles \cup Folders \cup Tags \cup Tx \cup Nat \cup ArticleRows
  /\ None # "old" /\ None # "new"

catalog == <<articles, prio, tags>>

(* No transaction *)
Idle ==
  [op |-> "none", pc |-> "idle",
   id |-> None,           \* the article, folder or tag
   may |-> FALSE,         \* PublicationAccess.allowed
   new |-> None,          \* the content, or the tag's name
   read |-> None,         \* the article as the request read it
   order |-> <<>>,        \* ordered_ids
   prio |-> 0,            \* the priority read for a new folder
   at |-> 0,              \* current_datetime
   visit |-> None, day |-> 0]   \* see ArticleTraffic

(* Where an id stands in ORDER BY id *)
Place(f) == CHOOSE k \in DOMAIN IdOrder : IdOrder[k] = f

At(t, pc) == tx[t].pc = pc
Now == MaxRequests - left + 1

CatalogInit ==
  /\ articles = StartArticles
  /\ prio = [f \in Folders |->
               IF f \in StartFolders
               THEN Cardinality({g \in StartFolders : Place(g) <= Place(f)}) ELSE 0]
  /\ tags = [g \in Tags |-> IF g \in StartTags THEN "old" ELSE None]
  /\ rowLock = [a \in Articles |-> None]
  /\ tx = [t \in Tx |-> Idle] /\ left = MaxRequests /\ raced = FALSE

-----------------------------------------------------------------------------
(* What readers see *)

Existing == {f \in Folders : prio[f] # 0}

(* is_available *)
Available(a) == articles[a] # None /\ articles[a].status = "Published"

(* S, ORDER BY priority, id *)
FolderBefore(f, g) == prio[f] < prio[g] \/ (prio[f] = prio[g] /\ Place(f) < Place(g))
FolderOrder(S) ==
  CHOOSE s \in SetToSeqs(S) : \A j, k \in DOMAIN s : j < k => ~FolderBefore(s[k], s[j])

(* Published articles, latest publication first; equal dates in any order *)
ByDate(S) ==
  CHOOSE s \in SetToSeqs(S) : \A j, k \in DOMAIN s : j < k => articles[s[k]].at <= articles[s[j]].at

(* _list_published_tree_items joins the folders with their published
   articles: a folder without one is left out. *)
PublishedIn(f) == {a \in Articles : Available(a) /\ articles[a].folder = f}
TreeFolders == FolderOrder({f \in Existing : PublishedIn(f) # {}})

(* ArticleTree.from_items *)
PublicTree ==
  [k \in DOMAIN TreeFolders |->
     [folder |-> TreeFolders[k], articles |-> ByDate(PublishedIn(TreeFolders[k]))]]

(* list_tags(only_with_published_articles=True) *)
PublicTags == {g \in Tags : tags[g] # None /\ \E a \in Articles : Available(a) /\ g \in articles[a].tags}

(* An article as the public reads it: its content, date, folder and tags *)
PublicDetail(a) ==
  [text |-> articles[a].text, at |-> articles[a].at,
   folder |-> articles[a].folder, tags |-> articles[a].tags]

(* get_article, list_articles and the SEO pages *)
PublicView == [a \in {a \in Articles : Available(a)} |-> PublicDetail(a)]

-----------------------------------------------------------------------------
(* Transactions *)

Begin(t, rec) ==
  /\ rec.op \in Ops
  /\ left' = left - 1
  /\ tx' = [tx EXCEPT ![t] = rec]
  /\ UNCHANGED <<catalog, rowLock, raced>>

Goto(t, rec) == tx' = [tx EXCEPT ![t] = rec] /\ UNCHANGED <<catalog, left>>

End(t) ==
  /\ tx' = [tx EXCEPT ![t] = Idle]
  /\ rowLock' = [a \in Articles |-> IF rowLock[a] = t THEN None ELSE rowLock[a]]
  /\ UNCHANGED <<left, raced>>

(* The request raised and its session is rolled back. *)
Fail(t) == End(t) /\ UNCHANGED catalog

Spare(id) == \A t \in Tx : tx[t].id # id

-----------------------------------------------------------------------------
(* Articles *)

BeginCreate(t, a, new, may) ==
  /\ articles[a] = None /\ Spare(a)
  /\ may \/ new.status # "Published"
  /\ Begin(t, [Idle EXCEPT !.op = "create", !.pc = "check", !.id = a, !.new = new,
                           !.may = may, !.at = Now])

BeginUpdate(t, a, new, may) ==
  Begin(t, [Idle EXCEPT !.op = "update", !.pc = "lock", !.id = a, !.new = new,
                        !.may = may, !.at = Now])

BeginDelete(t, a, may) ==
  Begin(t, [Idle EXCEPT !.op = "delete", !.pc = "lock", !.id = a, !.may = may])

(* set-published and set-draft need the permission to publish. *)
BeginSwitch(t, a, op) ==
  Begin(t, [Idle EXCEPT !.op = op, !.pc = "read", !.id = a, !.may = TRUE, !.at = Now])

Refused(t) ==
  LET x == tx[t]  old == articles[x.id] IN
  old # None =>
    ~x.may /\ "Published" \in {old.status} \cup (IF x.op = "update" THEN {x.new.status} ELSE {})

(* Deviation: get_article_by_slug(lock=False) *)
ReadArticle(t) ==
  /\ At(t, "lock")
  /\ \/ Refused(t) /\ Fail(t)
     \/ /\ ~Refused(t)
        /\ Goto(t, [tx[t] EXCEPT !.pc = IF tx[t].op = "update" THEN "check" ELSE "write",
                                 !.read = articles[tx[t].id]])
        /\ UNCHANGED <<rowLock, raced>>

(* get_article_by_slug(lock=True), then ensure_allowed *)
LockArticle(t) ==
  /\ At(t, "lock") /\ rowLock[tx[t].id] = None
  /\ \/ Refused(t) /\ Fail(t)
     \/ /\ ~Refused(t)
        /\ Goto(t, [tx[t] EXCEPT !.pc = IF tx[t].op = "update" THEN "check" ELSE "write",
                                 !.read = articles[tx[t].id]])
        /\ rowLock' = [rowLock EXCEPT ![tx[t].id] = t]
        /\ UNCHANGED raced

(* The folder and the tags of a Writing exist. *)
References(new) == prio[new.folder] # 0 /\ \A g \in new.tags : tags[g] # None

(* get_tags_by_ids and get_folder_by_id, without locks *)
CheckReferences(t) ==
  /\ At(t, "check")
  /\ \/ ~References(tx[t].new) /\ Fail(t)
     \/ /\ References(tx[t].new)
        /\ Goto(t, [tx[t] EXCEPT !.pc = "write"]) /\ UNCHANGED <<rowLock, raced>>

(* update_article_publish_status reads the row without a lock. *)
ReadForSwitch(t) ==
  /\ At(t, "read")
  /\ \/ articles[tx[t].id] = None /\ Fail(t)
     \/ /\ articles[tx[t].id] # None
        /\ Goto(t, [tx[t] EXCEPT !.pc = "write", !.read = articles[tx[t].id]])
        /\ UNCHANGED <<rowLock, raced>>

(* ArticleCreateParams.to_article *)
CreatedAt(new, now) == IF new.status = "Published" THEN now ELSE None

(* Deviation: an update is dated like a new article *)
UpdatedAtAgain(old, new, now) == IF new.status = "Published" THEN now ELSE old

(* ArticleUpdateParams.to_article keeps the first publication date. *)
UpdatedAt(old, new, now) == IF old = None /\ new.status = "Published" THEN now ELSE old

(* A link to a tag that was deleted meanwhile is gone. *)
Written(new, at) == [text |-> new.text, status |-> new.status, folder |-> new.folder,
                     tags |-> {g \in new.tags : tags[g] # None}, at |-> at]

(* The foreign keys of the rows a request inserts: the folder, and the links
   to tags the article did not have *)
ForeignKeysHold(x) ==
  /\ prio[x.new.folder] # 0
  /\ \A g \in x.new.tags \ (IF x.read = None THEN {} ELSE x.read.tags) : tags[g] # None

(* What an UPDATE of the status changes: the columns that differ from the
   row as it was read. *)
Switched(x, old) ==
  LET status == IF x.op = "publish" THEN "Published" ELSE "Draft" IN
  [old EXCEPT !.status = IF status = x.read.status THEN @ ELSE status,
              !.at = IF x.op = "publish" /\ x.read.at = None THEN x.at ELSE @]

(* The UPDATE finds its row, and foreign keys hold. *)
WriteArticle(t) ==
  /\ At(t, "write") /\ tx[t].op \in {"create", "update", "publish", "unpublish"}
  /\ LET x == tx[t]  old == articles[x.id] IN
     /\ rowLock[x.id] \in {None, t}
     /\ \/ /\ \/ x.op # "create" /\ old = None
              \/ x.op \in {"create", "update"} /\ ~ForeignKeysHold(x)
           /\ Fail(t)
        \/ /\ x.op \in {"create", "update"} => ForeignKeysHold(x)
           /\ x.op # "create" => old # None
           /\ articles' = [articles EXCEPT ![x.id] =
                CASE x.op = "create" -> Written(x.new, CreatedAt(x.new, x.at))
                  [] x.op = "update" -> Written(x.new, UpdatedAt(x.read.at, x.new, x.at))
                  [] OTHER -> Switched(x, old)]
           /\ End(t) /\ UNCHANGED <<prio, tags>>

-----------------------------------------------------------------------------
(* Folders *)

BeginCreateFolder(t, f) ==
  /\ prio[f] = 0 /\ Spare(f)
  /\ Begin(t, [Idle EXCEPT !.op = "createFolder", !.pc = "read", !.id = f])

BeginReorder(t, order) ==
  Begin(t, [Idle EXCEPT !.op = "reorderFolders", !.pc = "read", !.order = order])

BeginDeleteFolder(t, f) ==
  Begin(t, [Idle EXCEPT !.op = "deleteFolder", !.pc = "write", !.id = f])

(* Deviation: a count instead of max(priority) *)
FolderPriorityByCount == Cardinality(Existing) + 1

(* coalesce(max(priority), 0) + 1, read without a lock *)
NextFolderPriority == 1 + Max({0} \cup {prio[f] : f \in Existing})

OrdersFolders(t) == tx[t].op \in {"createFolder", "reorderFolders"} /\ At(t, "write")

ReadFolders(t) ==
  /\ At(t, "read") /\ tx[t].op \in {"createFolder", "reorderFolders"}
  /\ \/ /\ tx[t].op = "reorderFolders" /\ Range(tx[t].order) # Existing
        /\ Fail(t)
     \/ /\ tx[t].op = "reorderFolders" => Range(tx[t].order) = Existing
        /\ Goto(t, [tx[t] EXCEPT !.pc = "write", !.prio = NextFolderPriority])
        /\ raced' = (raced \/ \E u \in Tx \ {t} :
                       OrdersFolders(u) /\ "createFolder" \in {tx[t].op, tx[u].op})
        /\ UNCHANGED rowLock

(* enumerate(ordered_ids, start=1); folders deleted meanwhile stay deleted *)
Reordered(order) ==
  [f \in Folders |-> IF prio[f] # 0 /\ f \in Range(order)
                     THEN CHOOSE k \in DOMAIN order : order[k] = f ELSE prio[f]]

(* Deviation: drafts do not count *)
FolderEmptyOfPublished(f) == \A a \in Articles : Available(a) => articles[a].folder # f

(* ON DELETE RESTRICT of articles.folder_id *)
FolderEmpty(f) == \A a \in Articles : articles[a] # None => articles[a].folder # f

WriteFolders(t) ==
  /\ At(t, "write")
  /\ LET x == tx[t] IN
     \/ /\ x.op = "deleteFolder" /\ (prio[x.id] = 0 \/ ~FolderEmpty(x.id))
        /\ Fail(t)
     \/ /\ \/ x.op = "createFolder" /\ prio' = [prio EXCEPT ![x.id] = x.prio]
           \/ x.op = "reorderFolders" /\ prio' = Reordered(x.order)
           \/ /\ x.op = "deleteFolder" /\ prio[x.id] # 0 /\ FolderEmpty(x.id)
              /\ prio' = [prio EXCEPT ![x.id] = 0]
        /\ End(t) /\ UNCHANGED <<articles, tags>>

-----------------------------------------------------------------------------
(* Tags; a slug that exists is a unique violation *)

BeginTag(t, g, op) ==
  /\ op = "createTag" => tags[g] = None /\ Spare(g)
  /\ Begin(t, [Idle EXCEPT !.op = op, !.pc = "write", !.id = g, !.new = "new"])

(* ON DELETE CASCADE of the articles' links *)
WriteTag(t) ==
  /\ At(t, "write") /\ tx[t].op \in {"createTag", "updateTag", "deleteTag"}
  /\ LET x == tx[t] IN
     \/ Fail(t)
     \/ /\ x.op # "createTag" => tags[x.id] # None
        /\ tags' = [tags EXCEPT ![x.id] = IF x.op = "deleteTag" THEN None ELSE x.new]
        /\ articles' = IF x.op = "deleteTag"
                       THEN [a \in Articles |-> IF articles[a] = None THEN None
                               ELSE [articles[a] EXCEPT !.tags = @ \ {x.id}]]
                       ELSE articles
        /\ End(t) /\ UNCHANGED prio

-----------------------------------------------------------------------------
(* The steps of a catalog request but its deletion of an article, which
   takes the article's reactions and counters with it: see ArticleTraffic *)
CatalogStep(t) ==
  \/ LockArticle(t) \/ CheckReferences(t)
  \/ (tx[t].op \in {"publish", "unpublish"} /\ ReadForSwitch(t))
  \/ WriteArticle(t) \/ ReadFolders(t) \/ WriteFolders(t) \/ WriteTag(t)

CatalogRequest(t) ==
  \/ \E a \in Articles, may \in BOOLEAN :
       BeginDelete(t, a, may)
       \/ \E new \in Writings : BeginCreate(t, a, new, may) \/ BeginUpdate(t, a, new, may)
  \/ \E a \in Articles, op \in {"publish", "unpublish"} : BeginSwitch(t, a, op)
  \/ \E f \in Folders : BeginCreateFolder(t, f) \/ BeginDeleteFolder(t, f)
  \/ \E order \in SetToSeqs(Existing) : BeginReorder(t, order)
  \/ \E g \in Tags, op \in {"createTag", "updateTag", "deleteTag"} : BeginTag(t, g, op)

-----------------------------------------------------------------------------
(* update_article_publish_status: a publication date moves only when a
   set-published that read the article undated is overtaken by a request
   that dates it. *)
DateMovesOnlyByStalePublish ==
  [][\A a \in Articles :
       articles[a] # None /\ articles[a].at # None /\ articles'[a] # None
         /\ articles'[a].at # articles[a].at
       => \E t \in Tx : /\ tx[t].op = "publish" /\ tx[t].id = a /\ tx'[t] = Idle
                        /\ tx[t].read.at = None]_<<articles, tx>>

(* PublicationAccess: a request without the permission to publish changes
   nothing the public sees, even if the article is published while the
   request runs. *)
RestrictedUnseen ==
  [][\A t \in Tx : tx[t].op \in {"create", "update", "delete"} /\ ~tx[t].may /\ tx'[t] = Idle
                     => PublicView' = PublicView]_<<articles, prio, tags, tx>>

(* next_folder_priority and ensure_priority_order_matches: folders get the
   same priority only if one was created while another request was ordering
   folders. *)
FolderTiesNeedRaces ==
  \A f, g \in Existing : f # g /\ prio[f] = prio[g] => raced

(* delete_folder and the tree: every published article is in the public
   tree, once, dated, below a folder that exists, and a folder is shown
   once even when priorities are equal; the tags of an article exist, and a
   published article is found by each of its tags. *)
PublicTreeComplete ==
  /\ IsInjective([k \in DOMAIN PublicTree |-> PublicTree[k].folder])
  /\ \A a \in Articles : Available(a) =>
       /\ articles[a].at # None /\ articles[a].tags \subseteq PublicTags
       /\ \E k \in DOMAIN PublicTree : a \in Range(PublicTree[k].articles)
  /\ \A k \in DOMAIN PublicTree : PublicTree[k].folder \in Existing
  /\ \A a \in Articles : articles[a] # None => \A g \in articles[a].tags : tags[g] # None
=============================================================================
