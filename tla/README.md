# Verification of the competency trainer API

TLA+ models of the API's stateful parts, TLC runs on small instances and TLAPS
proofs for every instance. All paths are relative to the repository; its Python
code lives under `src/`. `PROJECT.json` maps every definition to the lines it
models and lists runs, mutants, hazards, findings and theorems.

## The system

A Litestar HTTP API over PostgreSQL (rows), S3 (file objects) and Valkey
(response cache, quotas, warm operations), plus Taskiq workers for scheduled
and queued work. Each request, and each task run, owns one SQLAlchemy session:
`DatabaseProvider.provide_async_session` commits when the handler ends, rolls
back on an exception, and runs post-commit actions after a commit. Isolation is
PostgreSQL's READ COMMITTED; handlers take `FOR UPDATE` row locks explicitly.

| component | state | operations | what makes it hard | what makes it correct |
|---|---|---|---|---|
| Managed files (`core/files`, `storages/files.py`) | file rows, `orphaned_at`, usage links; S3 objects | upload with deduplication, rename, delete, usage transitions of an article save | two stores of which one is not transactional; row locks; stale reads before locks | the marker is exact, no used file loses its row or object, rows and objects agree |
| Orphan cleanup (`entrypoints/taskiq/files`) | the same | periodic prune with `SKIP LOCKED` | query snapshot older than its locks, S3 failures mid-batch | prunes only unused files, keeps the grace period |
| Request transactions (`database_provider.py`, `post_commit_actions.py`) | session, action lists | commit, rollback, post-commit | crash or failure between commit and action | an uncommitted effect is never seen; what fails after the commit heals |
| Articles: content | articles, managed files, tags | create, update, delete, paged list | same lock order as files; pages of a changing list | as files; a walk misses or repeats only what changes explain |
| Articles: publication, tags, folders | status, `published_at`, priorities | publish, folders, tags | unlocked read-modify-write of status and priorities | the public sees what was permitted, a date moves only by a stale publish |
| Competency matrix | sheets, sections, subsections, questions, resources | create, reorder, delete subtrees, question CRUD, publish, workspace, filter options | lock order of subtree deletion, max+1 priorities, three statements per page | the tree is whole, no question is lost, what is published is complete |
| Question queue and quota | queued questions, daily counter in Valkey | suggest, import, convert, reject | unlocked duplicate check, TTL truncation, two decisions at once | one decision per question, the limit limits |
| Response cache, warming | cached pages with TTL, broker queue | cached GET, invalidate, clear, warm | no order between store and clear | staleness is bounded and has one cause |
| Manual warm operations | operation status and a pointer in Valkey | enqueue, run, poll | redelivery, lost acknowledgement, expiry | the status goes forward and ends |
| Analytics and reactions | daily counters, receipts, reactions | view, engage, react, visit, report | repeated and late events, first reactions of one voter at once | everything is counted once |
| XLSX/CSV question parser | none | preview, select | formats, blank cells, duplicates | what it preselects can be imported |
| Wiki links, contacts, discovery pages, health check, file processing, configuration, CLI, migrations | none of their own | reads, formatting, set-up | - | - |

Components interact through the session (shared rows), through the post-commit
list (mutation to cache), through the broker (mutation to warm task) and
through file usages (articles to files).

## Modules

| module | what it is |
|---|---|
| `FileRegistry` | abstract specification: what files and articles promise, one atomic step per request |
| `FileLifecycle` | the statement-level model of requests, locks, S3 and the cleanup task; refines `FileRegistry` |
| `FileGrace` | `FileLifecycle` with a history variable for the retention promise |
| `FileLifecycleProofs` | proofs about `FileLifecycle` and `FileGrace` |
| `ResponseCache` | cached GETs, mutations with post-commit clear, warm tasks, expiry |
| `ResponseCacheProofs` | proofs about `ResponseCache` |
| `MatrixForest` | abstract specification of the matrix's tree, one atomic step per request |
| `MatrixStructure` | structure requests and question writes, statement by statement and row lock by row lock; refines `MatrixForest` |
| `MatrixStructureProofs` | proofs about `MatrixForest` and `MatrixStructure` |
| `QuestionImport` | the import parser and its preview as pure operators |
| `QuestionQueue` | suggestions, quota, import, decisions, publication of questions; uses `QuestionImport` |
| `QuestionQueueProofs` | proofs about `QuestionQueue` |
| `ArticleCatalog` | articles, folders and tags under concurrent moderators |
| `ArticleTraffic` | `ArticleCatalog` composed with views, reactions and site analytics |
| `ArticleTrafficProofs` | proofs about `ArticleCatalog` and `ArticleTraffic` |
| `ManualWarm` | one manual warm from the admin's request to the last worker |
| `ManualWarmProofs` | proofs about `ManualWarm` |
| `ContentListing` | paged lists, workspace summary, grouped list and filter options |
| `ContentListingProofs` | proofs about `ContentListing` |
| `CollectionTheorems` | lemmas several proofs share: finite sets, sums, sorted lists |
| `MC*` | instances for TLC |

Definitions that begin with "Deviation" in their comment are not part of the
specifications: each is a plausible mistake in the code, used to show that a
property would notice it.

### FileLifecycle

State: the committed rows (`rows`, `orphaned`, `articles`, `uses`), the S3
`objects`, the lock holders `flock` and `alock`, the private state `tx[t]` of
each transaction, the clock, `known` (ids clients have learnt) and `broken` (a
history variable: files on which a step failed after its S3 call).

- One transaction is one member of `Tx`; an action is one SQL statement or one
  S3 call. Writes stay in `tx[t]` (`ins`, `del`, `attach`, `orphan`, `want`)
  until `Commit` applies them. S3 calls apply at once and survive a rollback.
- `lock_files` is one statement but locks row by row in id order and may wait
  between rows, so `LockNextFile` is one row. Ids without a row are skipped, as
  the SQL does.
- `SELECT ... FOR UPDATE` sees the rows committed at its start and rechecks the
  row after a wait (`UploadFindDuplicate`). `SKIP LOCKED` rechecks conditions
  on the row itself, never the `NOT EXISTS` on usages (`PruneLockCandidate`).
- Every client error (wrong purpose, validation, name conflict) has the same
  effect as `Crash` before the commit and has no action of its own.
- An S3 failure is ambiguous: the object may have been written or removed.
- A client uses only ids a committed upload returned.
- An article is its slug. Its cover and content images are one set.
- The clock is read once per request (`provide_current_datetime`), so
  `orphaned_at` is the start of the request that wrote it (`Marker`). `TypeOK` is
  the types (`Typed`) and that nothing is dated ahead of the clock.

Known consequences the model shows and the properties allow for: a crash or a
failed commit after `delete_object` leaves a row without an object (`broken`),
and a later upload of the same content, or a save, may hand this row out again;
a slow request may move `orphaned_at` back by up to its own duration.

### ResponseCache

A page is a cache key with a version; each mutation raises the versions of the
pages it changes and may make them live or not (a page that is not live answers
404, which is not cached). `cache[k]` holds the stored version and its time
left. Reads in flight (`reader`, `worker`) hold the version read and its age.
`since[k]` is the time since the last change, capped at `Horizon`, beyond which
no property tells it apart. `excused` is a history variable: keys stored from an
outdated read, or whose clear failed.

- `MutateCommit` is the commit of any admin handler that called
  `invalidate_response_cache_domain_for_mutation`; `ClearDomain` and
  `EnqueueWarm` are its post-commit action; `PostCommitFails` is an exception
  or a crash in either. `delete_all` of the Valkey store is one script, hence
  atomic; `AdminClear` clears domain after domain, one step each.
- The warm task reads all its targets before it writes the first
  (`warm_domains`); the order of the reads is left open. `WarmFails` covers the
  article withdrawn between list and detail query, and a dying worker.
- The broker delivers at least once (`TakeTask` may leave the task queued).
- `Target` is what a warm task collects for one page: nothing if it is not live.
- A read is stored within `MaxLatency`: an assumption on request and task
  durations, which the code does not enforce.
- Caching is on (`settings.app.use_cache`); otherwise nothing happens.

### MatrixStructure

State: the committed tree (`nodes`, `home`, `prio`), the row locks `held` with
the three of PostgreSQL's modes the code uses, and `tx[t]` with the locks a
statement still needs (`todo`) and has got (`got`).

- A statement fixes the rows it wants when it starts (`Statement`), takes their
  locks one by one (`Acquire`), and rechecks a row it waited for (`Qualifies`).
  `_lock_structure_ids` locks in id order (`Ordered(S)` holds the one list of S
  in that order, `Place` is a node's position); statements without ORDER BY lock
  in any order (`AnyOrder`).
- Foreign keys are locks: inserting a row takes a key-share lock of its parent,
  deleting a parent cascades (`Cascade`).
- PostgreSQL breaks a ring of waiters by aborting one (`AbortDeadlocked`).
- A creation whose parent is gone or whose key or name is taken ends as
  `RefuseNode`; names are left out, so any creation may.
- A node's parent never changes, so it is a constant function. A question is
  its subsection here; its content is the matter of `QuestionQueue`.
- `raced` records parents under which two creations, or a creation and a
  reordering, overlapped.

What it shows: structure deletions and creations never deadlock among
themselves. A question write takes its locks in another order than a deletion
and may deadlock with it; PostgreSQL aborts one of them and both requests end.

### QuestionQueue, QuestionImport

State: the committed `queue`, `items` and `resources`, the Valkey counters
`quota`, the calendar (`day`, and `late` for its last second), row locks, the
transactions, and history variables (`fate`, `rivals`, `accepted`).

- The eight publication fields of a question are one flag, `ready`. A question
  text is a model value with a `Fingerprint`: two texts that differ in case or
  spacing have one.
- `suggest_question` is three reads and a write: the sheet, the duplicates, the
  quota, the INSERT. The quota is spent even if the transaction then fails.
  `LimitParams` is what the limit goes by: the client and the request's clock.
- `EXPIRE` with 0 seconds, in the last second of the day, deletes the counter:
  `ConsumeQuota` does that, and `QuotaHolds` therefore speaks of the time before
  it. This is the code's behaviour, one second a day.
- The way to DRAFT reads without a lock, every other item operation locks the
  row first; `update_item` checks the attached resources before it locks.
- An import is one member of `Tx` from the preview to the confirmation, since
  the moderator decides between them. The file is parsed again and the queue is
  not looked at again.
- `resources` only grows: no code deletes or changes a resource, and merging one
  writes back what the same transaction read.

### ArticleCatalog, ArticleTraffic

`ArticleCatalog` holds articles (content, status, date, folder, tags), folder
priorities and tags. Locks that only the last step of a request takes are left
out: they delay others and change no result. `ArticleTraffic` extends its state
with reactions, the article counters, the receipts and counters of the site
analytics and the date; `Next` is the disjunction of both.

- Only `update_article` and `delete_article` lock the article. The switch to
  published reads without a lock, so a publish that overlaps another, or an
  update that publishes, overwrites the first `published_at`
  (`DateMovesOnlyByStalePublish` says this is the only way a date moves).
  `tests/integration/test_db/test_articles_storage.py` line 845 tests
  "sets_first_published_at_only_once" for requests that follow each other.
- `FOR UPDATE` locks no row that is not there: two first reactions of a voter
  meet at the unique constraint and one is rolled back with its count.
- A visit's receipt is an INSERT ... ON CONFLICT DO NOTHING that waits for an
  uncommitted row with the same key (`Free`). An engaged event is an UPDATE, which
  does not see an uncommitted receipt: it waits for nothing and counts nothing.
- A view of an article deleted meanwhile counts nothing (`LoseView`).
- The admin's statistics list articles with views; reactions to an article
  nobody is recorded to have viewed are not in the totals (`StatsArticles`).
- `ReactionsCounted` compares the report with `changes`, a history of how often
  a stored reaction changed.

### ManualWarm

State: `record[o]` (status, whether there is a summary, time to live), the
`latest` pointer, where each request and worker stands, the broker's message,
and history variables. Every Valkey command is one step; `update` is two, the
record and the pointer. The broker delivers again what is not acknowledged, also
to a second worker while the first still runs.

Two kinds of faults, at most `MaxFaults` of them. Processes die between any two
steps (`RequestDies`, `WorkerDies`). Every call of Valkey may raise, without its
command carried out (`RequestStoreFails`, `TaskStoreFails`) or with its answer
lost (`RequestStoreAnswerLost`, `TaskStoreAnswerLost`): nothing in
`enqueue_manual_warm` or `run` catches that, the request or the task ends, and
the broker acknowledges the task like any other.

What it shows: a redelivery sets an ended operation back to running, an
enqueue whose answer is lost marks a running one failed (`repeated`, `unsure`).
An operation need not end. `abandoned` holds the operations that stay queued or
running until their key expires, for one of two reasons: Valkey raised in `run`
before the outcome was stored, and the acknowledged task does not come again; or
a worker died after an overlapping delivery had stored its outcome.
`WarmEnds` excuses these and no others; a warm that raises and a single worker
that dies are not excused. `LatestOutlives` excuses a writer that stopped
between record and pointer (`untracked`).

### ContentListing

A client walks through all pages of one list while other requests commit
between any two statements. `BeginWalk` starts a walk of the workspace, which
reads the page before it counts, `BeginArticleWalk` one of the articles, which
counts first; both are `StartWalk`. One commit writes one row (`WriteItem`) or
many: `DeleteSubtree` deletes all questions below a node, `Reorder` renumbers
siblings and so moves every question below them in the sort, `WriteTag` takes a
tag off all its articles or renames it. `Changed` is the rows a commit wrote,
those moved by a sort key of their structure among them; `written` adds them up.

Rows that tie in ORDER BY come in any order for each page. The workspace's orders
end with the id, so only writes disturb a walk; the articles' order ends with
the title, so ties may disturb it without any write (`tied`).

- `WalkDrift` bounds what a walk misses and repeats of the rows nobody wrote by
  the rows written meanwhile. There is no bound by commits: one that deletes a
  subtree may push any number of rows to pages already read.
- `SummaryMatchesPages` speaks of a table nobody writes to during the walk
  (`written = 0`); during writes the three statements of a response may disagree.
- White space is of two kinds, since SQL's `trim` removes spaces only and
  Python's `strip` all: the workspace's filter and summary call a question of
  newlines complete, its row does not. `SummaryMatchesPages` subtracts exactly
  these questions: it does not call the difference an error, it shows that there
  is no other.

## Runs

| run | instance | shows |
|---|---|---|
| `file_sharing` | 2 requests, 2 articles, 2 files | the marker is exact, commits are `FileRegistry` steps, no lock cycle |
| `file_deletion` | 2 requests, 1 article, 2 files of equal content, cleanup, S3 faults, a clock | no used file is lost, rows and objects agree |
| `file_grace` | 2 requests, 2 files, retention 2, clock to 3 | the cleanup waits for the retention, less the latency of a request |
| `file_requests_end` | 2 requests, 1 article, 2 files, fairness | every request ends |
| `file_dedupe` | 2 uploads of equal content | violation, see Findings |
| `cache_staleness` | 1 domain, a warmed and an unwarmed page, 2 mutators, 2 versions | staleness is bounded; only late stores and failed clears cause it |
| `cache_converges` | 2 domains with a page each, fairness | after the last mutation the cache becomes current |
| `matrix_structure` | 2 requests of 3, 1 sheet, 2 sections, 3 subsections, 2 questions, fairness | the tree is whole and refines `MatrixForest`, no question is lost, causes of deadlocks and ties, every request ends |
| `question_queue` | 2 requests of 3, 2 queued and 2 matrix questions, 3 texts of which 2 are the same question, 5 files, 1 client, limit 1, 2 days | one decision, quota, duplicates, complete publications, permission |
| `article_traffic` | 2 requests of 3, 2 articles, 3 folders, 1 tag, 1 voter, 1 visitor, 3 days | tree, dates, permission, counters |
| `manual_warm` | 2 operations of which 1 is accepted, 2 workers, TTL 2, 1 fault (a death or an error of Valkey), fairness | status, summary, pointer, end or its two excuses |
| `content_listing` | 3 rows, 6 of the 8 sorts with filters, page sizes of 1 and 2, 1 commit of up to 3 rows | drift of a walk, summary, groups, options |

Why the bounds suffice to be interesting: two requests are enough for every
pairwise race, and the file rules are pairwise; two files are the least on which
lock order matters; equal content makes uploads meet duplicates, different
content makes articles share files. `BatchSize` 1 and 2 cover a full and a
partly full batch. Two versions of a page let a newer change overtake an older
clear. A third request, after two that overlap, meets what they left: that is
why `MaxRequests` is 3. One sheet with two sections and three subsections has a
subtree inside a subtree and a sibling at each level. One voter, one token and
one visitor make every event a repetition of another; three days are the
retention of a receipt and the day after. `MaxTime`, `MaxVersion`, `MaxQueue`,
`MaxRequests`, `MaxFaults`, `MaxWrites` and `LastDay` are bounds of the
instance, not of the code; `MaxWrites` counts rows, and a commit that has begun
below it writes all of its rows. The two sorts of the workspace that
`content_listing` leaves out, `interviewFrequency` and `dangerousPublished`, are
among the eight the proofs cover. What larger instances would add is covered by
the proofs too, which have no bound on requests, files, articles, pages or tasks.

Symmetry is declared on requests, articles, questions or mutators, in runs
without liveness only. Deadlock is checked except in `question_queue`,
`article_traffic` and `content_listing`, which end when the bound on requests
is used up or the walk is over.

### Fairness

- `FairSpec` of `FileLifecycle`: strong fairness of a transaction's steps, since
  a lock it waits for is taken and released by others again and again and
  PostgreSQL queues its waiters; weak fairness of its commit. New requests and
  faults are never owed.
- `FairSpec` of `ResponseCache`: weak fairness of the steps of requests,
  post-commit actions and warm tasks that have begun, and of time. No fairness
  of warm scheduling: `EventuallyFresh` rests on expiry alone.
- `FairSpec` of `MatrixStructure`: weak fairness of each transaction's steps.
  A statement that waits is not enabled; it is the holder's step, or
  PostgreSQL's deadlock detector, that ends the wait.
- `FairSpec` of `ManualWarm`: weak fairness of requests, workers and of the
  broker's delivery, which holds a task until it is acknowledged. `kiq` and
  `warm_all` end, one way or the other. Nothing is assumed of the clock, so no
  operation ends merely because its key expires in time.

## Proofs

`FileLifecycleProofs` proves, for all constants that satisfy
`LifecycleAssumptions` (file ids are naturals, `None` is none of the other
values), `Spec => []TypeOK` (which includes that `Commit` never dates an orphan
ahead of the clock), `[]MarkerExact`, `[]UsedFileIsServed`,
`[]StorageParity`, `NoObjectDeletedUnderUse` and `RefinesRegistry`.
None of these invariants is inductive: each depends on what an open transaction
has locked and read. The inductive invariant adds, for every transaction, by
label:

- which locks it holds at that label, and that what it keeps in `old` is still
  the committed `uses` of its article (the article lock protects it);
- that the files it attaches, drops, inserts or deletes are locked by it, so no
  two transactions decide about one file at once;
- that a file it is taking away (`Doomed`) has its row, is locked by it and is
  marked an orphan, hence has no use and is wanted by nobody past the foreign
  key check;
- that an uncommitted insert is known to nobody else.

Steps are grouped (private steps, article steps, file steps, object steps,
rollback, commit), one lemma each; `CommitIsRegistryStep` is both the step of
the refinement and the way the marker is kept.

`ResponseCacheProofs` proves `[]TypeOK`, `[]BoundedStaleness` and
`[]StaleOnlyByRace` for any number of pages, requests and tasks, any time to
live and any latency. The argument: an outdated copy in flight was read before
the page changed, so `since <= age` (`ReaderLag`, `WorkerLag`); an outdated
entry was stored from such a copy or before the change, so `since + left` never
exceeds `TTL + MaxLatency` (`EntryLag`), and the clock moves one unit from one
term to the other.

`MatrixStructureProofs` first proves that `MatrixForest` keeps `Whole` for any
tree whose parents are of the right kind (`Ids`). The argument is that a deleted
subtree is closed under children (`SubtreeClosed`) and that the subsections it
takes are the ones whose questions go (`SubtreeSubsections`). The refinement
below carries it to the concurrent requests.

`FileLifecycleProofs` also proves `[]NoCircularWait`, for any set of requests
and cleanup runs and with no bound on either. `OrderInv` adds to the inductive
invariant the order in which a transaction takes its locks (`LockOrder`): no
file row before its article, then file rows below all it has still to lock, a
new article's row last; and that only finitely many requests are open, which is
inductive, so it need not be assumed. In a ring everybody would be at
`lock_files` (`WaitsAtFiles`): whoever is waited for holds a lock, and the
insert of a new article waits only for another insert, which waits no more. Of
the files waited for one is the largest, and its holder waits for a larger one.

`FileLifecycleProofs` proves `GraceKept` of `FileGrace` as well. `promised` is compared with `orphaned_at`
(`PromiseInv`: at most `MaxLatency` older), and `orphaned_at` with the start of
the cleanup run that has locked the file (`MarkersSeen`: more than the retention
older). The first holds because a transaction commits within `MaxLatency` of its
start (`Recent`) and because nobody overwrites a marker without its lock
(`CommitsOwnMarkers`); an upload that leaves the marker of its duplicate alone
found it NULL and still holds the row. That requests end within `MaxLatency` is
the assumption `Tick` states; no code enforces it.

For the concurrent requests `MatrixStructureProofs` assumes what the schema gives: every section has a
sheet and every subsection a section, the three kinds and the questions have
different ids, ids are ordered, there are finitely many questions, and the tree
is whole at the start. It proves, from three inductive invariants:

- `SafeInv` (`LocksProtect`): label by label, which rows a request has locked,
  in which mode, and what it has read that these locks keep true (`Safe`); that
  locks which conflict have one holder (`LocksApart`), that a lock is on a row
  that exists (`Live`), and that a created id is nobody else's (`Fresh`). From
  it follow `RefinesForest`, hence `Forest!Whole` of the concurrent system, and
  `QuestionsKept`: a deletion that has looked for questions holds every
  subsection it will take, so no question can be moved into one.
- `TiesInv` (`EqualPrioritiesNeedRaces`): unless a race under its parent is
  noted, what a creation or a reordering is about to write is larger than, or
  covers, all the children there are.
- `WaitInv` (`StructureRequestsNeverDeadlock`): deletions lock by level and id
  (`Upwards`), a creation waits while it holds nothing, and of the deletions
  that are about to take questions one lists none from another's tree
  (`NoItemRing`). The row waited for highest in that order is held by a
  deletion that waits for a higher one. So every ring, of any length, contains a
  question write or a reordering.

`QuestionQueueProofs` assumes `QueueAssumptions` (no value doubles as `None`,
the limit is at least 1) and proves seven properties. `LocalOK` types what a
request has in hand at each statement; on it rest

- `DecisionInv`: a request that decides holds the queue row's lock and the row is
  still there, hence `OneDecision`;
- `ItemsInv`: a change about to commit holds the question's row, and what it
  checked under the lock (completeness, resources, date) still holds; a new
  question's id is its own. Hence `PublishedComplete`, `FirstPublicationKept`
  and `RestrictedUnseen`;
- `RivalsInv`: two suggestions past the duplicate check with one fingerprint
  overlapped and are noted (`CheckedRivals`), hence `DuplicatesNeedOverlap`;
- `QuotaInv`: until a day's last second, its counter has counted whatever was
  let through (`CounterCounts`), and no request's clock is ahead of the calendar
  (`ClocksBehind`), hence `QuotaHolds`. In the last second itself the counter is
  deleted and the limit does not hold; `accepted` does not count that second;
- `DefaultSelectionClean` rests on the types alone (a preview that is shown is
  the parsed file's) and on lemmas about the parser's operators, for files of
  any length.

`ArticleTrafficProofs` assumes `CatalogAssumptions` and `TrafficAssumptions`
(the initial articles lie in existing folders, retention at least one day;
articles, kinds, sources and visitors are finite sets; no value doubles as
`None`) and proves

- `ArticlesInv`, `LinksInv`: a published article has a date (`PublishedDated`)
  and its folder and tags exist (`PublishedInPlace`); what an update checked
  holds until it commits because it locks the row, and a switch, which does not,
  still knows whether the article is dated (`SwitchSafe`). Hence
  `DateMovesOnlyByStalePublish`, `RestrictedUnseen` and `PublicTreeComplete`: the
  tree is the sorted list of the folders with published articles, and the list
  of a finite set, whatever the order and however it ties, exists
  (`SortedExists`) and holds each member once;
- `FoldersInv`: without a race, a folder being created gets a priority above all
  that exist and a reordering covers them, hence `FolderTiesNeedRaces`;
- `KeysInv`, `ReactionsInv`: a locked reaction stands as it was read, so an event
  is reported exactly for every change that is stored (`ReactionsReported`), and
  an article has no more voters with a reaction than changes
  (`ReactedWithinChanges`). Every such voter has one kind, so the counters of
  all kinds add up to the voters, hence `ReactionsCounted`;
- `EngagedInv`: every receipt not yet engaged stands for a view that is not
  engaged either (`EngagedCovered`), hence `EngagedWithinViews`;
- `OnceInv`: while a repetition may still come, the receipt of a counted view is
  kept (`SeenIssued`, which is what the retention of receipts is for), hence a
  view is added only for a visit not yet seen (`CountsFreshView`), and the sum
  over the sources of a day's report stays the number of tokens seen
  (`ViewsCounted`). As long as a day can still be counted it shows no more
  visitors than have a receipt, and a receipt is not removed before
  (`VisitorsCounted`), hence `VisitsCountedOnce`.

`ContentListingProofs` assumes `ListingAssumptions`: finitely many rows, columns
and ids that are integers, page sizes of at least one and the sorts of
`CompetencyMatrixWorkspaceSortEnum`, and, as the unique constraints of
`src/src/infra/postgresql/models/competency_matrix.py` lines 161-223 say, names
of sections that are unique in a sheet and of subsections in a section. It
proves all four properties of the lists:

- `WalkInv`, for `WalkDrift`. Keys that differ give every row a rank, the number
  of rows before it, and a page is the rows whose ranks lie in a range; articles
  that tie are excused. A row nobody wrote changes its rank only because other
  rows were written. A commit that writes n rows, whichever way, moves at most n
  others across the end of what has been read, in each direction
  (`MovesBounded`). So the rows that have been read and lie ahead again (`Repeats`), and the rows not
  read that lie behind (`Skipped`), number at most `written`; at the last page
  the rows not yet seen are the skipped ones (`Outside`, `Unseen`). `WalkDrift`
  alone is not inductive: it says nothing before the walk is done.
- `QuietInv`, for `SummaryMatchesPages`. As long as nobody has written, the rows
  shown so far are the first of the one list, in its order, so at the end they
  are all rows, once each, and the count, the summary and the shown rows count
  the same set; the draft, dangerous and ready questions divide it.
- `OptionsLead` needs the types only: an option is a column of a question that
  matches the filter made of it.
- `GroupsWhole`: the sorted list of a sheet exists, as its keys end with the id;
  two rows of one section have equal keys up to the section, so all between them
  have too (`CutAlike`). The groups are therefore exactly the classes of rows of
  one section, and within a section those of one subsection.

`CollectionTheorems` holds what these proofs share: a family of sets closed
under adding an element holds every finite set (`FiniteSetsReached`, induction
with the property given as a set), sums over finite sets (`SumAdds`,
`SumBumped`, `SumOfParts`), and sorted lists of a finite set.

`ManualWarmProofs` assumes a time to live of at least one unit and proves, for
any number of operations, workers, deaths and errors of Valkey,
`SummaryOfSuccess`, `LatestOutlives` and `StatusGoesForward`. The pointer outlives the operation
because the record is written first and the call that renews the pointer is
still due (`CoveredOrBetween`); the status goes forward because an operation
that is neither delivered twice nor in doubt has one writer at a time
(`OneWriter`), who knows the stored status (`StatusFollows`).

### Only model-checked

Every safety invariant and every action property of a run is a theorem. What
remains to TLC:

- `RequestsEnd`, `EventuallyFresh`, `WarmEnds`: liveness under fairness is
  outside the prover's reach.
- The violation of `file_dedupe`, which is a counterexample and needs no proof.
- `ENABLED`, hence the absence of deadlock in the sense of TLC. The waits for row
  locks are proved to have no rings (`NoCircularWait`) or only rings with a
  question write or a reordering (`DeadlocksNeedOtherWrites`).

## Findings

`file_dedupe`: `docs/TODO.md` line 370 says "upload a new object only when no
reusable file exists". `upload_file` looks for a duplicate and inserts a row in
two statements and no constraint makes the content hash unique, so two
concurrent uploads of one content each store an object. Both files work; the
second copy is only storage.

## Not modelled

- How Litestar and dishka hand a handled exception to the session provider is
  outside the repository. The models take the branch the provider states (roll
  back on any exception); no code sets `rollback_required`.
- Image processing, decoding of uploaded bytes and sheets, field formats and
  translations of the HTTP schemas, rendering, configuration and migrations:
  pure data handling or one-off set-up.
- Slugs and keys with their unique constraints: a second one is refused by the
  database and the request fails as any other.
- Ranking in the searches of resources, tags and articles; the articles' rank is
  a number of the row.
- A resource attached twice by one request violates a unique constraint and
  fails; attachments are sets.
- Wiki links, discovery pages, health check, contacts: no state of their own.

## Plan

Done: every component above that keeps state is modelled and checked, both
refinements are proved, and each safety property of a run is a theorem. What
would be worth adding:

1. An abstract specification of the manual warm as its admin sees it (queued,
   running, ended), implemented by `ManualWarm` without redelivery.
2. An abstract specification of the articles' public side, implemented by
   `ArticleCatalog`.
3. A second commit during a walk in the run `content_listing`; the proof has no
   bound on them.
