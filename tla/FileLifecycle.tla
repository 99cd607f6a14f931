---------------------------- MODULE FileLifecycle ----------------------------
(***************************************************************************)
(* The managed files of the API: rows in PostgreSQL, objects in S3, the    *)
(* articles that use them and the cleanup of orphans.  Every request and   *)
(* every run of the cleanup task is one READ COMMITTED transaction, a      *)
(* member of Tx, that advances one SQL statement or one S3 call at a time; *)
(* what it writes is private until Commit and its row locks last until     *)
(* then.  Objects are not transactional: an S3 call takes effect at once   *)
(* and survives a rollback.                                                *)
(*                                                                         *)
(* An article is known by its id, its cover and content files are the one  *)
(* set managed_file_ids, and a file's (namespace, purpose, sha256) is its  *)
(* Key: no operation changes it once the row exists.                       *)
(***************************************************************************)
EXTENDS Naturals, FiniteSets

CONSTANTS Tx,          \* concurrent requests and task runs
          Files,       \* file ids, compared by ORDER BY id
          Articles,
          Keys, Key,   \* Key[f]: (namespace, purpose, original_sha256) of f
          Ops,         \* the operations an instance allows
          BatchSize,   \* constants.files.orphan_cleanup_batch_size
          Retention,   \* settings.files.orphan_retention_seconds
          MaxTime,     \* bound: the clock stops here
          MaxLatency,  \* no transaction lives longer than this
          None         \* SQL NULL, and the holder of a free lock

AllOps == {"upload", "rename", "deleteFile", "create", "update", "deleteArticle", "prune"}
ArticleOps == {"create", "update", "deleteArticle"}

ASSUME LifecycleAssumptions ==
  /\ Files \subseteq Nat
  /\ Key \in [Files -> Keys]
  /\ Ops \subseteq AllOps
  /\ BatchSize \in Nat /\ Retention \in Nat /\ MaxTime \in Nat /\ MaxLatency \in Nat
  /\ None \notin Nat /\ None \notin Tx

Times == 0 .. MaxTime

VARIABLES
  rows, orphaned, articles, uses,   \* committed: see FileRegistry
  objects,                          \* the S3 objects, one path per file id
  known,                            \* ids a committed upload has returned
  flock, alock,                     \* holder of each file and article row lock
  tx,                               \* private state of each transaction
  now,                              \* the clock
  broken                            \* history: files a failed step left with
                                    \* a row and no object, or the reverse

db == <<rows, orphaned, articles, uses>>
vars == <<rows, orphaned, articles, uses, objects, known, flock, alock, tx, now, broken>>

Labels == {"idle", "find", "put", "lockArticle", "validate", "lockFiles", "sync",
           "s3delete", "rowDelete", "scan", "prune", "commit"}

(* No transaction: what a slot of Tx holds between two requests. *)
Idle ==
  [op |-> "none", pc |-> "idle", start |-> 0,
   art |-> None,      \* the article
   old |-> {},        \* managed files read under the article lock
   want |-> {},       \* managed files of the request
   file |-> None,     \* the file the next step is about
   todo |-> {},       \* files the current statement or loop has still to visit
   attach |-> {},     \* rows whose orphaned_at it sets to NULL
   orphan |-> {},     \* rows whose orphaned_at it sets to its start time
   ins |-> {},        \* rows it inserts
   del |-> {},        \* rows it deletes
   gone |-> {}]       \* objects it deleted, or may have

TxState ==
  [op : AllOps \cup {"none"}, pc : Labels, start : Times,
   art : Articles \cup {None},
   old : SUBSET Files, want : SUBSET Files, file : Files \cup {None},
   todo : SUBSET Files, attach : SUBSET Files, orphan : SUBSET Files,
   ins : SUBSET Files, del : SUBSET Files, gone : SUBSET Files]

(* file_has_usages: a cover or a content usage in a committed article *)
InUse(f) == \E a \in Articles : f \in uses[a]

(* orphaned_at IS NOT NULL AND orphaned_at < cutoff *)
Expired(f, start) == orphaned[f] # None /\ orphaned[f] + Retention < start

(* Deviation: lock_files without its ORDER BY *)
IsNextUnordered(f, todo) == f \in todo

(* The id an ORDER BY id statement visits next *)
IsNext(f, todo) == f \in todo /\ \A g \in todo : f <= g

Held(t) == {f \in Files : flock[f] = t}

Init ==
  /\ rows = {} /\ orphaned = [f \in Files |-> None]
  /\ articles = {} /\ uses = [a \in Articles |-> {}]
  /\ objects = {} /\ known = {}
  /\ flock = [f \in Files |-> None] /\ alock = [a \in Articles |-> None]
  /\ tx = [t \in Tx |-> Idle]
  /\ now = 0 /\ broken = {}

-----------------------------------------------------------------------------
(* Transaction scope *)

At(t, pc) == tx[t].pc = pc

Begin(t, op, rec) ==
  /\ At(t, "idle") /\ op \in Ops
  /\ tx' = [tx EXCEPT ![t] = rec]
  /\ UNCHANGED <<db, objects, known, flock, alock, now, broken>>

Release(t) ==
  /\ flock' = [f \in Files |-> IF flock[f] = t THEN None ELSE flock[f]]
  /\ alock' = [a \in Articles |-> IF alock[a] = t THEN None ELSE alock[a]]
  /\ tx' = [tx EXCEPT ![t] = Idle]

(* The request raised: nothing it wrote in PostgreSQL remains.  `stored` are
   the S3 objects as the failed step left them. *)
Rollback(t, stored) ==
  /\ Release(t)
  /\ objects' = stored
  /\ broken' = broken \cup tx[t].gone \cup (objects \ stored) \cup (tx[t].ins \cap stored)
  /\ UNCHANGED <<db, known, now>>

(* Any other exception, a failed commit or the death of the process *)
Crash(t) == ~At(t, "idle") /\ Rollback(t, objects)

(* Deviation: the first time at which a cleanup may take the file is stored. *)
MarkerDue(x, f) ==
  IF f \in x.attach THEN None
  ELSE IF f \in x.orphan THEN x.start + Retention + 1 ELSE orphaned[f]

(* The orphaned_at of row f that transaction x commits *)
Marker(x, f) ==
  IF f \in x.attach THEN None ELSE IF f \in x.orphan THEN x.start ELSE orphaned[f]

Commit(t) ==
  /\ At(t, "commit")
  /\ LET x == tx[t] IN
     /\ rows' = (rows \cup x.ins) \ x.del
     /\ orphaned' = [f \in Files |-> Marker(x, f)]
     /\ articles' = CASE x.op \in {"create", "update"} -> articles \cup {x.art}
                      [] x.op = "deleteArticle" -> articles \ {x.art}
                      [] OTHER -> articles
     /\ uses' = IF x.op \in ArticleOps THEN [uses EXCEPT ![x.art] = x.want] ELSE uses
     /\ known' = known \cup x.ins
     /\ broken' = (broken \cup x.gone) \ x.del
  /\ Release(t)
  /\ UNCHANGED <<objects, now>>

(* Steps that read committed state and write only private state *)
Private(t, upd) ==
  /\ tx' = [tx EXCEPT ![t] = upd]
  /\ UNCHANGED <<db, objects, known, flock, alock, now, broken>>

-----------------------------------------------------------------------------
(* FileService.upload_file *)

(* The endpoint draws a fresh id; the SELECT ... FOR UPDATE for a duplicate
   sees the rows committed when it starts. *)
UploadBegin(t) ==
  \E f \in Files \ (known \cup objects) :
    /\ \A u \in Tx : tx[u].op = "upload" => tx[u].file # f
    /\ Begin(t, "upload", [Idle EXCEPT !.op = "upload", !.pc = "find", !.start = now,
                                       !.file = f, !.todo = {g \in rows : Key[g] = Key[f]}])

(* Deviation: a duplicate is returned with its old orphaned_at. *)
UploadFindWithoutRefresh(t) ==
  /\ At(t, "find")
  /\ \E f \in tx[t].todo :
       /\ f \in rows /\ flock[f] = None
       /\ flock' = [flock EXCEPT ![f] = t]
       /\ tx' = [tx EXCEPT ![t].file = f, ![t].pc = "commit"]
       /\ UNCHANGED <<db, objects, known, alock, now, broken>>

(* find_file_by_original_sha256 waits for a candidate's lock and drops one
   that was deleted meanwhile.  The order of the candidates (created_at) is
   left open.  A duplicate that is an orphan has its grace period restarted. *)
UploadFindDuplicate(t) ==
  /\ At(t, "find")
  /\ \E f \in tx[t].todo :
       \/ /\ f \notin rows
          /\ Private(t, [tx[t] EXCEPT !.todo = @ \ {f}])
       \/ /\ f \in rows /\ flock[f] = None
          /\ flock' = [flock EXCEPT ![f] = t]
          /\ tx' = [tx EXCEPT ![t].file = f, ![t].pc = "commit",
                              ![t].orphan = IF orphaned[f] # None THEN {f} ELSE {}]
          /\ UNCHANGED <<db, objects, known, alock, now, broken>>

(* create_file: the row is flushed before the object is written. *)
UploadCreateRow(t) ==
  /\ At(t, "find") /\ tx[t].todo = {}
  /\ Private(t, [tx[t] EXCEPT !.pc = "put", !.ins = {tx[t].file}, !.orphan = {tx[t].file}])

UploadPutObject(t) ==
  /\ At(t, "put")
  /\ objects' = objects \cup {tx[t].file}
  /\ tx' = [tx EXCEPT ![t].pc = "commit"]
  /\ UNCHANGED <<db, known, flock, alock, now, broken>>

(* A failed put_object may still have stored the object. *)
UploadPutFails(t) ==
  /\ At(t, "put")
  /\ \E stored \in {objects, objects \cup {tx[t].file}} : Rollback(t, stored)

-----------------------------------------------------------------------------
(* ArticlesUseCase.create_article, update_article, delete_article *)

CreateArticleBegin(t) ==
  \E a \in Articles, want \in SUBSET known :
    Begin(t, "create", [Idle EXCEPT !.op = "create", !.pc = "validate", !.start = now,
                                    !.art = a, !.want = want])

UpdateArticleBegin(t) ==
  \E a \in Articles, want \in SUBSET known :
    Begin(t, "update", [Idle EXCEPT !.op = "update", !.pc = "lockArticle", !.start = now,
                                    !.art = a, !.want = want])

DeleteArticleBegin(t) ==
  \E a \in Articles :
    Begin(t, "deleteArticle", [Idle EXCEPT !.op = "deleteArticle", !.pc = "lockArticle",
                                           !.start = now, !.art = a])

(* get_article_by_slug(lock=True), then the usage links under that lock *)
LockArticle(t) ==
  LET a == tx[t].art IN
  /\ At(t, "lockArticle") /\ a \in articles /\ alock[a] = None
  /\ alock' = [alock EXCEPT ![a] = t]
  /\ tx' = [tx EXCEPT ![t].old = uses[a],
                      ![t].todo = IF tx[t].op = "deleteArticle" THEN uses[a] ELSE {},
                      ![t].pc = IF tx[t].op = "deleteArticle" THEN "lockFiles" ELSE "validate"]
  /\ UNCHANGED <<db, objects, known, flock, now, broken>>

ArticleNotFound(t) ==
  /\ At(t, "lockArticle") /\ tx[t].art \notin articles
  /\ Rollback(t, objects)

(* Deviation: only the new files are locked, not those being detached. *)
EnsureFilesAllowedLocksNew(t) ==
  /\ At(t, "validate") /\ tx[t].want \subseteq rows
  /\ Private(t, [tx[t] EXCEPT !.pc = "lockFiles", !.todo = tx[t].want])

(* ensure_files_allowed reads the rows without locking them. *)
EnsureFilesAllowed(t) ==
  /\ At(t, "validate")
  /\ IF tx[t].want \subseteq rows
     THEN Private(t, [tx[t] EXCEPT !.pc = "lockFiles", !.todo = tx[t].old \cup tx[t].want])
     ELSE Rollback(t, objects)

(* FilesDatabaseStorage.lock_files: in id order, ids without a row are no
   error.  lock_file_usage_transitions calls it with old and new files. *)
LockNextFile(t) ==
  /\ At(t, "lockFiles")
  /\ \E f \in tx[t].todo :
       /\ IsNext(f, tx[t].todo)
       /\ f \in rows => flock[f] = None
       /\ flock' = IF f \in rows THEN [flock EXCEPT ![f] = t] ELSE flock
       /\ tx' = [tx EXCEPT ![t].todo = @ \ {f}]
       /\ UNCHANGED <<db, objects, known, alock, now, broken>>

FilesLocked(t, op) == At(t, "lockFiles") /\ tx[t].todo = {} /\ tx[t].op = op

(* The flush of a new article: its unique key excludes a second one, its
   foreign keys need every file's row. *)
InsertArticle(t) ==
  LET a == tx[t].art IN
  /\ FilesLocked(t, "create")
  /\ IF a \in articles \/ ~(tx[t].want \subseteq rows)
     THEN Rollback(t, objects)
     ELSE /\ alock[a] = None
          /\ alock' = [alock EXCEPT ![a] = t]
          /\ tx' = [tx EXCEPT ![t].pc = "sync"]
          /\ UNCHANGED <<db, objects, known, flock, now, broken>>

(* The flush of a changed article checks the same foreign keys. *)
UpdateArticleRow(t) ==
  /\ FilesLocked(t, "update")
  /\ IF tx[t].want \subseteq rows
     THEN Private(t, [tx[t] EXCEPT !.pc = "sync"])
     ELSE Rollback(t, objects)

DeleteArticleRow(t) ==
  /\ FilesLocked(t, "deleteArticle")
  /\ Private(t, [tx[t] EXCEPT !.pc = "sync"])

(* Deviation: set_files_orphaned_if_unused without ~has_usages *)
UnusedAfterOwnSave(t, f) == f \notin tx[t].want

(* set_files_orphaned_if_unused sees committed usages and its own writes. *)
UnusedAfter(t, f) ==
  f \notin tx[t].want /\ \A a \in Articles \ {tx[t].art} : f \notin uses[a]

(* sync_file_usages: the rows are locked already, so neither update waits. *)
SyncFileUsages(t) ==
  /\ At(t, "sync")
  /\ Private(t, [tx[t] EXCEPT !.attach = tx[t].want,
                              !.orphan = {f \in tx[t].old \ tx[t].want : UnusedAfter(t, f)},
                              !.pc = "commit"])

-----------------------------------------------------------------------------
(* FileService.update_file and delete_file *)

RenameFileBegin(t) ==
  \E f \in known :
    Begin(t, "rename", [Idle EXCEPT !.op = "rename", !.pc = "lockFiles", !.start = now,
                                    !.file = f, !.todo = {f}])

(* UPDATE ... RETURNING: the name is not modelled, the row lock is. *)
RenameFile(t) ==
  /\ FilesLocked(t, "rename")
  /\ IF tx[t].file \in rows
     THEN Private(t, [tx[t] EXCEPT !.pc = "commit"])
     ELSE Rollback(t, objects)

(* Deviation: delete_file without lock_files *)
DeleteFileBeginUnlocked(t) ==
  \E f \in known :
    Begin(t, "deleteFile", [Idle EXCEPT !.op = "deleteFile", !.pc = "lockFiles",
                                        !.start = now, !.file = f])

DeleteFileBegin(t) ==
  \E f \in known :
    Begin(t, "deleteFile", [Idle EXCEPT !.op = "deleteFile", !.pc = "lockFiles",
                                        !.start = now, !.file = f, !.todo = {f}])

(* Deviation: delete_file leaves the usage check to the foreign keys. *)
DeleteFileCheckRowOnly(t) ==
  /\ FilesLocked(t, "deleteFile") /\ tx[t].file \in rows
  /\ Private(t, [tx[t] EXCEPT !.pc = "s3delete"])

(* FileInUseError, then EntryNotFoundError *)
DeleteFileCheck(t) ==
  /\ FilesLocked(t, "deleteFile")
  /\ IF InUse(tx[t].file) \/ tx[t].file \notin rows
     THEN Rollback(t, objects)
     ELSE Private(t, [tx[t] EXCEPT !.pc = "s3delete"])

(* The object goes before its row, for a request and for the cleanup task. *)
DeleteObject(t) ==
  /\ At(t, "s3delete")
  /\ objects' = objects \ {tx[t].file}
  /\ tx' = [tx EXCEPT ![t].gone = @ \cup {tx[t].file}, ![t].pc = "rowDelete"]
  /\ UNCHANGED <<db, known, flock, alock, now, broken>>

(* Deviation: the cleanup deletes the row although the object remains. *)
DeleteObjectFailsIgnored(t) ==
  /\ At(t, "s3delete") /\ tx[t].op = "prune"
  /\ Private(t, [tx[t] EXCEPT !.pc = "rowDelete"])

(* FileClientInternalError: the object may be gone all the same.  A request
   fails; the cleanup keeps the row and goes on with the next file. *)
DeleteObjectFails(t) ==
  /\ At(t, "s3delete")
  /\ \E lost \in SUBSET {tx[t].file} :
       \/ /\ tx[t].op = "prune"
          /\ objects' = objects \ lost
          /\ tx' = [tx EXCEPT ![t].gone = @ \cup lost, ![t].pc = "prune"]
          /\ UNCHANGED <<db, known, flock, alock, now, broken>>
       \/ /\ tx[t].op = "deleteFile"
          /\ Rollback(t, objects \ lost)

(* FilesDatabaseStorage.delete_file: ondelete=RESTRICT refuses a used file. *)
DeleteRow(t) ==
  /\ At(t, "rowDelete")
  /\ IF InUse(tx[t].file)
     THEN Rollback(t, objects)
     ELSE Private(t, [tx[t] EXCEPT !.del = @ \cup {tx[t].file},
                                   !.pc = IF tx[t].op = "prune" THEN "prune" ELSE "commit"])

-----------------------------------------------------------------------------
(* FileOrphanCleanupService.prune *)

(* The snapshot of list_orphaned_files_for_cleanup *)
PruneBegin(t) ==
  Begin(t, "prune", [Idle EXCEPT !.op = "prune", !.pc = "scan", !.start = now,
                                 !.todo = {f \in rows : Expired(f, now) /\ ~InUse(f)}])

(* FOR UPDATE SKIP LOCKED: a locked candidate is passed over, one that is
   free is locked if its latest version still satisfies the conditions on the
   row itself.  Usages are not read again. *)
PruneLockCandidate(t) ==
  /\ At(t, "scan") /\ Cardinality(Held(t)) < BatchSize
  /\ \E f \in tx[t].todo :
       /\ flock' = IF f \in rows /\ flock[f] = None /\ Expired(f, tx[t].start)
                   THEN [flock EXCEPT ![f] = t] ELSE flock
       /\ tx' = [tx EXCEPT ![t].todo = @ \ {f}]
       /\ UNCHANGED <<db, objects, known, alock, now, broken>>

PruneScanned(t) ==
  /\ At(t, "scan") /\ (tx[t].todo = {} \/ Cardinality(Held(t)) >= BatchSize)
  /\ Private(t, [tx[t] EXCEPT !.pc = "prune", !.todo = Held(t)])

(* The usages are read again for each candidate. *)
PruneFile(t) ==
  /\ At(t, "prune")
  /\ \E f \in tx[t].todo :
       Private(t, IF InUse(f)
                  THEN [tx[t] EXCEPT !.todo = @ \ {f}, !.attach = @ \cup {f}]
                  ELSE [tx[t] EXCEPT !.todo = @ \ {f}, !.file = f, !.pc = "s3delete"])

PruneDone(t) ==
  /\ At(t, "prune") /\ tx[t].todo = {}
  /\ Private(t, [tx[t] EXCEPT !.pc = "commit"])

-----------------------------------------------------------------------------
(* The clock.  A transaction is assumed to end within MaxLatency. *)
Tick ==
  /\ now < MaxTime
  /\ \A t \in Tx : At(t, "idle") \/ now < tx[t].start + MaxLatency
  /\ now' = now + 1
  /\ UNCHANGED <<db, objects, known, flock, alock, tx, broken>>

Request(t) ==
  \/ UploadBegin(t) \/ RenameFileBegin(t) \/ DeleteFileBegin(t) \/ PruneBegin(t)
  \/ CreateArticleBegin(t) \/ UpdateArticleBegin(t) \/ DeleteArticleBegin(t)

Step(t) ==
  \/ UploadFindDuplicate(t) \/ UploadCreateRow(t) \/ UploadPutObject(t)
  \/ LockArticle(t) \/ ArticleNotFound(t) \/ EnsureFilesAllowed(t) \/ LockNextFile(t)
  \/ InsertArticle(t) \/ UpdateArticleRow(t) \/ DeleteArticleRow(t) \/ SyncFileUsages(t)
  \/ RenameFile(t) \/ DeleteFileCheck(t) \/ DeleteObject(t) \/ DeleteRow(t)
  \/ PruneLockCandidate(t) \/ PruneScanned(t) \/ PruneFile(t) \/ PruneDone(t)

Fault(t) == UploadPutFails(t) \/ DeleteObjectFails(t) \/ Crash(t)

Next ==
  \/ \E t \in Tx : Request(t) \/ Step(t) \/ Fault(t) \/ Commit(t)
  \/ Tick

Spec == Init /\ [][Next]_vars

(* PostgreSQL grants a row lock to its waiters in turn and the event loop
   resumes every request, so a transaction that can advance again and again
   does.  Failures and new requests are never owed. *)
FairSpec == Spec /\ \A t \in Tx : SF_vars(Step(t)) /\ WF_vars(Commit(t))

-----------------------------------------------------------------------------
Registry == INSTANCE FileRegistry WITH rows <- rows, orphaned <- orphaned, articles <- articles, uses <- uses

Typed ==
  /\ rows \subseteq Files /\ orphaned \in [Files -> Times \cup {None}]
  /\ articles \subseteq Articles /\ uses \in [Articles -> SUBSET Files]
  /\ objects \subseteq Files /\ known \subseteq Files /\ broken \subseteq Files
  /\ flock \in [Files -> Tx \cup {None}] /\ alock \in [Articles -> Tx \cup {None}]
  /\ tx \in [Tx -> TxState]
  /\ now \in Times

(* The variables have their types and nothing is dated ahead of the clock:
   orphaned_at is the time a committed request began, never the time a file
   is due, or the row would be kept longer than the retention. *)
TypeOK ==
  /\ Typed
  /\ \A t \in Tx : tx[t].start <= now
  /\ \A f \in Files : orphaned[f] # None => orphaned[f] <= now

(* Seen through its commits the system is the atomic registry: however
   requests, lock waits, failures and cleanup runs interleave, each commit
   changes the database as one step of FileRegistry would. *)
RefinesRegistry == Registry!Spec

(* The orphan marker, the only thing the cleanup query trusts once it holds
   the lock, is NULL exactly for the files some committed article uses
   (sync_file_usages, lock_file_usage_transitions). *)
MarkerExact == \A f \in rows : (orphaned[f] = None) <=> InUse(f)

(* A used file has its row (the foreign keys) and its object: no delete or
   cleanup that races with the save of an article takes either away.  Only a
   step that failed after its S3 call can have lost the object. *)
UsedFileIsServed ==
  \A f \in Files : InUse(f) => f \in rows /\ f \in objects \cup broken

(* Rows and objects agree on every file no transaction is working on, except
   those a failed step left behind: upload writes the row first, delete and
   prune the object first, and prune keeps the row of a failed delete. *)
StorageParity ==
  \A f \in Files \ broken :
    (\A t \in Tx : f \notin tx[t].ins \cup tx[t].gone) => (f \in rows <=> f \in objects)

(* The object of a file is never removed while a committed article uses it,
   nor while a save that has passed its foreign key check is about to. *)
NoObjectDeletedUnderUse ==
  [][\A f \in objects \ objects' :
       /\ ~InUse(f)
       /\ \A t \in Tx : At(t, "sync") \/ At(t, "commit") => f \notin tx[t].want]_vars

(* The transactions t waits for *)
WaitsFor(t) ==
  CASE At(t, "find") -> {flock[f] : f \in tx[t].todo \cap rows} \ {None}
    [] At(t, "lockArticle") /\ tx[t].art \in articles -> {alock[tx[t].art]} \ {None}
    [] FilesLocked(t, "create") /\ tx[t].art \notin articles -> {alock[tx[t].art]} \ {None}
    [] At(t, "lockFiles") /\ tx[t].todo # {} -> {flock[f] : f \in {g \in rows : IsNext(g, tx[t].todo)}} \ {None}
    [] OTHER -> {}

(* Article rows are locked before file rows and file rows in id order, so no
   set of requests waits in a circle (lock_files, ORDER BY id).  A new article
   is the exception: its row comes after its files, and only another insert of
   the same article, which waits no more, can make it wait. *)
NoCircularWait ==
  \A S \in SUBSET Tx : S # {} => \E t \in S : WaitsFor(t) \cap S = {}

(* Every request and every cleanup run ends, whatever it waits for. *)
RequestsEnd == \A t \in Tx : ~At(t, "idle") ~> At(t, "idle")

(* TODO.md: "upload a new object only when no reusable file exists" *)
UploadsOnlyWithoutReusableFile ==
  [][\A f \in objects' \ objects : \A g \in rows : Key[g] # Key[f]]_vars
=============================================================================
