------------------------ MODULE FileLifecycleProofs ------------------------
(***************************************************************************)
(* The safety of FileLifecycle for every number of requests, files and     *)
(* articles.  IInv is the inductive invariant: what each transaction has   *)
(* read stays true because it holds the row locks, and what Commit changes *)
(* is always locked by the transaction that commits.  OrderInv adds the    *)
(* order in which a transaction acquires its locks.                        *)
(*                                                                         *)
(* Then the retention promise of FileGrace: the argument goes from the     *)
(* promise to orphaned_at, which is at most one latency older, from there  *)
(* to the start of the cleanup run, which is the retention later, and from *)
(* there to now.                                                           *)
(***************************************************************************)
EXTENDS FileGrace, CollectionTheorems

OpOf(pc) ==
  CASE pc = "idle" -> {"none"}
    [] pc \in {"find", "put"} -> {"upload"}
    [] pc = "lockArticle" -> {"update", "deleteArticle"}
    [] pc = "validate" -> {"create", "update"}
    [] pc = "lockFiles" -> ArticleOps \cup {"rename", "deleteFile"}
    [] pc = "sync" -> ArticleOps
    [] pc \in {"s3delete", "rowDelete"} -> {"deleteFile", "prune"}
    [] pc \in {"scan", "prune"} -> {"prune"}
    [] pc = "commit" -> AllOps

(* A slot between two requests holds no lock. *)
IdleInv(t) ==
  At(t, "idle") => /\ tx[t] = Idle
                   /\ \A f \in Files : flock[f] # t
                   /\ \A a \in Articles : alock[a] # t

(* The id of an upload that has not committed is its own. *)
Reserved(t) == tx[t].op = "upload" /\ (At(t, "find") \/ At(t, "put") \/ tx[t].ins # {})

UploadInv(t) ==
  IF tx[t].op = "upload"
  THEN /\ tx[t].ins \in {{}, {tx[t].file}} /\ tx[t].file \in Files
       /\ tx[t].orphan \subseteq {tx[t].file} /\ tx[t].attach = {}
       /\ At(t, "find") => tx[t].ins = {} /\ tx[t].orphan = {}
       /\ At(t, "put") => tx[t].ins = {tx[t].file}
       /\ tx[t].ins # {} => tx[t].orphan = {tx[t].file}
       /\ Reserved(t) => tx[t].file \notin known
       /\ At(t, "commit") /\ tx[t].ins # {} => tx[t].file \in objects
       /\ At(t, "commit") /\ tx[t].ins = {} =>
            \A f \in tx[t].orphan : f \in rows /\ flock[f] = t /\ orphaned[f] # None
  ELSE tx[t].ins = {}

(* What an article request read under the article's lock is still there. *)
HoldsArticle(t) ==
  \/ tx[t].op \in {"update", "deleteArticle"} /\ tx[t].pc \in {"validate", "lockFiles", "sync", "commit"}
  \/ tx[t].op = "create" /\ tx[t].pc \in {"sync", "commit"}

ArticleInv(t) ==
  tx[t].op \in ArticleOps =>
    /\ tx[t].art \in Articles
    /\ tx[t].want \cup tx[t].old \subseteq known
    /\ tx[t].op = "create" => tx[t].old = {}
    /\ tx[t].op = "deleteArticle" => tx[t].want = {}
    /\ HoldsArticle(t) => /\ alock[tx[t].art] = t
                          /\ tx[t].old = uses[tx[t].art]
                          /\ tx[t].art \in articles <=> tx[t].op # "create"
    /\ tx[t].pc \in {"lockFiles", "sync", "commit"} =>
         \A f \in ((tx[t].old \cup tx[t].want) \ tx[t].todo) \cap rows : flock[f] = t
    /\ tx[t].pc \in {"sync", "commit"} => tx[t].todo = {} /\ tx[t].want \subseteq rows
    /\ IF At(t, "commit")
       THEN /\ tx[t].attach = tx[t].want
            /\ tx[t].orphan = {f \in tx[t].old \ tx[t].want : UnusedAfter(t, f)}
       ELSE tx[t].attach = {} /\ tx[t].orphan = {}

(* The files a delete or a cleanup run is taking away *)
Doomed(t) ==
  tx[t].gone \cup tx[t].del \cup (IF tx[t].pc \in {"s3delete", "rowDelete"} THEN {tx[t].file} ELSE {})
             \cup (IF tx[t].op = "prune" THEN Held(t) ELSE {})

DeleteInv(t) ==
  /\ \A f \in Doomed(t) : f \in rows /\ flock[f] = t /\ orphaned[f] # None
  /\ tx[t].gone \cap objects = {} /\ tx[t].del \subseteq tx[t].gone
  /\ At(t, "rowDelete") => tx[t].file \in tx[t].gone
  /\ tx[t].op \notin {"deleteFile", "prune"} => tx[t].gone = {}
  /\ tx[t].op \in {"deleteFile", "prune", "rename"} => tx[t].attach = {} /\ tx[t].orphan = {}
  /\ tx[t].op = "prune" /\ ~At(t, "scan") => tx[t].todo \subseteq Held(t)
  /\ tx[t].op \in {"rename", "deleteFile"} => tx[t].file \in known
  /\ /\ At(t, "lockFiles") /\ tx[t].op \in {"rename", "deleteFile"}
     /\ tx[t].file \in rows \ tx[t].todo
     => flock[tx[t].file] = t

TxInv(t) == tx[t].op \in OpOf(tx[t].pc) /\ IdleInv(t) /\ UploadInv(t) /\ ArticleInv(t) /\ DeleteInv(t)

DistinctUploads ==
  \A t, u \in Tx : t # u /\ Reserved(t) /\ Reserved(u) => tx[t].file # tx[u].file

DbInv ==
  /\ rows \subseteq known
  /\ \A f \in Files : flock[f] # None => f \in known
  /\ \A a \in Articles : uses[a] \subseteq rows /\ (a \notin articles => uses[a] = {})
  /\ MarkerExact

IInv == Typed /\ DbInv /\ (\A t \in Tx : TxInv(t)) /\ DistinctUploads /\ StorageParity

-----------------------------------------------------------------------------
(* What transaction u relies on is not disturbed by a step of another one. *)
Undisturbed(u) ==
  /\ tx'[u] = tx[u]
  /\ \A f \in Files : flock'[f] = u <=> flock[f] = u
  /\ \A a \in Articles : alock'[a] = u <=> alock[a] = u
  /\ \A f \in Files : flock[f] = u =>
       /\ f \in rows' <=> f \in rows
       /\ orphaned'[f] = orphaned[f]
       /\ \A a \in Articles : f \in uses'[a] <=> f \in uses[a]
  /\ \A a \in Articles : alock[a] = u =>
       uses'[a] = uses[a] /\ (a \in articles' <=> a \in articles)
  /\ known \subseteq known' /\ known \cap rows' \subseteq rows
  /\ tx[u].gone \cap objects' = {}
  /\ Reserved(u) => /\ tx[u].file \notin known'
                    /\ tx[u].file \in objects => tx[u].file \in objects'

(* The inductive invariant of a transaction survives every step that leaves
   the rows it has locked and the id it has drawn alone. *)
LEMMA OthersKept ==
  ASSUME IInv, NEW u \in Tx, Undisturbed(u)
  PROVE  TxInv(u)'
PROOF
<1> USE DEF At
<1>0. /\ TxInv(u) /\ tx[u] \in TxState /\ tx'[u] = tx[u] /\ DbInv
  BY DEF IInv, Typed, Undisturbed
<1>1. (tx[u].op \in OpOf(tx[u].pc))'
  BY <1>0 DEF TxInv, OpOf, ArticleOps, AllOps
<1>2. IdleInv(u)'
  BY <1>0 DEF TxInv, IdleInv, Undisturbed
<1>3. UploadInv(u)'
  BY <1>0 DEF TxInv, UploadInv, Reserved, Undisturbed, TxState
<1>4. ArticleInv(u)'
  <2> DEFINE x == tx[u]
  <2> SUFFICES ASSUME x.op \in ArticleOps PROVE ArticleInv(u)'
    BY <1>0 DEF ArticleInv
  <2>1. ArticleInv(u)
    BY <1>0 DEF TxInv
  <2>2. /\ x.art \in Articles /\ x.want \cup x.old \subseteq known'
        /\ x.op = "create" => x.old = {}
        /\ x.op = "deleteArticle" => x.want = {}
    BY <1>0, <2>1 DEF ArticleInv, Undisturbed
  <2>3. HoldsArticle(u)' => /\ alock'[x.art] = u
                            /\ x.old = uses'[x.art]
                            /\ x.art \in articles' <=> x.op # "create"
    BY <1>0, <2>1, <2>2 DEF ArticleInv, HoldsArticle, Undisturbed
  <2>4. x.pc \in {"lockFiles", "sync", "commit"} =>
          \A f \in ((x.old \cup x.want) \ x.todo) \cap rows' : flock'[f] = u
    BY <1>0, <2>1 DEF ArticleInv, Undisturbed, TxState
  <2>5. x.pc \in {"sync", "commit"} => x.todo = {} /\ x.want \subseteq rows'
    BY <1>0, <2>1 DEF ArticleInv, Undisturbed, TxState
  <2>6. x.pc # "commit" => x.attach = {} /\ x.orphan = {}
    BY <2>1 DEF ArticleInv
  <2>7. ASSUME x.pc = "commit"
        PROVE  x.attach = x.want /\ x.orphan = {f \in x.old \ x.want : UnusedAfter(u, f)'}
    <3>1. x.old \subseteq rows /\ x.old \subseteq Files /\ x.todo = {}
      BY <1>0, <2>1, <2>7 DEF ArticleInv, HoldsArticle, DbInv, ArticleOps, TxState
    <3>2. \A f \in x.old : flock[f] = u
      BY <2>1, <2>7, <3>1 DEF ArticleInv
    <3>3. \A f \in x.old : UnusedAfter(u, f)' <=> UnusedAfter(u, f)
      BY <1>0, <3>1, <3>2 DEF UnusedAfter, Undisturbed
    <3>4. QED BY <2>1, <2>7, <3>3 DEF ArticleInv
  <2>8. QED BY <1>0, <2>2, <2>3, <2>4, <2>5, <2>6, <2>7 DEF ArticleInv
<1>5. DeleteInv(u)'
  <2>1. DeleteInv(u)
    BY <1>0 DEF TxInv
  <2>2. Doomed(u)' = Doomed(u) /\ Doomed(u) \subseteq Files
    <3>1. Held(u)' = Held(u) /\ Held(u) \subseteq Files
      BY DEF Held, Undisturbed
    <3>2. tx[u].pc \in {"s3delete", "rowDelete"} => tx[u].file \in Files
      BY <1>0, <2>1 DEF DeleteInv, Doomed, IInv, Typed
    <3>3. QED BY <1>0, <3>1, <3>2 DEF Doomed, TxState
  <2>3. \A f \in Doomed(u)' : f \in rows' /\ flock'[f] = u /\ orphaned'[f] # None
    BY <2>1, <2>2 DEF DeleteInv, Undisturbed
  <2>4. Held(u)' = Held(u)
    BY DEF Held, Undisturbed
  <2>5. QED BY <1>0, <2>1, <2>3, <2>4 DEF DeleteInv, Undisturbed, IInv, Typed
<1>6. QED BY <1>1, <1>2, <1>3, <1>4, <1>5 DEF TxInv

(* A step of t that writes its private state, acquires free locks, and may
   store the object it uploads or remove the one it deletes *)
LocksGrow(t) ==
  /\ flock' \in [Files -> Tx \cup {None}]
  /\ \A f \in Files : flock'[f] = flock[f] \/ (flock[f] = None /\ flock'[f] = t /\ f \in rows)
  /\ alock' \in [Articles -> Tx \cup {None}]
  /\ \A a \in Articles : alock'[a] = alock[a] \/ (alock[a] = None /\ alock'[a] = t)

Local(t) ==
  /\ UNCHANGED <<rows, orphaned, articles, uses, known, now, broken>>
  /\ objects' \ objects \subseteq tx'[t].ins /\ objects \ objects' \subseteq tx'[t].gone \cap rows
  /\ \E y \in TxState : tx' = [tx EXCEPT ![t] = y]
  /\ LocksGrow(t)
  /\ tx[t].ins \cup tx[t].gone \subseteq tx'[t].ins \cup tx'[t].gone
  /\ Reserved(t)' => \A u \in Tx \ {t} : Reserved(u) => tx[u].file # tx'[t].file

(* Such a step keeps the inductive invariant if it keeps t's own part. *)
LEMMA LocalStep ==
  ASSUME IInv, NEW t \in Tx, Local(t), TxInv(t)'
  PROVE  IInv'
PROOF
<1>0. /\ tx'[t] \in TxState /\ tx'[t].ins \subseteq Files \ known
      /\ rows \subseteq known /\ tx \in [Tx -> TxState]
  <2>1. tx'[t] \in TxState /\ rows \subseteq known /\ tx \in [Tx -> TxState]
    BY DEF IInv, Typed, DbInv, Local
  <2>2. tx'[t].ins \subseteq Files \ known
    BY <2>1 DEF TxInv, UploadInv, Reserved, TxState, Local
  <2>3. QED BY <2>1, <2>2
<1>1. Typed'
  BY <1>0 DEF IInv, Typed, Local, LocksGrow
<1>2. DbInv'
  BY DEF IInv, DbInv, Local, LocksGrow, MarkerExact, InUse
<1>3. ASSUME NEW u \in Tx, u # t
      PROVE  TxInv(u)' /\ tx'[u] = tx[u] /\ (Reserved(u)' <=> Reserved(u))
  <2>1. tx'[u] = tx[u]
    BY <1>3 DEF IInv, Typed, Local
  <2>2. /\ tx[u].gone \cap objects = {} /\ tx[u].gone \subseteq rows
        /\ Reserved(u) => tx[u].file \notin known
    BY DEF IInv, TxInv, DeleteInv, Doomed, UploadInv, Reserved
  <2>3. u # None
    BY LifecycleAssumptions
  <2>4. Undisturbed(u)
    BY <1>0, <1>3, <2>1, <2>2, <2>3 DEF Local, LocksGrow, Undisturbed
  <2>5. QED BY <2>1, <2>4, OthersKept DEF Reserved, At
<1>4. DistinctUploads'
  <2> SUFFICES ASSUME NEW u \in Tx, NEW v \in Tx, u # v, Reserved(u)', Reserved(v)'
               PROVE  tx'[u].file # tx'[v].file
    BY DEF DistinctUploads
  <2>1. CASE u # t /\ v # t
    BY <2>1, <1>3 DEF IInv, DistinctUploads
  <2>2. CASE u = t \/ v = t
    BY <2>2, <1>3 DEF Local
  <2>3. QED BY <2>1, <2>2
<1>5. StorageParity'
  <2> SUFFICES ASSUME NEW f \in Files \ broken, \A u \in Tx : f \notin tx'[u].ins \cup tx'[u].gone
               PROVE  f \in rows <=> f \in objects'
    BY DEF StorageParity, Local
  <2>1. \A u \in Tx : f \notin tx[u].ins \cup tx[u].gone
    BY <1>3 DEF Local
  <2>2. f \in objects' <=> f \in objects
    BY DEF Local
  <2>3. QED BY <2>1, <2>2 DEF IInv, StorageParity
<1>6. QED BY <1>1, <1>2, <1>3, <1>4, <1>5 DEF IInv

(* A request that begins keeps the inductive invariant if its own part holds:
   it takes no lock and an upload draws an id no other upload has. *)
LEMMA BeginLocal ==
  ASSUME IInv, NEW t \in Tx, NEW op, NEW rec \in TxState, Begin(t, op, rec), TxInv(t)',
         rec.op = "upload" => \A u \in Tx : tx[u].op = "upload" => tx[u].file # rec.file
  PROVE  IInv'
PROOF
<1>1. tx[t] = Idle /\ tx'[t] = rec
  BY DEF IInv, Typed, TxInv, IdleInv, Begin
<1>2. tx[t].ins = {} /\ tx[t].gone = {}
  BY <1>1 DEF Idle
<1>3. Reserved(t)' => \A u \in Tx \ {t} : Reserved(u) => tx[u].file # tx'[t].file
  BY <1>1 DEF Reserved
<1>4. LocksGrow(t)
  BY DEF Begin, LocksGrow, IInv, Typed
<1>5. Local(t)
  BY <1>2, <1>3, <1>4 DEF Begin, Local, db
<1>6. QED BY <1>5, LocalStep

(* Every kind of request begins in a state that satisfies the invariant. *)
LEMMA RequestKeeps ==
  ASSUME IInv, NEW t \in Tx, Request(t)
  PROVE  IInv'
PROOF
<1> USE DEF Idle
<1>0. /\ now \in Times /\ known \subseteq Files /\ rows \subseteq known /\ t # None
      /\ flock \in [Files -> Tx \cup {None}] /\ tx \in [Tx -> TxState]
  BY LifecycleAssumptions DEF IInv, Typed, DbInv
<1>a. At(t, "idle") => /\ \A f \in Files : flock[f] # t
                       /\ \A a \in Articles : alock[a] # t
  BY DEF IInv, TxInv, IdleInv
<1>1. CASE UploadBegin(t)
  <2>1. PICK f \in Files \ (known \cup objects) :
          /\ \A u \in Tx : tx[u].op = "upload" => tx[u].file # f
          /\ Begin(t, "upload", [Idle EXCEPT !.op = "upload", !.pc = "find", !.start = now, !.file = f,
                             !.todo = {g \in rows : Key[g] = Key[f]}])
    BY <1>1 DEF UploadBegin
  <2> DEFINE rec == [Idle EXCEPT !.op = "upload", !.pc = "find", !.start = now, !.file = f,
                             !.todo = {g \in rows : Key[g] = Key[f]}]
  <2>2. rec \in TxState
    BY <1>0 DEF TxState, Labels, AllOps
  <2>3. tx'[t] = rec /\ At(t, "idle") /\ UNCHANGED <<db, known, objects, flock, alock>>
    BY <1>0, <2>1 DEF Begin
  <2>4. TxInv(t)'
    BY <1>0, <1>a, <2>3
    DEF db, TxInv, OpOf, IdleInv, UploadInv, ArticleInv, DeleteInv, Reserved, HoldsArticle, Doomed, Held, At,
        ArticleOps, AllOps
  <2>5. QED BY <2>1, <2>2, <2>4, BeginLocal
<1>2. CASE RenameFileBegin(t)
  <2>1. PICK f \in known :
          Begin(t, "rename", [Idle EXCEPT !.op = "rename", !.pc = "lockFiles", !.start = now,
                             !.file = f, !.todo = {f}])
    BY <1>2 DEF RenameFileBegin
  <2> DEFINE rec == [Idle EXCEPT !.op = "rename", !.pc = "lockFiles", !.start = now,
                             !.file = f, !.todo = {f}]
  <2>2. rec \in TxState
    BY <1>0 DEF TxState, Labels, AllOps
  <2>3. tx'[t] = rec /\ At(t, "idle") /\ UNCHANGED <<db, known, objects, flock, alock>>
    BY <1>0, <2>1 DEF Begin
  <2>4. TxInv(t)'
    BY <1>0, <1>a, <2>3
    DEF db, TxInv, OpOf, IdleInv, UploadInv, ArticleInv, DeleteInv, Reserved, HoldsArticle, Doomed, Held, At,
        ArticleOps, AllOps
  <2>5. QED BY <2>1, <2>2, <2>4, BeginLocal
<1>3. CASE DeleteFileBegin(t)
  <2>1. PICK f \in known :
          Begin(t, "deleteFile", [Idle EXCEPT !.op = "deleteFile", !.pc = "lockFiles", !.start = now,
                             !.file = f, !.todo = {f}])
    BY <1>3 DEF DeleteFileBegin
  <2> DEFINE rec == [Idle EXCEPT !.op = "deleteFile", !.pc = "lockFiles", !.start = now,
                             !.file = f, !.todo = {f}]
  <2>2. rec \in TxState
    BY <1>0 DEF TxState, Labels, AllOps
  <2>3. tx'[t] = rec /\ At(t, "idle") /\ UNCHANGED <<db, known, objects, flock, alock>>
    BY <1>0, <2>1 DEF Begin
  <2>4. TxInv(t)'
    BY <1>0, <1>a, <2>3
    DEF db, TxInv, OpOf, IdleInv, UploadInv, ArticleInv, DeleteInv, Reserved, HoldsArticle, Doomed, Held, At,
        ArticleOps, AllOps
  <2>5. QED BY <2>1, <2>2, <2>4, BeginLocal
<1>4. CASE CreateArticleBegin(t)
  <2>1. PICK a \in Articles, want \in SUBSET known :
          Begin(t, "create", [Idle EXCEPT !.op = "create", !.pc = "validate", !.start = now,
                             !.art = a, !.want = want])
    BY <1>4 DEF CreateArticleBegin
  <2> DEFINE rec == [Idle EXCEPT !.op = "create", !.pc = "validate", !.start = now,
                             !.art = a, !.want = want]
  <2>2. rec \in TxState
    BY <1>0 DEF TxState, Labels, AllOps
  <2>3. tx'[t] = rec /\ At(t, "idle") /\ UNCHANGED <<db, known, objects, flock, alock>>
    BY <1>0, <2>1 DEF Begin
  <2>4. TxInv(t)'
    BY <1>0, <1>a, <2>3
    DEF db, TxInv, OpOf, IdleInv, UploadInv, ArticleInv, DeleteInv, Reserved, HoldsArticle, Doomed, Held, At,
        ArticleOps, AllOps
  <2>5. QED BY <2>1, <2>2, <2>4, BeginLocal
<1>5. CASE UpdateArticleBegin(t)
  <2>1. PICK a \in Articles, want \in SUBSET known :
          Begin(t, "update", [Idle EXCEPT !.op = "update", !.pc = "lockArticle", !.start = now,
                             !.art = a, !.want = want])
    BY <1>5 DEF UpdateArticleBegin
  <2> DEFINE rec == [Idle EXCEPT !.op = "update", !.pc = "lockArticle", !.start = now,
                             !.art = a, !.want = want]
  <2>2. rec \in TxState
    BY <1>0 DEF TxState, Labels, AllOps
  <2>3. tx'[t] = rec /\ At(t, "idle") /\ UNCHANGED <<db, known, objects, flock, alock>>
    BY <1>0, <2>1 DEF Begin
  <2>4. TxInv(t)'
    BY <1>0, <1>a, <2>3
    DEF db, TxInv, OpOf, IdleInv, UploadInv, ArticleInv, DeleteInv, Reserved, HoldsArticle, Doomed, Held, At,
        ArticleOps, AllOps
  <2>5. QED BY <2>1, <2>2, <2>4, BeginLocal
<1>6. CASE DeleteArticleBegin(t)
  <2>1. PICK a \in Articles :
          Begin(t, "deleteArticle", [Idle EXCEPT !.op = "deleteArticle", !.pc = "lockArticle", !.start = now,
                             !.art = a])
    BY <1>6 DEF DeleteArticleBegin
  <2> DEFINE rec == [Idle EXCEPT !.op = "deleteArticle", !.pc = "lockArticle", !.start = now,
                             !.art = a]
  <2>2. rec \in TxState
    BY <1>0 DEF TxState, Labels, AllOps
  <2>3. tx'[t] = rec /\ At(t, "idle") /\ UNCHANGED <<db, known, objects, flock, alock>>
    BY <1>0, <2>1 DEF Begin
  <2>4. TxInv(t)'
    BY <1>0, <1>a, <2>3
    DEF db, TxInv, OpOf, IdleInv, UploadInv, ArticleInv, DeleteInv, Reserved, HoldsArticle, Doomed, Held, At,
        ArticleOps, AllOps
  <2>5. QED BY <2>1, <2>2, <2>4, BeginLocal
<1>7. CASE PruneBegin(t)
  <2>1. Begin(t, "prune", [Idle EXCEPT !.op = "prune", !.pc = "scan", !.start = now,
                             !.todo = {f \in rows : Expired(f, now) /\ ~InUse(f)}])
    BY <1>7 DEF PruneBegin
  <2> DEFINE rec == [Idle EXCEPT !.op = "prune", !.pc = "scan", !.start = now,
                             !.todo = {f \in rows : Expired(f, now) /\ ~InUse(f)}]
  <2>2. rec \in TxState
    BY <1>0 DEF TxState, Labels, AllOps
  <2>3. tx'[t] = rec /\ At(t, "idle") /\ UNCHANGED <<db, known, objects, flock, alock>>
    BY <1>0, <2>1 DEF Begin
  <2>4. TxInv(t)'
    BY <1>0, <1>a, <2>3
    DEF db, TxInv, OpOf, IdleInv, UploadInv, ArticleInv, DeleteInv, Reserved, HoldsArticle, Doomed, Held, At,
        ArticleOps, AllOps
  <2>5. QED BY <2>1, <2>2, <2>4, BeginLocal
<1>8. QED BY <1>1, <1>2, <1>3, <1>4, <1>5, <1>6, <1>7 DEF Request

(* A rollback keeps the inductive invariant: it may leave behind an object
   it stored or lack one it deleted, and then the file is in `broken`. *)
LEMMA RollbackKeeps ==
  ASSUME IInv, NEW t \in Tx, NEW stored, Rollback(t, stored),
         stored \ objects \subseteq tx[t].ins, objects \ stored \subseteq Doomed(t)
  PROVE  IInv'
PROOF
<1>0. /\ tx' = [tx EXCEPT ![t] = Idle] /\ tx'[t] = Idle /\ objects' = stored
      /\ UNCHANGED <<rows, orphaned, articles, uses, known, now>>
      /\ \A u \in Tx \ {t} : tx'[u] = tx[u]
  BY DEF Rollback, Release, db, IInv, Typed
<1>1. tx[t].ins \subseteq Files \ known /\ Doomed(t) \subseteq rows
  <2>1. TxInv(t) /\ tx[t] \in TxState
    BY DEF IInv, Typed
  <2>2. tx[t].ins \subseteq Files \ known
    BY <2>1 DEF TxInv, UploadInv, Reserved, TxState
  <2>3. QED BY <2>1, <2>2 DEF TxInv, DeleteInv
<1>2. Typed'
  <2>1. Idle \in TxState
    BY LifecycleAssumptions DEF Idle, TxState, Labels, AllOps, Times
  <2>2. stored \subseteq Files
    BY <1>1 DEF IInv, Typed
  <2>3. broken' \subseteq Files
    BY <2>2 DEF IInv, Typed, TxState, Rollback
  <2>4. QED BY <1>0, <2>1, <2>2, <2>3 DEF IInv, Typed, Rollback, Release
<1>3. DbInv'
  BY <1>0 DEF IInv, DbInv, MarkerExact, InUse, Rollback, Release
<1>4. ASSUME NEW u \in Tx, u # t
      PROVE  TxInv(u)' /\ (Reserved(u)' <=> Reserved(u))
  <2>1. tx[u].gone \subseteq rows /\ tx[u].gone \cap objects = {}
    BY DEF IInv, TxInv, DeleteInv, Doomed
  <2>2. Reserved(u) => tx[u].file \notin known
    BY DEF IInv, TxInv, UploadInv, Reserved
  <2>3. rows \subseteq known
    BY DEF IInv, DbInv
  <2>4. u # None
    BY LifecycleAssumptions
  <2>5. Undisturbed(u)
    BY <1>0, <1>1, <1>4, <2>1, <2>2, <2>3, <2>4 DEF Undisturbed, Rollback, Release
  <2>6. QED BY <1>0, <1>4, <2>5, OthersKept DEF Reserved, At
<1>5. TxInv(t)'
  BY <1>0, LifecycleAssumptions
  DEF Rollback, Release, TxInv, OpOf, IdleInv, UploadInv, ArticleInv, DeleteInv, Doomed, At, Idle,
      ArticleOps, AllOps
<1>6. DistinctUploads'
  BY <1>0, <1>4 DEF IInv, DistinctUploads, Reserved, Idle
<1>7. StorageParity'
  <2> SUFFICES ASSUME NEW f \in Files \ broken', \A u \in Tx : f \notin tx'[u].ins \cup tx'[u].gone
               PROVE  f \in rows <=> f \in stored
    BY <1>0 DEF StorageParity
  <2>1. \A u \in Tx \ {t} : f \notin tx[u].ins \cup tx[u].gone
    BY <1>0
  <2>2. f \notin tx[t].gone /\ f \notin broken /\ f \notin objects \ stored /\ f \notin tx[t].ins \cap stored
    BY DEF Rollback
  <2>3. CASE f \in tx[t].ins
    BY <1>1, <2>2, <2>3 DEF IInv, DbInv
  <2>4. CASE f \notin tx[t].ins
    BY <2>1, <2>2, <2>4 DEF IInv, StorageParity
  <2>5. QED BY <2>3, <2>4
<1>8. QED BY <1>2, <1>3, <1>4, <1>5, <1>6, <1>7 DEF IInv

(* The same for a step of an article request, which has nothing to do with
   uploads and deletions: only ArticleInv has to be shown. *)
LEMMA ArticleLocal ==
  ASSUME IInv, NEW t \in Tx, NEW y \in TxState, tx' = [tx EXCEPT ![t] = y], LocksGrow(t),
         UNCHANGED <<rows, orphaned, articles, uses, objects, known, now, broken>>,
         y.op \in ArticleOps, y.op = tx[t].op, y.op \in OpOf(y.pc),
         y.ins = tx[t].ins, y.del = tx[t].del, y.gone = tx[t].gone,
         ArticleInv(t)'
  PROVE  IInv'
PROOF
<1>1. tx'[t] = y /\ TxInv(t)
  BY DEF IInv, Typed
<1>2. y.pc \notin {"idle", "s3delete", "rowDelete", "prune"}
  BY DEF OpOf, ArticleOps
<1>3. y.ins = {} /\ y.gone = {} /\ y.del = {}
  BY <1>1 DEF TxInv, UploadInv, DeleteInv, ArticleOps
<1>4. TxInv(t)'
  BY <1>1, <1>2, <1>3 DEF TxInv, IdleInv, UploadInv, DeleteInv, Doomed, ArticleOps, At
<1>5. Local(t)
  BY <1>1 DEF Local, Reserved, ArticleOps
<1>6. QED BY <1>4, <1>5, LocalStep

(* The steps of an article request up to its commit keep the inductive invariant. *)
LEMMA ArticleStepKeeps ==
  ASSUME IInv, NEW t \in Tx, 
         \/ LockArticle(t) \/ ArticleNotFound(t) \/ EnsureFilesAllowed(t)
         \/ InsertArticle(t) \/ UpdateArticleRow(t) \/ DeleteArticleRow(t) \/ SyncFileUsages(t)
  PROVE  IInv'
PROOF
<1> DEFINE x == tx[t]
<1>a. /\ TxInv(t) /\ x \in TxState /\ tx \in [Tx -> TxState] /\ DbInv
      /\ rows \subseteq Files /\ known \subseteq Files /\ now \in Times /\ t # None
      /\ flock \in [Files -> Tx \cup {None}] /\ alock \in [Articles -> Tx \cup {None}]
  BY LifecycleAssumptions DEF IInv, Typed
<1>b. Rollback(t, objects) => IInv'
  BY RollbackKeeps
<1>1. CASE LockArticle(t)
  <2> DEFINE y == [x EXCEPT !.old = uses[x.art],
                             !.todo = IF x.op = "deleteArticle" THEN uses[x.art] ELSE {},
                             !.pc = IF x.op = "deleteArticle" THEN "lockFiles" ELSE "validate"]
  <2>0. x.art \in Articles /\ uses[x.art] \subseteq rows
    BY <1>1, <1>a DEF LockArticle, DbInv, TxInv, ArticleInv, OpOf, ArticleOps, At
  <2>1. /\ x.pc = "lockArticle" /\ x.art \in articles /\ alock[x.art] = None
        /\ UNCHANGED <<rows, orphaned, articles, uses, objects, known, now, broken>>
        /\ flock' = flock /\ alock' = [alock EXCEPT ![x.art] = t]
        /\ tx' = [tx EXCEPT ![t] = y]
    BY <1>1, <1>a, <2>0 DEF LockArticle, At, db, TxState
  <2>2. y \in TxState /\ y.op \in ArticleOps /\ y.op = x.op /\ y.op \in OpOf(y.pc) /\ tx'[t] = y
    <3>1. x.op \in {"update", "deleteArticle"}
      BY <1>a, <2>1 DEF TxInv, OpOf
    <3>2. PICK z, pc, todo : /\ z = x
                             /\ todo = IF x.op = "deleteArticle" THEN uses[x.art] ELSE {}
                             /\ pc = IF x.op = "deleteArticle" THEN "lockFiles" ELSE "validate"
      OBVIOUS
    <3>a. z \in TxState /\ pc \in Labels /\ todo \in SUBSET Files /\ uses[x.art] \in SUBSET Files
      BY <1>a, <2>0, <3>2 DEF Labels
    <3>3. PICK w, old : w = y /\ old = uses[x.art] /\ w = [z EXCEPT !.old = old, !.todo = todo, !.pc = pc]
      BY <3>2
    <3>c. old \in SUBSET Files /\ w = [z EXCEPT !.old = old, !.todo = todo, !.pc = pc]
      BY <3>a, <3>3
    <3>4. w \in TxState /\ w.op = z.op /\ w.pc = pc
      <4>1. z \in TxState /\ pc \in Labels /\ todo \in SUBSET Files
        BY <3>a
      <4> HIDE DEF x, y
      <4>2. w \in TxState
        BY <3>c, <4>1 DEF TxState
      <4>3. w.op = z.op /\ w.pc = pc
        BY <3>c, <4>1 DEF TxState
      <4> QED BY <4>2, <4>3
    <3>5. w.op \in ArticleOps /\ w.op \in OpOf(w.pc)
      BY <3>1, <3>2, <3>4 DEF OpOf, ArticleOps
    <3>6. tx'[t] = w
      BY <1>a, <2>1, <3>3
    <3>7. QED BY <3>2, <3>3, <3>4, <3>5, <3>6
  <2>3. LocksGrow(t)
    BY <1>a, <2>1, <2>0 DEF LocksGrow
  <2>4. ArticleInv(t)'
    <3>1. x.op \in {"update", "deleteArticle"}
      BY <1>a, <2>1 DEF TxInv, OpOf
    <3>2. PICK v, z, pc, todo :
            /\ v = x /\ z = y
            /\ todo = IF v.op = "deleteArticle" THEN uses[v.art] ELSE {}
            /\ pc = IF v.op = "deleteArticle" THEN "lockFiles" ELSE "validate"
      OBVIOUS
    <3>3. v \in TxState /\ z = [v EXCEPT !.old = uses[v.art], !.todo = todo, !.pc = pc]
      BY <1>a, <3>2
    <3>4. /\ z.op = v.op /\ z.art = v.art /\ z.want = v.want /\ z.old = uses[v.art]
          /\ z.attach = v.attach /\ z.orphan = v.orphan /\ z.pc = pc /\ z.todo = todo
      BY <3>3 DEF TxState
    <3>5. tx'[t] = z /\ alock'[v.art] = t /\ uses' = uses /\ articles' = articles /\ known' = known
          /\ rows' = rows /\ v.art \in articles /\ v.art \in Articles
      BY <1>a, <2>0, <2>1, <2>2, <3>2
    <3>6. uses[v.art] \subseteq known
      BY <1>a, <2>0, <3>2 DEF DbInv
    <3>7. /\ v.op \in {"update", "deleteArticle"} /\ v.want \subseteq known
          /\ v.attach = {} /\ v.orphan = {} /\ (v.op = "deleteArticle" => v.want = {})
      BY <1>a, <2>1, <3>1, <3>2 DEF TxInv, ArticleInv, At, ArticleOps
    <3>8. CASE v.op = "update"
      BY <3>2, <3>4, <3>5, <3>6, <3>7, <3>8 DEF ArticleInv, HoldsArticle, At
    <3>9. CASE v.op = "deleteArticle"
      BY <3>2, <3>4, <3>5, <3>6, <3>7, <3>9 DEF ArticleInv, HoldsArticle, At
    <3> QED BY <3>7, <3>8, <3>9
  <2>5. y.ins = x.ins /\ y.del = x.del /\ y.gone = x.gone
    BY <1>a DEF TxState
  <2>6. QED BY <2>1, <2>2, <2>3, <2>4, <2>5, ArticleLocal
<1>2. CASE ArticleNotFound(t)
  BY <1>2, <1>b DEF ArticleNotFound
<1>3. CASE EnsureFilesAllowed(t) /\ x.want \subseteq rows
  <2> DEFINE y == [x EXCEPT !.pc = "lockFiles", !.todo = x.old \cup x.want]
  <2>1. /\ x.pc = "validate"
        /\ UNCHANGED <<rows, orphaned, articles, uses, objects, known, now, broken>>
        /\ flock' = flock /\ alock' = alock
        /\ tx' = [tx EXCEPT ![t] = y]
    BY <1>3, <1>a DEF EnsureFilesAllowed, Private, At, db, TxState
  <2>2. y \in TxState /\ y.op \in ArticleOps /\ y.op = x.op /\ y.op \in OpOf(y.pc) /\ tx'[t] = y
    BY <1>a, <2>1 DEF TxState, Labels, TxInv, OpOf, ArticleOps, AllOps
  <2>3. LocksGrow(t)
    BY <1>a, <2>1 DEF LocksGrow
  <2>4. ArticleInv(t)'
    BY <1>a, <2>1, <2>2 DEF TxInv, ArticleInv, HoldsArticle, At, ArticleOps, OpOf, TxState
  <2>5. y.ins = x.ins /\ y.del = x.del /\ y.gone = x.gone
    BY <1>a DEF TxState
  <2>6. QED BY <2>1, <2>2, <2>3, <2>4, <2>5, ArticleLocal
<1>4. CASE EnsureFilesAllowed(t) /\ ~(x.want \subseteq rows)
  BY <1>4, <1>b DEF EnsureFilesAllowed
<1>5. CASE InsertArticle(t) /\ ~(x.art \in articles \/ ~(x.want \subseteq rows))
  <2> DEFINE y == [x EXCEPT !.pc = "sync"]
  <2>0. x.art \in Articles
    BY <1>5, <1>a DEF InsertArticle, FilesLocked, TxInv, ArticleInv, ArticleOps
  <2>1. /\ x.pc = "lockFiles" /\ x.todo = {} /\ x.op = "create"
        /\ x.art \notin articles /\ x.want \subseteq rows /\ alock[x.art] = None
        /\ UNCHANGED <<rows, orphaned, articles, uses, objects, known, now, broken>>
        /\ flock' = flock /\ alock' = [alock EXCEPT ![x.art] = t]
        /\ tx' = [tx EXCEPT ![t] = y]
    BY <1>5, <1>a, <2>0 DEF InsertArticle, FilesLocked, At, db, TxState
  <2>2. y \in TxState /\ y.op \in ArticleOps /\ y.op = x.op /\ y.op \in OpOf(y.pc) /\ tx'[t] = y
    <3>1. PICK v, z : v = x /\ z = y
      OBVIOUS
    <3>2. v \in TxState /\ v.op = "create" /\ "sync" \in Labels /\ z = [v EXCEPT !.pc = "sync"]
      BY <1>a, <2>1, <3>1 DEF Labels
    <3>3. z \in TxState /\ z.op = v.op /\ z.pc = "sync"
      BY <3>2 DEF TxState
    <3>4. z.op \in OpOf(z.pc) /\ z.op \in ArticleOps
      BY <3>2, <3>3 DEF OpOf, ArticleOps
    <3>5. tx'[t] = z
      BY <1>a, <2>1, <3>1
    <3> QED BY <3>1, <3>3, <3>4, <3>5
  <2>3. LocksGrow(t)
    BY <1>a, <2>1, <2>0 DEF LocksGrow
  <2>4. ArticleInv(t)'
    <3>1. PICK v, z : v = x /\ z = y
      OBVIOUS
    <3>2. v \in TxState /\ z = [v EXCEPT !.pc = "sync"]
      BY <1>a, <3>1
    <3>3. /\ z.op = v.op /\ z.art = v.art /\ z.want = v.want /\ z.old = v.old
          /\ z.attach = v.attach /\ z.orphan = v.orphan /\ z.pc = "sync" /\ z.todo = v.todo
      BY <3>2 DEF TxState
    <3>4. tx'[t] = z /\ alock'[v.art] = t /\ uses' = uses /\ articles' = articles /\ known' = known
          /\ rows' = rows /\ flock' = flock /\ v.art \notin articles /\ v.art \in Articles
      BY <1>a, <2>0, <2>1, <2>2, <3>1
    <3>5. /\ v.op = "create" /\ v.todo = {} /\ v.want \subseteq known /\ v.want \subseteq rows
          /\ v.old = {} /\ v.attach = {} /\ v.orphan = {}
          /\ \A f \in v.want \cap rows : flock[f] = t
      BY <1>a, <2>1, <3>1 DEF TxInv, ArticleInv, At, ArticleOps
    <3>6. uses[v.art] = {}
      BY <1>a, <3>4 DEF DbInv
    <3> QED BY <3>3, <3>4, <3>5, <3>6 DEF ArticleInv, HoldsArticle, At
  <2>5. y.ins = x.ins /\ y.del = x.del /\ y.gone = x.gone
    BY <1>a DEF TxState
  <2>6. QED BY <2>1, <2>2, <2>3, <2>4, <2>5, ArticleLocal
<1>6. CASE InsertArticle(t) /\ (x.art \in articles \/ ~(x.want \subseteq rows))
  BY <1>6, <1>b DEF InsertArticle
<1>7. CASE UpdateArticleRow(t) /\ x.want \subseteq rows
  <2> DEFINE y == [x EXCEPT !.pc = "sync"]
  <2>1. /\ x.pc = "lockFiles" /\ x.todo = {} /\ x.op = "update" /\ x.want \subseteq rows
        /\ UNCHANGED <<rows, orphaned, articles, uses, objects, known, now, broken>>
        /\ flock' = flock /\ alock' = alock
        /\ tx' = [tx EXCEPT ![t] = y]
    BY <1>7, <1>a DEF UpdateArticleRow, FilesLocked, Private, At, db, TxState
  <2>2. y \in TxState /\ y.op \in ArticleOps /\ y.op = x.op /\ y.op \in OpOf(y.pc) /\ tx'[t] = y
    BY <1>a, <2>1 DEF TxState, Labels, TxInv, OpOf, ArticleOps, AllOps
  <2>3. LocksGrow(t)
    BY <1>a, <2>1 DEF LocksGrow
  <2>4. ArticleInv(t)'
    BY <1>a, <2>1, <2>2 DEF TxInv, ArticleInv, HoldsArticle, At, ArticleOps, OpOf, TxState
  <2>5. y.ins = x.ins /\ y.del = x.del /\ y.gone = x.gone
    BY <1>a DEF TxState
  <2>6. QED BY <2>1, <2>2, <2>3, <2>4, <2>5, ArticleLocal
<1>8. CASE UpdateArticleRow(t) /\ ~(x.want \subseteq rows)
  BY <1>8, <1>b DEF UpdateArticleRow
<1>9. CASE DeleteArticleRow(t)
  <2> DEFINE y == [x EXCEPT !.pc = "sync"]
  <2>1. /\ x.pc = "lockFiles" /\ x.todo = {} /\ x.op = "deleteArticle"
        /\ UNCHANGED <<rows, orphaned, articles, uses, objects, known, now, broken>>
        /\ flock' = flock /\ alock' = alock
        /\ tx' = [tx EXCEPT ![t] = y]
    BY <1>9, <1>a DEF DeleteArticleRow, FilesLocked, Private, At, db, TxState
  <2>2. y \in TxState /\ y.op \in ArticleOps /\ y.op = x.op /\ y.op \in OpOf(y.pc) /\ tx'[t] = y
    BY <1>a, <2>1 DEF TxState, Labels, TxInv, OpOf, ArticleOps, AllOps
  <2>3. LocksGrow(t)
    BY <1>a, <2>1 DEF LocksGrow
  <2>4. ArticleInv(t)'
    BY <1>a, <2>1, <2>2 DEF TxInv, ArticleInv, HoldsArticle, At, ArticleOps, OpOf, TxState
  <2>5. y.ins = x.ins /\ y.del = x.del /\ y.gone = x.gone
    BY <1>a DEF TxState
  <2>6. QED BY <2>1, <2>2, <2>3, <2>4, <2>5, ArticleLocal
<1>10. CASE SyncFileUsages(t)
  <2> DEFINE y == [x EXCEPT !.attach = x.want,
                             !.orphan = {f \in x.old \ x.want : UnusedAfter(t, f)},
                             !.pc = "commit"]
  <2>1. /\ x.pc = "sync"
        /\ UNCHANGED <<rows, orphaned, articles, uses, objects, known, now, broken>>
        /\ flock' = flock /\ alock' = alock
        /\ tx' = [tx EXCEPT ![t] = y]
    BY <1>10, <1>a DEF SyncFileUsages, Private, At, db, TxState
  <2>2. y \in TxState /\ y.op \in ArticleOps /\ y.op = x.op /\ y.op \in OpOf(y.pc) /\ tx'[t] = y
    BY <1>a, <2>1 DEF TxState, Labels, TxInv, OpOf, ArticleOps, AllOps
  <2>3. LocksGrow(t)
    BY <1>a, <2>1 DEF LocksGrow
  <2>4. ArticleInv(t)'
    <3>1. ArticleInv(t) /\ x.op \in ArticleOps
      BY <1>a, <2>2 DEF TxInv
    <3>2. y.attach = x.want /\ y.orphan = {f \in x.old \ x.want : UnusedAfter(t, f)}
          /\ y.pc = "commit" /\ y.want = x.want /\ y.old = x.old /\ y.art = x.art /\ y.todo = x.todo
      BY <1>a DEF TxState
    <3>3. \A f : UnusedAfter(t, f)' <=> UnusedAfter(t, f)
      BY <2>1, <2>2, <3>2 DEF UnusedAfter
    <3>4. HoldsArticle(t) <=> HoldsArticle(t)'
      BY <2>1, <2>2, <3>1, <3>2 DEF HoldsArticle, ArticleOps
    <3>5. QED BY <2>1, <2>2, <3>1, <3>2, <3>3, <3>4 DEF ArticleInv, At
  <2>5. y.ins = x.ins /\ y.del = x.del /\ y.gone = x.gone
    BY <1>a DEF TxState
  <2>6. QED BY <2>1, <2>2, <2>3, <2>4, <2>5, ArticleLocal
<1>11. QED BY <1>1, <1>2, <1>3, <1>4, <1>5, <1>6, <1>7, <1>8, <1>9, <1>10

(* The steps that keep only private state and locks, of uploads, renames,
   deletions and cleanup runs, and lock_files, keep the inductive invariant. *)
LEMMA FileStepKeeps ==
  ASSUME IInv, NEW t \in Tx,
         \/ LockNextFile(t) \/ UploadFindDuplicate(t) \/ UploadCreateRow(t) \/ RenameFile(t)
         \/ DeleteFileCheck(t) \/ DeleteRow(t) \/ PruneLockCandidate(t) \/ PruneScanned(t)
         \/ PruneFile(t) \/ PruneDone(t)
  PROVE  IInv'
PROOF
<1> DEFINE x == tx[t]
<1>a. /\ TxInv(t) /\ x \in TxState /\ tx \in [Tx -> TxState] /\ DbInv
      /\ rows \subseteq Files /\ known \subseteq Files /\ now \in Times /\ t # None
      /\ flock \in [Files -> Tx \cup {None}] /\ alock \in [Articles -> Tx \cup {None}]
  BY LifecycleAssumptions DEF IInv, Typed
<1>b. Rollback(t, objects) => IInv'
  BY RollbackKeeps
<1>1. CASE LockNextFile(t)
  <2>0. PICK f \in x.todo :
            /\ f \in rows => flock[f] = None
            /\ flock' = IF f \in rows THEN [flock EXCEPT ![f] = t] ELSE flock
            /\ tx' = [tx EXCEPT ![t].todo = @ \ {f}]
    BY <1>1 DEF LockNextFile
  <2> DEFINE y == [x EXCEPT !.todo = @ \ {f}]
  <2>1. /\ x.pc = "lockFiles" /\ f \in Files
        /\ UNCHANGED <<rows, orphaned, articles, uses, objects, known, now, broken>>  /\ alock' = alock
        /\ tx' = [tx EXCEPT ![t] = y]
    BY <1>1, <1>a, <2>0 DEF LockNextFile, At, db, TxState
  <2>2. y \in TxState /\ tx'[t] = y
    BY <1>a, <2>1, <2>0 DEF TxState, Labels, Held
  <2>3. Local(t)
    BY <1>a, <2>1, <2>2, <2>0 DEF Local, LocksGrow, TxInv, UploadInv, OpOf, ArticleOps, Reserved, At, TxState
  <2>4. TxInv(t)'
    <3>1. (x.op \in OpOf(x.pc))' /\ IdleInv(t)'
      BY <1>a, <2>1, <2>2 DEF TxInv, OpOf, IdleInv, At, ArticleOps, AllOps, TxState
    <3>2. UploadInv(t)'
      BY <1>a, <2>1, <2>2, <2>0 DEF TxInv, OpOf, UploadInv, Reserved, At, ArticleOps, TxState
    <3>3. ArticleInv(t)'
      BY <1>a, <2>1, <2>2, <2>0 DEF TxInv, OpOf, ArticleInv, HoldsArticle, At, ArticleOps, TxState
    <3>4. DeleteInv(t)'
      BY <1>a, <2>1, <2>2, <2>0 DEF TxInv, OpOf, DeleteInv, Doomed, Held, At, ArticleOps, TxState
    <3>5. QED BY <3>1, <3>2, <3>3, <3>4 DEF TxInv
  <2>5. QED BY <2>3, <2>4, LocalStep
<1>2. CASE UploadFindDuplicate(t) /\ \E g \in x.todo : g \notin rows /\ Private(t, [x EXCEPT !.todo = @ \ {g}])
  <2>0. PICK g \in x.todo : Private(t, [x EXCEPT !.todo = @ \ {g}])
    BY <1>2
  <2> DEFINE y == [x EXCEPT !.todo = @ \ {g}]
  <2>1. /\ x.pc = "find"
        /\ UNCHANGED <<rows, orphaned, articles, uses, objects, known, now, broken>>
        /\ flock' = flock /\ alock' = alock
        /\ tx' = [tx EXCEPT ![t] = y]
    BY <1>2, <1>a, <2>0 DEF UploadFindDuplicate, Private, At, db, TxState
  <2>2. y \in TxState /\ tx'[t] = y
    BY <1>a, <2>1, <2>0 DEF TxState, Labels, Held
  <2>r. \A u \in Tx \ {t} : Reserved(u) => tx[u].file # x.file
    BY <1>a, <2>1 DEF IInv, DistinctUploads, Reserved, At, TxInv, OpOf
  <2>3. Local(t)
    BY <1>a, <2>1, <2>2, <2>0, <2>r DEF Local, LocksGrow, TxInv, UploadInv, OpOf, Reserved, At, TxState
  <2>4. TxInv(t)'
    <3>1. (x.op \in OpOf(x.pc))' /\ IdleInv(t)'
      BY <1>a, <2>1, <2>2 DEF TxInv, OpOf, IdleInv, At, ArticleOps, AllOps, TxState
    <3>2. UploadInv(t)'
      BY <1>a, <2>1, <2>2, <2>0 DEF TxInv, OpOf, UploadInv, Reserved, At, ArticleOps, TxState
    <3>3. ArticleInv(t)'
      BY <1>a, <2>1, <2>2, <2>0 DEF TxInv, OpOf, ArticleInv, HoldsArticle, At, ArticleOps, TxState
    <3>4. DeleteInv(t)'
      BY <1>a, <2>1, <2>2, <2>0 DEF TxInv, OpOf, DeleteInv, Doomed, Held, At, ArticleOps, TxState
    <3>5. QED BY <3>1, <3>2, <3>3, <3>4 DEF TxInv
  <2>5. QED BY <2>3, <2>4, LocalStep
<1>3. CASE UploadFindDuplicate(t) /\ ~\E g \in x.todo : g \notin rows /\ Private(t, [x EXCEPT !.todo = @ \ {g}])
  <2>0. PICK f \in x.todo :
            /\ f \in rows /\ flock[f] = None /\ flock' = [flock EXCEPT ![f] = t]
            /\ tx' = [tx EXCEPT ![t].file = f, ![t].pc = "commit",
                                ![t].orphan = IF orphaned[f] # None THEN {f} ELSE {}]
            /\ UNCHANGED <<db, objects, known, alock, now, broken>>
    BY <1>3 DEF UploadFindDuplicate
  <2> DEFINE y == [x EXCEPT !.file = f, !.pc = "commit", !.orphan = IF orphaned[f] # None THEN {f} ELSE {}]
  <2>1. /\ x.pc = "find" /\ f \in Files
        /\ UNCHANGED <<rows, orphaned, articles, uses, objects, known, now, broken>>  /\ alock' = alock
        /\ tx' = [tx EXCEPT ![t] = y]
    <3>1. x.pc = "find" /\ f \in Files
      BY <1>3, <1>a, <2>0 DEF UploadFindDuplicate, At, TxState
    <3>2. UNCHANGED <<rows, orphaned, articles, uses, objects, known, now, broken>> /\ alock' = alock
      BY <2>0 DEF db
    <3>3. tx' = [tx EXCEPT ![t] = y]
      BY <2>0
    <3> QED BY <3>1, <3>2, <3>3
  <2>2. y \in TxState /\ tx'[t] = y
    <3>1. PICK v, w, orphan : /\ v = x /\ w = y /\ orphan = IF orphaned[f] # None THEN {f} ELSE {}
      OBVIOUS
    <3>2. v \in TxState /\ orphan \in SUBSET Files /\ "commit" \in Labels /\ f \in Files
      BY <1>a, <2>1, <3>1 DEF Labels
    <3>3. w = [v EXCEPT !.file = f, !.pc = "commit", !.orphan = orphan]
      BY <3>1
    <3>4. w \in TxState
      BY <3>2, <3>3 DEF TxState
    <3>5. tx'[t] = w
      BY <1>a, <2>1, <3>1
    <3> QED BY <3>1, <3>4, <3>5
  <2>3. Local(t)
    <3>1. LocksGrow(t)
      BY <1>a, <2>0, <2>1 DEF LocksGrow
    <3>2. y.ins = x.ins /\ y.gone = x.gone /\ y.pc = "commit" /\ x.ins = {}
      BY <1>a, <2>1 DEF TxState, TxInv, UploadInv, OpOf, At
    <3>3. ~Reserved(t)'
      BY <2>2, <3>2 DEF Reserved, At
    <3> QED BY <2>1, <2>2, <3>1, <3>2, <3>3 DEF Local
  <2>4. TxInv(t)'
    <3>1. (x.op \in OpOf(x.pc))' /\ IdleInv(t)'
      BY <1>a, <2>1, <2>2 DEF TxInv, OpOf, IdleInv, At, ArticleOps, AllOps, TxState
    <3>2. UploadInv(t)'
      BY <1>a, <2>1, <2>2, <2>0 DEF TxInv, OpOf, UploadInv, Reserved, At, ArticleOps, TxState
    <3>3. ArticleInv(t)'
      BY <1>a, <2>1, <2>2, <2>0 DEF TxInv, OpOf, ArticleInv, HoldsArticle, At, ArticleOps, TxState
    <3>4. DeleteInv(t)'
      BY <1>a, <2>1, <2>2, <2>0 DEF TxInv, OpOf, DeleteInv, Doomed, Held, At, ArticleOps, TxState
    <3>5. QED BY <3>1, <3>2, <3>3, <3>4 DEF TxInv
  <2>5. QED BY <2>3, <2>4, LocalStep
<1>4. CASE UploadCreateRow(t)
  <2>0. x.op = "upload" /\ x.file \in Files /\ x.ins = {} /\ x.file \notin known
    BY <1>4, <1>a DEF UploadCreateRow, TxInv, OpOf, UploadInv, Reserved, At
  <2> DEFINE y == [x EXCEPT !.pc = "put", !.ins = {x.file}, !.orphan = {x.file}]
  <2>1. /\ x.pc = "find"
        /\ UNCHANGED <<rows, orphaned, articles, uses, objects, known, now, broken>>
        /\ flock' = flock /\ alock' = alock
        /\ tx' = [tx EXCEPT ![t] = y]
    BY <1>4, <1>a, <2>0 DEF UploadCreateRow, Private, At, db, TxState
  <2>2. y \in TxState /\ tx'[t] = y
    BY <1>a, <2>1, <2>0 DEF TxState, Labels, Held
  <2>r. \A u \in Tx \ {t} : Reserved(u) => tx[u].file # x.file
    BY <1>a, <2>1 DEF IInv, DistinctUploads, Reserved, At, TxInv, OpOf
  <2>3. Local(t)
    BY <1>a, <2>1, <2>2, <2>0, <2>r DEF Local, LocksGrow, TxInv, UploadInv, OpOf, Reserved, At, TxState
  <2>4. TxInv(t)'
    <3>1. (x.op \in OpOf(x.pc))' /\ IdleInv(t)'
      BY <1>a, <2>1, <2>2 DEF TxInv, OpOf, IdleInv, At, ArticleOps, AllOps, TxState
    <3>2. UploadInv(t)'
      BY <1>a, <2>1, <2>2, <2>0 DEF TxInv, OpOf, UploadInv, Reserved, At, ArticleOps, TxState
    <3>3. ArticleInv(t)'
      BY <1>a, <2>1, <2>2, <2>0 DEF TxInv, OpOf, ArticleInv, HoldsArticle, At, ArticleOps, TxState
    <3>4. DeleteInv(t)'
      BY <1>a, <2>1, <2>2, <2>0 DEF TxInv, OpOf, DeleteInv, Doomed, Held, At, ArticleOps, TxState
    <3>5. QED BY <3>1, <3>2, <3>3, <3>4 DEF TxInv
  <2>5. QED BY <2>3, <2>4, LocalStep
<1>5. CASE RenameFile(t) /\ x.file \notin rows
  BY <1>5, <1>b DEF RenameFile
<1>6. CASE RenameFile(t) /\ x.file \in rows
  <2> DEFINE y == [x EXCEPT !.pc = "commit"]
  <2>1. /\ x.pc = "lockFiles" /\ x.op = "rename"
        /\ UNCHANGED <<rows, orphaned, articles, uses, objects, known, now, broken>>
        /\ flock' = flock /\ alock' = alock
        /\ tx' = [tx EXCEPT ![t] = y]
    BY <1>6, <1>a DEF RenameFile, FilesLocked, Private, At, db, TxState
  <2>2. y \in TxState /\ tx'[t] = y
    BY <1>a, <2>1 DEF TxState, Labels, Held
  <2>3. Local(t)
    BY <1>a, <2>1, <2>2 DEF Local, LocksGrow, TxInv, UploadInv, OpOf, Reserved, At, TxState
  <2>4. TxInv(t)'
    <3>1. (x.op \in OpOf(x.pc))' /\ IdleInv(t)'
      BY <1>a, <2>1, <2>2 DEF TxInv, OpOf, IdleInv, At, ArticleOps, AllOps, TxState
    <3>2. UploadInv(t)'
      BY <1>a, <2>1, <2>2 DEF TxInv, OpOf, UploadInv, Reserved, At, ArticleOps, TxState
    <3>3. ArticleInv(t)'
      BY <1>a, <2>1, <2>2 DEF TxInv, OpOf, ArticleInv, HoldsArticle, At, ArticleOps, TxState
    <3>4. DeleteInv(t)'
      BY <1>a, <2>1, <2>2 DEF TxInv, OpOf, DeleteInv, Doomed, Held, At, ArticleOps, TxState
    <3>5. QED BY <3>1, <3>2, <3>3, <3>4 DEF TxInv
  <2>5. QED BY <2>3, <2>4, LocalStep
<1>7. CASE DeleteFileCheck(t) /\ (InUse(x.file) \/ x.file \notin rows)
  BY <1>7, <1>b DEF DeleteFileCheck
<1>8. CASE DeleteFileCheck(t) /\ ~(InUse(x.file) \/ x.file \notin rows)
  <2>0. x.file \in rows /\ orphaned[x.file] # None
    BY <1>8, <1>a DEF DbInv, MarkerExact
  <2> DEFINE y == [x EXCEPT !.pc = "s3delete"]
  <2>1. /\ x.pc = "lockFiles" /\ x.op = "deleteFile" /\ x.todo = {}
        /\ UNCHANGED <<rows, orphaned, articles, uses, objects, known, now, broken>>
        /\ flock' = flock /\ alock' = alock
        /\ tx' = [tx EXCEPT ![t] = y]
    BY <1>8, <1>a, <2>0 DEF DeleteFileCheck, FilesLocked, Private, At, db, TxState
  <2>2. y \in TxState /\ tx'[t] = y
    BY <1>a, <2>1, <2>0 DEF TxState, Labels, Held
  <2>3. Local(t)
    BY <1>a, <2>1, <2>2, <2>0 DEF Local, LocksGrow, TxInv, UploadInv, OpOf, Reserved, At, TxState
  <2>4. TxInv(t)'
    <3>1. (x.op \in OpOf(x.pc))' /\ IdleInv(t)'
      BY <1>a, <2>1, <2>2 DEF TxInv, OpOf, IdleInv, At, ArticleOps, AllOps, TxState
    <3>2. UploadInv(t)'
      BY <1>a, <2>1, <2>2, <2>0 DEF TxInv, OpOf, UploadInv, Reserved, At, ArticleOps, TxState
    <3>3. ArticleInv(t)'
      BY <1>a, <2>1, <2>2, <2>0 DEF TxInv, OpOf, ArticleInv, HoldsArticle, At, ArticleOps, TxState
    <3>4. DeleteInv(t)'
      BY <1>a, <2>1, <2>2, <2>0 DEF TxInv, OpOf, DeleteInv, Doomed, Held, At, ArticleOps, TxState
    <3>5. QED BY <3>1, <3>2, <3>3, <3>4 DEF TxInv
  <2>5. QED BY <2>3, <2>4, LocalStep
<1>9. CASE DeleteRow(t) /\ InUse(x.file)
  BY <1>9, <1>b DEF DeleteRow
<1>10. CASE DeleteRow(t) /\ ~InUse(x.file)
  <2>0. x.file \in Files /\ x.op \in {"deleteFile", "prune"}
    BY <1>10, <1>a DEF DeleteRow, TxInv, OpOf, DeleteInv, Doomed, At
  <2> DEFINE y == [x EXCEPT !.del = @ \cup {x.file}, !.pc = IF x.op = "prune" THEN "prune" ELSE "commit"]
  <2>1. /\ x.pc = "rowDelete"
        /\ UNCHANGED <<rows, orphaned, articles, uses, objects, known, now, broken>>
        /\ flock' = flock /\ alock' = alock
        /\ tx' = [tx EXCEPT ![t] = y]
    <3>1. x.pc = "rowDelete" /\ Private(t, y)
      BY <1>10 DEF DeleteRow, At
    <3> QED BY <3>1 DEF Private, db
  <2>2. y \in TxState /\ tx'[t] = y
    <3>1. PICK v, z, del, pc : /\ v = x /\ z = y /\ del = x.del \cup {x.file}
                               /\ pc = IF x.op = "prune" THEN "prune" ELSE "commit"
      OBVIOUS
    <3>2. v \in TxState /\ del \in SUBSET Files /\ pc \in Labels /\ z = [v EXCEPT !.del = del, !.pc = pc]
      BY <1>a, <2>0, <3>1 DEF TxState, Labels
    <3>3. z \in TxState
      BY <3>2 DEF TxState
    <3>4. tx'[t] = z
      BY <1>a, <2>1, <3>1
    <3> QED BY <3>1, <3>3, <3>4
  <2>3. Local(t)
    BY <1>a, <2>1, <2>2, <2>0 DEF Local, LocksGrow, TxInv, UploadInv, OpOf, Reserved, At, TxState
  <2>4. TxInv(t)'
    <3>1. (x.op \in OpOf(x.pc))' /\ IdleInv(t)'
      BY <1>a, <2>1, <2>2 DEF TxInv, OpOf, IdleInv, At, ArticleOps, AllOps, TxState
    <3>2. UploadInv(t)'
      BY <1>a, <2>1, <2>2, <2>0 DEF TxInv, OpOf, UploadInv, Reserved, At, ArticleOps, TxState
    <3>3. ArticleInv(t)'
      BY <1>a, <2>1, <2>2, <2>0 DEF TxInv, OpOf, ArticleInv, HoldsArticle, At, ArticleOps, TxState
    <3>4. DeleteInv(t)'
      <4>1. DeleteInv(t) /\ x.file \in x.gone
        BY <1>a, <2>1 DEF TxInv, DeleteInv, At
      <4>2. Held(t)' = Held(t) /\ Doomed(t)' \subseteq Doomed(t)
        BY <1>a, <2>1, <2>2, <2>0 DEF Doomed, Held, TxState
      <4>3. y.todo = x.todo /\ y.pc = "prune" => x.todo \subseteq Held(t)
        BY <1>a, <2>0, <2>1, <4>1 DEF DeleteInv, At, TxState
      <4>4. QED BY <1>a, <2>1, <2>2, <2>0, <4>1, <4>2, <4>3 DEF DeleteInv, At, TxState
    <3>5. QED BY <3>1, <3>2, <3>3, <3>4 DEF TxInv
  <2>5. QED BY <2>3, <2>4, LocalStep
<1>11. CASE PruneLockCandidate(t)
  <2>0. PICK f \in x.todo :
            /\ flock' = IF f \in rows /\ flock[f] = None /\ Expired(f, x.start)
                        THEN [flock EXCEPT ![f] = t] ELSE flock
            /\ tx' = [tx EXCEPT ![t].todo = @ \ {f}]
    BY <1>11 DEF PruneLockCandidate
  <2> DEFINE y == [x EXCEPT !.todo = @ \ {f}]
  <2>1. /\ x.pc = "scan" /\ f \in Files
        /\ UNCHANGED <<rows, orphaned, articles, uses, objects, known, now, broken>>  /\ alock' = alock
        /\ tx' = [tx EXCEPT ![t] = y]
    BY <1>11, <1>a, <2>0 DEF PruneLockCandidate, At, db, TxState
  <2>2. y \in TxState /\ tx'[t] = y
    BY <1>a, <2>1, <2>0 DEF TxState, Labels, Held
  <2>3. Local(t)
    BY <1>a, <2>1, <2>2, <2>0 DEF Local, LocksGrow, TxInv, UploadInv, OpOf, Reserved, At, TxState
  <2>4. TxInv(t)'
    <3>1. (x.op \in OpOf(x.pc))' /\ IdleInv(t)'
      BY <1>a, <2>1, <2>2 DEF TxInv, OpOf, IdleInv, At, ArticleOps, AllOps, TxState
    <3>2. UploadInv(t)'
      BY <1>a, <2>1, <2>2, <2>0 DEF TxInv, OpOf, UploadInv, Reserved, At, ArticleOps, TxState, Expired
    <3>3. ArticleInv(t)'
      BY <1>a, <2>1, <2>2, <2>0 DEF TxInv, OpOf, ArticleInv, HoldsArticle, At, ArticleOps, TxState, Expired
    <3>4. DeleteInv(t)'
      BY <1>a, <2>1, <2>2, <2>0 DEF TxInv, OpOf, DeleteInv, Doomed, Held, At, ArticleOps, TxState, Expired
    <3>5. QED BY <3>1, <3>2, <3>3, <3>4 DEF TxInv
  <2>5. QED BY <2>3, <2>4, LocalStep
<1>12. CASE PruneScanned(t)
  <2> DEFINE y == [x EXCEPT !.pc = "prune", !.todo = Held(t)]
  <2>1. /\ x.pc = "scan"
        /\ UNCHANGED <<rows, orphaned, articles, uses, objects, known, now, broken>>
        /\ flock' = flock /\ alock' = alock
        /\ tx' = [tx EXCEPT ![t] = y]
    BY <1>12, <1>a DEF PruneScanned, Private, At, db, TxState
  <2>2. y \in TxState /\ tx'[t] = y
    BY <1>a, <2>1 DEF TxState, Labels, Held
  <2>3. Local(t)
    BY <1>a, <2>1, <2>2 DEF Local, LocksGrow, TxInv, UploadInv, OpOf, Reserved, At, TxState
  <2>4. TxInv(t)'
    <3>1. (x.op \in OpOf(x.pc))' /\ IdleInv(t)'
      BY <1>a, <2>1, <2>2 DEF TxInv, OpOf, IdleInv, At, ArticleOps, AllOps, TxState
    <3>2. UploadInv(t)'
      BY <1>a, <2>1, <2>2 DEF TxInv, OpOf, UploadInv, Reserved, At, ArticleOps, TxState
    <3>3. ArticleInv(t)'
      BY <1>a, <2>1, <2>2 DEF TxInv, OpOf, ArticleInv, HoldsArticle, At, ArticleOps, TxState
    <3>4. DeleteInv(t)'
      <4>1. PICK v, z : v = x /\ z = y
        OBVIOUS
      <4>2. v \in TxState /\ z = [v EXCEPT !.pc = "prune", !.todo = Held(t)]
        BY <1>a, <4>1
      <4>3. /\ z.op = v.op /\ z.gone = v.gone /\ z.del = v.del /\ z.attach = v.attach
            /\ z.orphan = v.orphan /\ z.pc = "prune" /\ z.todo = Held(t)
        BY <4>2 DEF TxState
      <4>4. tx[t] = v /\ tx'[t] = z /\ v.op = "prune" /\ v.pc = "scan"
        BY <1>a, <2>1, <2>2, <4>1 DEF TxInv, OpOf
      <4>5. Held(t)' = Held(t)
        BY <2>1 DEF Held
      <4>6. Doomed(t)' = Doomed(t)
        BY <4>3, <4>4, <4>5 DEF Doomed
      <4>7. DeleteInv(t)
        BY <1>a DEF TxInv
      <4> QED BY <2>1, <4>3, <4>4, <4>5, <4>6, <4>7 DEF DeleteInv, At
    <3>5. QED BY <3>1, <3>2, <3>3, <3>4 DEF TxInv
  <2>5. QED BY <2>3, <2>4, LocalStep
<1>13. CASE PruneFile(t)
  <2>00. PICK f \in x.todo :
            Private(t, IF InUse(f)
                       THEN [x EXCEPT !.todo = @ \ {f}, !.attach = @ \cup {f}]
                       ELSE [x EXCEPT !.todo = @ \ {f}, !.file = f, !.pc = "s3delete"])
    BY <1>13 DEF PruneFile
  <2>0. ~InUse(f) /\ f \in Held(t) /\ f \in Files /\ x.op = "prune"
    BY <1>13, <1>a DEF PruneFile, At, TxInv, OpOf, DeleteInv, Doomed, Held, DbInv, MarkerExact
  <2> DEFINE y == [x EXCEPT !.todo = @ \ {f}, !.file = f, !.pc = "s3delete"]
  <2>1. /\ x.pc = "prune"
        /\ UNCHANGED <<rows, orphaned, articles, uses, objects, known, now, broken>>
        /\ flock' = flock /\ alock' = alock
        /\ tx' = [tx EXCEPT ![t] = y]
    BY <1>13, <1>a, <2>0, <2>00 DEF PruneFile, Private, At, db, TxState
  <2>2. y \in TxState /\ tx'[t] = y
    BY <1>a, <2>1, <2>0, <2>00 DEF TxState, Labels, Held
  <2>3. Local(t)
    BY <1>a, <2>1, <2>2, <2>0, <2>00 DEF Local, LocksGrow, TxInv, UploadInv, OpOf, Reserved, At, TxState
  <2>4. TxInv(t)'
    <3>1. (x.op \in OpOf(x.pc))' /\ IdleInv(t)'
      BY <1>a, <2>1, <2>2 DEF TxInv, OpOf, IdleInv, At, ArticleOps, AllOps, TxState
    <3>2. UploadInv(t)'
      BY <1>a, <2>1, <2>2, <2>0, <2>00 DEF TxInv, OpOf, UploadInv, Reserved, At, ArticleOps, TxState
    <3>3. ArticleInv(t)'
      BY <1>a, <2>1, <2>2, <2>0, <2>00 DEF TxInv, OpOf, ArticleInv, HoldsArticle, At, ArticleOps, TxState
    <3>4. DeleteInv(t)'
      BY <1>a, <2>1, <2>2, <2>0, <2>00 DEF TxInv, OpOf, DeleteInv, Doomed, Held, At, ArticleOps, TxState
    <3>5. QED BY <3>1, <3>2, <3>3, <3>4 DEF TxInv
  <2>5. QED BY <2>3, <2>4, LocalStep
<1>14. CASE PruneDone(t)
  <2> DEFINE y == [x EXCEPT !.pc = "commit"]
  <2>1. /\ x.pc = "prune"
        /\ UNCHANGED <<rows, orphaned, articles, uses, objects, known, now, broken>>
        /\ flock' = flock /\ alock' = alock
        /\ tx' = [tx EXCEPT ![t] = y]
    BY <1>14, <1>a DEF PruneDone, Private, At, db, TxState
  <2>2. y \in TxState /\ tx'[t] = y
    BY <1>a, <2>1 DEF TxState, Labels, Held
  <2>3. Local(t)
    BY <1>a, <2>1, <2>2 DEF Local, LocksGrow, TxInv, UploadInv, OpOf, Reserved, At, TxState
  <2>4. TxInv(t)'
    <3>1. (x.op \in OpOf(x.pc))' /\ IdleInv(t)'
      BY <1>a, <2>1, <2>2 DEF TxInv, OpOf, IdleInv, At, ArticleOps, AllOps, TxState
    <3>2. UploadInv(t)'
      BY <1>a, <2>1, <2>2 DEF TxInv, OpOf, UploadInv, Reserved, At, ArticleOps, TxState
    <3>3. ArticleInv(t)'
      BY <1>a, <2>1, <2>2 DEF TxInv, OpOf, ArticleInv, HoldsArticle, At, ArticleOps, TxState
    <3>4. DeleteInv(t)'
      BY <1>a, <2>1, <2>2 DEF TxInv, OpOf, DeleteInv, Doomed, Held, At, ArticleOps, TxState
    <3>5. QED BY <3>1, <3>2, <3>3, <3>4 DEF TxInv
  <2>5. QED BY <2>3, <2>4, LocalStep
<1>15. QED BY <1>1, <1>2, <1>3, <1>4, <1>5, <1>6, <1>7, <1>8, <1>9, <1>10, <1>11, <1>12, <1>13, <1>14

(* The S3 calls keep the inductive invariant. *)
LEMMA ObjectStepKeeps ==
  ASSUME IInv, NEW t \in Tx,
         UploadPutObject(t) \/ UploadPutFails(t) \/ DeleteObject(t) \/ DeleteObjectFails(t)
  PROVE  IInv'
PROOF
<1> DEFINE x == tx[t]
<1>a. /\ TxInv(t) /\ x \in TxState /\ tx \in [Tx -> TxState] /\ DbInv /\ objects \subseteq Files
      /\ flock \in [Files -> Tx \cup {None}] /\ alock \in [Articles -> Tx \cup {None}]
  BY DEF IInv, Typed
<1>1. CASE UploadPutObject(t)
  <2> DEFINE y == [x EXCEPT !.pc = "commit"]
  <2>0. x.op = "upload" /\ x.file \in Files /\ x.ins = {x.file} /\ x.file \notin known
    BY <1>1, <1>a DEF UploadPutObject, TxInv, OpOf, UploadInv, Reserved, At
  <2>1. /\ x.pc = "put" /\ UNCHANGED <<rows, orphaned, articles, uses, known, now, broken, flock, alock>>
        /\ objects' = objects \cup {x.file} /\ tx' = [tx EXCEPT ![t] = y]
    BY <1>1, <1>a DEF UploadPutObject, At, db, TxState
  <2>2. y \in TxState /\ tx'[t] = y
    BY <1>a, <2>1 DEF TxState, Labels
  <2>3. \A u \in Tx \ {t} : Reserved(u) => tx[u].file # x.file
    BY <2>0, <2>1 DEF IInv, DistinctUploads, Reserved, At
  <2>4. Local(t)
    BY <1>a, <2>0, <2>1, <2>2, <2>3 DEF Local, LocksGrow, Reserved, TxState
  <2>5. UploadInv(t)'
    <3>1. PICK v, z : v = x /\ z = y
      OBVIOUS
    <3>2. v \in TxState /\ z = [v EXCEPT !.pc = "commit"]
      BY <1>a, <3>1
    <3>3. /\ z.op = v.op /\ z.ins = v.ins /\ z.file = v.file /\ z.pc = "commit"
          /\ z.orphan = v.orphan /\ z.attach = v.attach
      BY <3>2 DEF TxState
    <3>4. /\ v.op = "upload" /\ v.ins = {v.file} /\ v.file \in Files /\ v.file \notin known
          /\ v.orphan = {v.file} /\ v.attach = {}
      BY <1>a, <2>0, <3>1 DEF TxInv, UploadInv
    <3>5. tx'[t] = z /\ known' = known /\ v.file \in objects'
      BY <2>1, <2>2, <3>1
    <3> QED BY <3>3, <3>4, <3>5 DEF UploadInv, At
  <2>6. DeleteInv(t)'
    BY <1>a, <2>0, <2>1, <2>2 DEF TxInv, DeleteInv, Doomed, At, TxState
  <2>7. TxInv(t)'
    BY <1>a, <2>0, <2>1, <2>2, <2>5, <2>6 DEF TxInv, OpOf, IdleInv, ArticleInv, ArticleOps, AllOps, At, TxState
  <2>8. QED BY <2>4, <2>7, LocalStep
<1>2. CASE UploadPutFails(t)
  <2>0. x.op = "upload" /\ x.ins = {x.file}
    BY <1>2, <1>a DEF UploadPutFails, TxInv, OpOf, UploadInv, At
  <2>1. PICK stored \in {objects, objects \cup {x.file}} : Rollback(t, stored)
    BY <1>2 DEF UploadPutFails
  <2>2. QED BY <2>0, <2>1, RollbackKeeps
<1>3. ASSUME NEW lost \in SUBSET {x.file}, NEW pc \in {"prune", "rowDelete"}, x.pc = "s3delete",
             pc = "prune" => x.op = "prune", pc = "rowDelete" => lost = {x.file},
             UNCHANGED <<rows, orphaned, articles, uses, known, now, broken, flock, alock>>,
             objects' = objects \ lost,
             tx' = [tx EXCEPT ![t].gone = @ \cup lost, ![t].pc = pc]
      PROVE  IInv'
  <2> DEFINE y == [x EXCEPT !.gone = @ \cup lost, !.pc = pc]
  <2>0. x.op \in {"deleteFile", "prune"} /\ x.file \in rows /\ x.file \in Files
    BY <1>3, <1>a DEF TxInv, OpOf, DeleteInv, Doomed, IInv, Typed
  <2>1. y \in TxState /\ tx'[t] = y /\ tx' = [tx EXCEPT ![t] = y]
    BY <1>3, <1>a, <2>0 DEF TxState, Labels
  <2>2. Local(t)
    <3>1. y.gone = x.gone \cup lost /\ y.ins = x.ins /\ y.op = x.op
      BY <1>a DEF TxState
    <3>2. lost \subseteq rows /\ ~Reserved(t)'
      BY <2>0, <2>1, <3>1 DEF Reserved
    <3>3. objects' \ objects = {} /\ objects \ objects' \subseteq lost
      BY <1>3
    <3>4. LocksGrow(t)
      BY <1>3, <1>a DEF LocksGrow
    <3>5. QED BY <1>3, <2>1, <3>1, <3>2, <3>3, <3>4 DEF Local
  <2>3. DeleteInv(t)'
    <3>1. DeleteInv(t) /\ x.file \in Doomed(t)
      BY <1>3, <1>a DEF TxInv, Doomed
    <3>2. Held(t)' = Held(t) /\ Doomed(t)' \subseteq Doomed(t)
      BY <1>3, <1>a, <2>0, <2>1 DEF Doomed, Held, TxState
    <3>3. y.todo = x.todo /\ y.op = x.op /\ y.pc = pc /\ y.file = x.file /\ y.del = x.del
          /\ y.attach = x.attach /\ y.orphan = x.orphan /\ y.gone = x.gone \cup lost
      BY <1>3, <1>a DEF TxState
    <3>4. PICK v, z : v = x /\ z = y
      OBVIOUS
    <3>5. tx[t] = v /\ tx'[t] = z
      BY <2>1, <3>4
    <3>6. \A g \in Doomed(t)' : g \in rows' /\ flock'[g] = t /\ orphaned'[g] # None
      BY <1>3, <3>1, <3>2 DEF DeleteInv
    <3>7. z.gone \cap objects' = {} /\ z.del \subseteq z.gone
      BY <1>3, <3>1, <3>3, <3>4, <3>5 DEF DeleteInv
    <3>8. z.pc = "rowDelete" => z.file \in z.gone
      BY <1>3, <3>3, <3>4
    <3>9. v.op = "prune" /\ z.pc # "scan" => z.todo \subseteq Held(t)'
      BY <1>3, <3>1, <3>2, <3>3, <3>4, <3>5 DEF DeleteInv, At
    <3>10. /\ z.op = "deleteFile" \/ z.op = "prune"
           /\ z.attach = {} /\ z.orphan = {} /\ (z.op \in {"rename", "deleteFile"} => z.file \in known')
      BY <1>3, <2>0, <3>1, <3>3, <3>4, <3>5 DEF DeleteInv
    <3>11. z.pc # "lockFiles" /\ z.op = v.op
      BY <1>3, <3>3, <3>4
    <3>12. QED BY <3>5, <3>6, <3>7, <3>8, <3>9, <3>10, <3>11 DEF DeleteInv, At
  <2>4. TxInv(t)'
    BY <1>3, <1>a, <2>0, <2>1, <2>3 DEF TxInv, OpOf, IdleInv, UploadInv, ArticleInv, ArticleOps, At, TxState
  <2>5. QED BY <2>2, <2>4, LocalStep
<1>4. CASE DeleteObject(t)
  <2>1. /\ x.pc = "s3delete" /\ objects' = objects \ {x.file}
        /\ tx' = [tx EXCEPT ![t].gone = @ \cup {x.file}, ![t].pc = "rowDelete"]
        /\ UNCHANGED <<rows, orphaned, articles, uses, known, now, broken, flock, alock>>
    BY <1>4 DEF DeleteObject, At, db
  <2>2. QED BY <1>3, <2>1
<1>5. CASE DeleteObjectFails(t)
  <2>1. PICK lost \in SUBSET {x.file} :
          \/ /\ x.op = "prune" /\ objects' = objects \ lost
             /\ tx' = [tx EXCEPT ![t].gone = @ \cup lost, ![t].pc = "prune"]
             /\ UNCHANGED <<db, known, flock, alock, now, broken>>
          \/ Rollback(t, objects \ lost)
    BY <1>5 DEF DeleteObjectFails
  <2>2. x.pc = "s3delete" /\ x.file \in Doomed(t)
    BY <1>5 DEF DeleteObjectFails, At, Doomed
  <2>3. CASE Rollback(t, objects \ lost)
    BY <2>2, <2>3, RollbackKeeps
  <2>4. CASE ~Rollback(t, objects \ lost)
    BY <1>3, <2>1, <2>2, <2>4 DEF db
  <2>5. QED BY <2>3, <2>4
<1>6. QED BY <1>1, <1>2, <1>4, <1>5

(* What a commit does to the database is one step of FileRegistry. *)
LEMMA CommitIsRegistryStep ==
  ASSUME IInv, NEW t \in Tx, Commit(t)
  PROVE  Registry!Next \/ UNCHANGED db
PROOF
<1> DEFINE x == tx[t]
<1>a. /\ TxInv(t) /\ x \in TxState /\ x.pc = "commit" /\ x.start \in Times /\ x.op \in AllOps
      /\ DbInv /\ orphaned \in [Files -> Times \cup {None}] /\ uses \in [Articles -> SUBSET Files]
      /\ rows \subseteq Files /\ articles \subseteq Articles
  BY DEF IInv, Typed, Commit, Marker, At, TxState, TxInv, OpOf
<1>b. /\ rows' = (rows \cup x.ins) \ x.del
      /\ orphaned' = [f \in Files |-> IF f \in x.attach THEN None
                                      ELSE IF f \in x.orphan THEN x.start ELSE orphaned[f]]
      /\ articles' = CASE x.op \in {"create", "update"} -> articles \cup {x.art}
                       [] x.op = "deleteArticle" -> articles \ {x.art}
                       [] OTHER -> articles
      /\ uses' = IF x.op \in ArticleOps THEN [uses EXCEPT ![x.art] = x.want] ELSE uses
  BY DEF Commit, Marker
<1>1. CASE x.op = "upload"
  <2>0. x.attach = {} /\ x.del = {} /\ x.file \in Files
    BY <1>1, <1>a DEF TxInv, UploadInv, DeleteInv
  <2>1. articles' = articles /\ uses' = uses
    BY <1>1, <1>b DEF ArticleOps
  <2>2. CASE x.ins # {}
    <3>1. x.ins = {x.file} /\ x.orphan = {x.file} /\ x.file \notin rows
      BY <1>1, <1>a, <2>2 DEF TxInv, UploadInv, Reserved, DbInv
    <3>2. Registry!Register(x.file, x.start)
      BY <1>a, <1>b, <2>0, <2>1, <3>1 DEF Registry!Register
    <3>3. QED BY <1>a, <2>0, <3>2 DEF Registry!Next
  <2>3. CASE x.ins = {} /\ x.orphan # {}
    <3>1. x.orphan = {x.file} /\ x.file \in rows /\ ~InUse(x.file)
      BY <1>1, <1>a, <2>3 DEF TxInv, UploadInv, DbInv, MarkerExact, At
    <3>2. Registry!Refresh(x.file, x.start)
      BY <1>a, <1>b, <2>0, <2>1, <2>3, <3>1 DEF Registry!Refresh, Registry!InUse, InUse
    <3>3. QED BY <1>a, <2>0, <3>2 DEF Registry!Next
  <2>4. CASE x.ins = {} /\ x.orphan = {}
    BY <1>a, <1>b, <2>0, <2>1, <2>4 DEF db
  <2>5. QED BY <2>2, <2>3, <2>4
<1>2. CASE x.op \in {"rename", "deleteFile", "prune"}
  <2>1. x.attach = {} /\ x.orphan = {} /\ x.ins = {}
    BY <1>2, <1>a DEF TxInv, UploadInv, DeleteInv
  <2>2. UNCHANGED <<orphaned, articles, uses>> /\ rows' = rows \ x.del
    BY <1>2, <1>a, <1>b, <2>1 DEF ArticleOps
  <2>3. x.del \subseteq rows /\ (\A f \in x.del : ~InUse(f)) /\ x.del \in SUBSET Files
    BY <1>a DEF TxInv, DeleteInv, Doomed, DbInv, MarkerExact, TxState
  <2>4. Registry!RemoveFiles(x.del)
    BY <2>2, <2>3 DEF Registry!RemoveFiles, Registry!InUse, InUse
  <2>5. QED BY <2>3, <2>4 DEF Registry!Next
<1>3. CASE x.op \in ArticleOps
  <2>1. /\ x.ins = {} /\ x.del = {} /\ x.art \in Articles /\ x.attach = x.want /\ x.want \subseteq rows
        /\ x.orphan = {f \in x.old \ x.want : UnusedAfter(t, f)} /\ x.old = uses[x.art]
        /\ x.art \in articles <=> x.op # "create"
        /\ x.op = "deleteArticle" => x.want = {}
    BY <1>3, <1>a DEF TxInv, UploadInv, ArticleInv, DeleteInv, HoldsArticle, At, ArticleOps
  <2>2. rows' = rows /\ uses' = [uses EXCEPT ![x.art] = x.want]
    BY <1>3, <1>b, <2>1
  <2>3. orphaned' = [f \in Files |->
                       IF f \in x.want THEN None
                       ELSE IF f \in uses[x.art] /\ \A b \in Articles \ {x.art} : f \notin uses[b]
                            THEN x.start ELSE orphaned[f]]
    BY <1>b, <2>1 DEF UnusedAfter
  <2>4. CASE x.op # "deleteArticle"
    <3>1. articles' = articles \cup {x.art}
      BY <1>3, <1>b, <2>4 DEF ArticleOps
    <3>2. Registry!SaveArticle(x.art, x.want, x.start)
      BY <2>1, <2>2, <2>3, <3>1 DEF Registry!SaveArticle
    <3>3. QED BY <1>a, <2>1, <3>2 DEF Registry!Next, TxState
  <2>5. CASE x.op = "deleteArticle"
    <3>1. articles' = articles \ {x.art} /\ x.want = {} /\ x.art \in articles
      BY <1>b, <2>1, <2>5
    <3>2. Registry!RemoveArticle(x.art, x.start)
      BY <2>1, <2>2, <2>3, <3>1 DEF Registry!RemoveArticle
    <3>3. QED BY <1>a, <2>1, <3>2 DEF Registry!Next
  <2>6. QED BY <2>4, <2>5
<1>4. QED BY <1>1, <1>2, <1>3, <1>a DEF AllOps, ArticleOps

(* What an atomic step of the registry leaves true of the database: foreign
   keys, no uses without an article, and the exact orphan marker. *)
DbConsistent ==
  /\ \A a \in Articles : uses[a] \subseteq rows /\ (a \notin articles => uses[a] = {})
  /\ MarkerExact

(* Every step of the atomic registry keeps the database consistent. *)
LEMMA RegistryStepKeeps ==
  ASSUME Registry!TypeOK, DbConsistent, Registry!Next
  PROVE  DbConsistent'
PROOF
<1> USE DEF DbConsistent, Registry!TypeOK
<1>0. \A at \in Times : at # None
  BY LifecycleAssumptions DEF Times
<1>1. ASSUME NEW f \in Files, NEW at \in Times, Registry!Register(f, at)
      PROVE  DbConsistent'
  BY <1>0, <1>1 DEF Registry!Register, MarkerExact, InUse
<1>2. ASSUME NEW f \in Files, NEW at \in Times, Registry!Refresh(f, at)
      PROVE  DbConsistent'
  BY <1>0, <1>2 DEF Registry!Refresh, Registry!InUse, MarkerExact, InUse
<1>3. ASSUME NEW a \in Articles, NEW want \in SUBSET Files, NEW at \in Times,
             Registry!SaveArticle(a, want, at)
      PROVE  DbConsistent'
  <2>1. \A b \in Articles : uses'[b] = IF b = a THEN want ELSE uses[b]
    BY <1>3 DEF Registry!SaveArticle
  <2>2. \A b \in Articles : uses'[b] \subseteq rows' /\ (b \notin articles' => uses'[b] = {})
    BY <1>3, <2>1 DEF Registry!SaveArticle
  <2>3. ASSUME NEW f \in rows PROVE (orphaned'[f] = None) <=> InUse(f)'
    BY <1>0, <1>3, <2>1, <2>3 DEF Registry!SaveArticle, MarkerExact, InUse
  <2>4. QED BY <1>3, <2>2, <2>3 DEF Registry!SaveArticle, MarkerExact
<1>4. ASSUME NEW a \in Articles, NEW at \in Times, Registry!RemoveArticle(a, at)
      PROVE  DbConsistent'
  <2>1. \A b \in Articles : uses'[b] = IF b = a THEN {} ELSE uses[b]
    BY <1>4 DEF Registry!RemoveArticle
  <2>2. \A b \in Articles : uses'[b] \subseteq rows' /\ (b \notin articles' => uses'[b] = {})
    BY <1>4, <2>1 DEF Registry!RemoveArticle
  <2>3. ASSUME NEW f \in rows PROVE (orphaned'[f] = None) <=> InUse(f)'
    BY <1>0, <1>4, <2>1, <2>3 DEF Registry!RemoveArticle, MarkerExact, InUse
  <2>4. QED BY <1>4, <2>2, <2>3 DEF Registry!RemoveArticle, MarkerExact
<1>5. ASSUME NEW gone \in SUBSET Files, Registry!RemoveFiles(gone)
      PROVE  DbConsistent'
  BY <1>5 DEF Registry!RemoveFiles, Registry!InUse, MarkerExact, InUse
<1>6. QED BY <1>1, <1>2, <1>3, <1>4, <1>5 DEF Registry!Next

(* A commit keeps the inductive invariant: whatever it changes it has locked,
   or has inserted under an id nobody else knows. *)
LEMMA CommitKeeps ==
  ASSUME IInv, NEW t \in Tx, Commit(t)
  PROVE  IInv'
PROOF
<1> DEFINE x == tx[t]
<1>0. /\ TxInv(t) /\ x \in TxState /\ x.pc = "commit" /\ DbInv /\ t # None
      /\ flock \in [Files -> Tx \cup {None}] /\ alock \in [Articles -> Tx \cup {None}]
      /\ tx \in [Tx -> TxState]
  BY LifecycleAssumptions DEF IInv, Typed, Commit, Marker, At
<1>1. /\ tx' = [tx EXCEPT ![t] = Idle] /\ tx'[t] = Idle /\ objects' = objects /\ now' = now
      /\ \A u \in Tx \ {t} : tx'[u] = tx[u]
      /\ rows' = (rows \cup x.ins) \ x.del /\ known' = known \cup x.ins
      /\ broken' = (broken \cup x.gone) \ x.del
      /\ flock' = [f \in Files |-> IF flock[f] = t THEN None ELSE flock[f]]
      /\ alock' = [a \in Articles |-> IF alock[a] = t THEN None ELSE alock[a]]
  BY <1>0 DEF Commit, Marker, Release
<1>2. /\ x.ins \subseteq (Files \ known) \cap objects
      /\ x.del \subseteq x.gone /\ x.gone \subseteq rows /\ x.gone \cap objects = {}
      /\ \A f \in x.del : flock[f] = t
  BY <1>0 DEF TxInv, UploadInv, Reserved, DeleteInv, Doomed, At
<1>3. Typed'
  <2>1. Idle \in TxState
    BY LifecycleAssumptions DEF Idle, TxState, Labels, AllOps, Times
  <2>2. rows' \subseteq Files /\ known' \subseteq Files /\ broken' \subseteq Files
    BY <1>0, <1>1, <1>2 DEF IInv, Typed, TxState
  <2>3. orphaned' \in [Files -> Times \cup {None}]
    BY <1>0 DEF IInv, Typed, Commit, Marker, TxState
  <2>4. articles' \subseteq Articles /\ uses' \in [Articles -> SUBSET Files]
    <3>1. x.op \in ArticleOps => x.art \in Articles
      BY <1>0 DEF TxInv, ArticleInv
    <3>2. QED BY <1>0, <3>1 DEF IInv, Typed, Commit, Marker, TxState, ArticleOps
  <2>5. QED BY <1>1, <2>1, <2>2, <2>3, <2>4 DEF IInv, Typed
<1>4. DbInv'
  <2>1. DbConsistent'
    <3>1. Registry!TypeOK /\ DbConsistent
      BY <1>0 DEF IInv, Typed, Registry!TypeOK, DbInv, DbConsistent
    <3>2. CASE Registry!Next
      BY <3>1, <3>2, RegistryStepKeeps
    <3>3. CASE UNCHANGED db
      BY <3>1, <3>3 DEF db, DbConsistent, MarkerExact, InUse
    <3>4. QED BY <3>2, <3>3, CommitIsRegistryStep
  <2>2. QED BY <1>0, <1>1, <2>1 DEF DbInv, DbConsistent
(* The files whose marker or uses it changes *)
<1>5. \A f \in Files :
        flock[f] # t /\ f \notin x.ins =>
          /\ orphaned'[f] = orphaned[f]
          /\ \A a \in Articles : f \in rows => (f \in uses'[a] <=> f \in uses[a])
  <2> SUFFICES ASSUME NEW f \in Files, flock[f] # t, f \notin x.ins
               PROVE  /\ orphaned'[f] = orphaned[f]
                      /\ \A a \in Articles : f \in rows => (f \in uses'[a] <=> f \in uses[a])
    OBVIOUS
  <2>1. CASE x.op \in ArticleOps
    <3>1. /\ x.art \in Articles /\ x.attach = x.want /\ x.want \subseteq rows
          /\ x.orphan \subseteq x.old /\ x.old = uses[x.art] /\ x.old \subseteq rows
          /\ \A g \in (x.old \cup x.want) \cap rows : flock[g] = t
      BY <1>0, <2>1 DEF TxInv, ArticleInv, HoldsArticle, At, ArticleOps, DbInv
    <3>2. f \notin x.old /\ f \notin x.want
      BY <3>1
    <3>3. orphaned'[f] = orphaned[f]
      BY <3>1, <3>2 DEF Commit, Marker
    <3>4. uses' = [uses EXCEPT ![x.art] = x.want]
      BY <2>1 DEF Commit, Marker
    <3>5. QED BY <3>1, <3>2, <3>3, <3>4 DEF IInv, Typed
  <2>2. CASE x.op \notin ArticleOps
    <3>1. x.attach = {} /\ f \notin x.orphan
      BY <1>0, <2>2 DEF TxInv, OpOf, AllOps, ArticleOps, UploadInv, DeleteInv, At
    <3>2. QED BY <2>2, <3>1 DEF Commit, Marker
  <2>3. QED BY <2>1, <2>2
<1>6. \A a \in Articles : alock[a] # t => uses'[a] = uses[a] /\ (a \in articles' <=> a \in articles)
  <2>1. x.op \in ArticleOps => x.art \in Articles /\ alock[x.art] = t
    BY <1>0 DEF TxInv, ArticleInv, HoldsArticle, At, ArticleOps
  <2>2. QED BY <2>1 DEF Commit, Marker, ArticleOps, IInv, Typed
<1>7. ASSUME NEW u \in Tx, u # t
      PROVE  TxInv(u)' /\ (Reserved(u)' <=> Reserved(u))
  <2>1. tx[u].gone \cap objects = {} /\ (Reserved(u) => tx[u].file \notin known)
    BY DEF IInv, TxInv, DeleteInv, UploadInv, Reserved
  <2>2. Reserved(u) => tx[u].file \notin x.ins
    BY <1>0, <1>7 DEF IInv, DistinctUploads, TxInv, UploadInv, Reserved
  <2>3. \A f \in Files : flock[f] = u => f \notin x.ins /\ f \notin x.del /\ flock[f] # t /\ f \in known
    BY <1>0, <1>2, <1>7, LifecycleAssumptions DEF DbInv
  <2>4. \A f \in Files : flock[f] = u => \A a \in Articles : f \in uses'[a] <=> f \in uses[a]
    <3> SUFFICES ASSUME NEW f \in Files, flock[f] = u, NEW a \in Articles
                 PROVE  f \in uses'[a] <=> f \in uses[a]
      OBVIOUS
    <3>1. CASE f \in rows
      BY <3>1, <2>3, <1>5
    <3>2. CASE f \notin rows
      BY <3>2, <2>3, <1>0, <1>4, <1>1 DEF DbInv
    <3>3. QED BY <3>1, <3>2
  <2>5. Undisturbed(u)
    BY <1>0, <1>1, <1>2, <1>5, <1>6, <1>7, <2>1, <2>2, <2>3, <2>4, LifecycleAssumptions
    DEF Undisturbed
  <2>6. QED BY <1>1, <1>7, <2>5, OthersKept DEF Reserved, At
<1>8. TxInv(t)'
  BY <1>1, <1>0, LifecycleAssumptions
  DEF TxInv, OpOf, IdleInv, UploadInv, ArticleInv, DeleteInv, Doomed, At, Idle, ArticleOps, AllOps
<1>9. DistinctUploads'
  BY <1>1, <1>7 DEF IInv, DistinctUploads, Reserved, Idle
<1>10. StorageParity'
  <2> SUFFICES ASSUME NEW f \in Files \ broken', \A u \in Tx : f \notin tx'[u].ins \cup tx'[u].gone
               PROVE  f \in rows' <=> f \in objects
    BY <1>1 DEF StorageParity
  <2>1. \A u \in Tx \ {t} : f \notin tx[u].ins \cup tx[u].gone
    BY <1>1
  <2>2. CASE f \in x.ins \cup x.gone
    BY <1>0, <1>1, <1>2, <2>2 DEF DbInv
  <2>3. CASE f \notin x.ins \cup x.gone
    BY <1>1, <1>2, <2>1, <2>3 DEF IInv, StorageParity
  <2>4. QED BY <2>2, <2>3
<1>11. QED BY <1>3, <1>4, <1>7, <1>8, <1>9, <1>10 DEF IInv

(* Every step of the specification keeps the inductive invariant. *)
LEMMA StepKeeps ==
  ASSUME IInv, [Next]_vars
  PROVE  IInv'
PROOF
<1>1. ASSUME NEW t \in Tx, Request(t) \/ Step(t) \/ Fault(t) \/ Commit(t)
      PROVE  IInv'
  <2>1. CASE Crash(t)
    BY <2>1, RollbackKeeps DEF Crash
  <2>2. QED BY <1>1, <2>1, RequestKeeps, ArticleStepKeeps, FileStepKeeps, ObjectStepKeeps, CommitKeeps
            DEF Step, Fault
<1>2. ASSUME UNCHANGED <<rows, orphaned, articles, uses, objects, known, flock, alock, tx, broken>>,
             now' \in Times
      PROVE  IInv'
  <2>1. Typed' /\ DbInv' /\ DistinctUploads' /\ StorageParity'
    BY <1>2 DEF IInv, Typed, DbInv, MarkerExact, InUse, DistinctUploads, Reserved, At, StorageParity
  <2>2. ASSUME NEW u \in Tx PROVE TxInv(u)'
    <3>1. tx[u].gone \cap objects = {} /\ (Reserved(u) => tx[u].file \notin known)
      BY DEF IInv, TxInv, DeleteInv, UploadInv, Reserved
    <3>2. Undisturbed(u)
      BY <1>2, <3>1 DEF Undisturbed
    <3>3. QED BY <3>2, OthersKept
  <2>3. QED BY <2>1, <2>2 DEF IInv
<1>3. CASE Tick
  BY <1>2, <1>3, LifecycleAssumptions DEF Tick, db, IInv, Typed, Times
<1>4. CASE UNCHANGED vars
  BY <1>2, <1>4 DEF vars, IInv, Typed
<1>5. QED BY <1>1, <1>3, <1>4 DEF Next

(* The initial state satisfies the inductive invariant. *)
LEMMA InitHolds ==
  ASSUME Init
  PROVE  IInv
PROOF
<1>1. Typed
  <2>1. Idle \in TxState
    BY LifecycleAssumptions DEF Idle, TxState, Labels, AllOps, Times
  <2>2. QED BY <2>1, LifecycleAssumptions DEF Init, Typed, Times
<1>2. DbInv /\ StorageParity
  BY DEF Init, DbInv, MarkerExact, InUse, StorageParity
<1>3. ASSUME NEW t \in Tx PROVE TxInv(t) /\ ~Reserved(t)
  BY LifecycleAssumptions
  DEF Init, TxInv, OpOf, IdleInv, UploadInv, Reserved, ArticleInv, DeleteInv, Doomed, At, Idle,
      ArticleOps, AllOps
<1>4. QED BY <1>1, <1>2, <1>3 DEF IInv, DistinctUploads

(* The inductive invariant holds in every reachable state. *)
THEOREM InvariantHolds == Spec => []IInv
<1>1. Init => IInv
  BY InitHolds
<1>2. IInv /\ [Next]_vars => IInv'
  BY StepKeeps
<1>3. QED BY <1>1, <1>2, PTL DEF Spec

(* Nothing is dated ahead of the clock: TypeOK is Typed and this. *)
Dated ==
  /\ \A t \in Tx : tx[t].start <= now
  /\ \A f \in Files : orphaned[f] # None => orphaned[f] <= now

(* A transaction keeps the time it began at, and dates what it commits with
   it. *)
LEMMA DatedStep ==
  ASSUME Typed, Dated, [Next]_vars
  PROVE  Dated'
PROOF
<1>0. /\ tx \in [Tx -> TxState] /\ now \in Nat /\ Idle.start = 0
      /\ \A f \in Files : orphaned[f] # None => orphaned[f] \in Nat
  BY LifecycleAssumptions DEF Typed, Times, Idle
<1>1. ASSUME NEW t \in Tx, NEW y, tx' = [tx EXCEPT ![t] = y], UNCHANGED <<orphaned, now>>,
             y.start \in {0, tx[t].start, now}
      PROVE  Dated'
  BY <1>0, <1>1 DEF Dated
<1>a. ASSUME NEW t \in Tx, NEW op, NEW rec, Begin(t, op, rec), rec.start = now PROVE Dated'
  BY <1>1, <1>a DEF Begin, db
<1>2. ASSUME NEW t \in Tx, Request(t) PROVE Dated'
  <2>1. CASE UploadBegin(t)
    BY <1>a, <2>1 DEF UploadBegin, Idle
  <2>2. CASE RenameFileBegin(t)
    BY <1>a, <2>2 DEF RenameFileBegin, Idle
  <2>3. CASE DeleteFileBegin(t)
    BY <1>a, <2>3 DEF DeleteFileBegin, Idle
  <2>4. CASE PruneBegin(t)
    BY <1>a, <2>4 DEF PruneBegin, Idle
  <2>5. CASE CreateArticleBegin(t)
    BY <1>a, <2>5 DEF CreateArticleBegin, Idle
  <2>6. CASE UpdateArticleBegin(t)
    BY <1>a, <2>6 DEF UpdateArticleBegin, Idle
  <2>7. CASE DeleteArticleBegin(t)
    BY <1>a, <2>7 DEF DeleteArticleBegin, Idle
  <2>8. QED BY <1>2, <2>1, <2>2, <2>3, <2>4, <2>5, <2>6, <2>7 DEF Request
<1>3. ASSUME NEW t \in Tx, NEW stored, Rollback(t, stored) PROVE Dated'
  BY <1>0, <1>1, <1>3 DEF Rollback, Release, db
<1>4. ASSUME NEW t \in Tx, NEW y, Private(t, y), y.start = tx[t].start PROVE Dated'
  BY <1>1, <1>4 DEF Private, db
<1>5. ASSUME NEW t \in Tx, UNCHANGED <<db, now>>, tx'[t].start = tx[t].start,
             \A u \in Tx \ {t} : tx'[u] = tx[u]
      PROVE  Dated'
  BY <1>5 DEF Dated, db
<1>6. ASSUME NEW t \in Tx, UploadFindDuplicate(t) \/ UploadCreateRow(t) \/ UploadPutObject(t)
      PROVE  Dated'
  <2>0. tx[t] \in TxState
    BY <1>0
  <2>1. CASE UploadFindDuplicate(t)
    BY <1>0, <1>3, <1>4, <1>5, <2>0, <2>1 DEF UploadFindDuplicate, TxState
  <2>2. CASE UploadCreateRow(t)
    BY <1>0, <1>3, <1>4, <1>5, <2>0, <2>2 DEF UploadCreateRow, TxState
  <2>3. CASE UploadPutObject(t)
    BY <1>0, <1>3, <1>4, <1>5, <2>0, <2>3 DEF UploadPutObject, TxState
  <2>5. QED BY <1>6, <2>1, <2>2, <2>3
<1>7. ASSUME NEW t \in Tx, LockArticle(t) \/ LockNextFile(t) \/ SyncFileUsages(t) \/ DeleteArticleRow(t)
      PROVE  Dated'
  <2>0. tx[t] \in TxState
    BY <1>0
  <2>1. CASE LockArticle(t)
    BY <1>0, <1>3, <1>4, <1>5, <2>0, <2>1 DEF LockArticle, TxState
  <2>2. CASE LockNextFile(t)
    BY <1>0, <1>3, <1>4, <1>5, <2>0, <2>2 DEF LockNextFile, TxState
  <2>3. CASE SyncFileUsages(t)
    BY <1>0, <1>3, <1>4, <1>5, <2>0, <2>3 DEF SyncFileUsages, TxState
  <2>4. CASE DeleteArticleRow(t)
    BY <1>0, <1>3, <1>4, <1>5, <2>0, <2>4 DEF DeleteArticleRow, TxState
  <2>5. QED BY <1>7, <2>1, <2>2, <2>3, <2>4
<1>8. ASSUME NEW t \in Tx, EnsureFilesAllowed(t) \/ InsertArticle(t) \/ UpdateArticleRow(t) \/ RenameFile(t)
      PROVE  Dated'
  <2>0. tx[t] \in TxState
    BY <1>0
  <2>1. CASE EnsureFilesAllowed(t)
    BY <1>0, <1>3, <1>4, <1>5, <2>0, <2>1 DEF EnsureFilesAllowed, TxState
  <2>2. CASE InsertArticle(t)
    BY <1>0, <1>3, <1>4, <1>5, <2>0, <2>2 DEF InsertArticle, TxState
  <2>3. CASE UpdateArticleRow(t)
    BY <1>0, <1>3, <1>4, <1>5, <2>0, <2>3 DEF UpdateArticleRow, TxState
  <2>4. CASE RenameFile(t)
    BY <1>0, <1>3, <1>4, <1>5, <2>0, <2>4 DEF RenameFile, TxState
  <2>5. QED BY <1>8, <2>1, <2>2, <2>3, <2>4
<1>9. ASSUME NEW t \in Tx, DeleteFileCheck(t) \/ DeleteObject(t) \/ DeleteRow(t) \/ DeleteObjectFails(t)
      PROVE  Dated'
  <2>0. tx[t] \in TxState
    BY <1>0
  <2>1. CASE DeleteFileCheck(t)
    BY <1>0, <1>3, <1>4, <1>5, <2>0, <2>1 DEF DeleteFileCheck, TxState
  <2>2. CASE DeleteObject(t)
    BY <1>0, <1>3, <1>4, <1>5, <2>0, <2>2 DEF DeleteObject, TxState
  <2>3. CASE DeleteRow(t)
    BY <1>0, <1>3, <1>4, <1>5, <2>0, <2>3 DEF DeleteRow, TxState
  <2>4. CASE DeleteObjectFails(t)
    BY <1>0, <1>3, <1>4, <1>5, <2>0, <2>4 DEF DeleteObjectFails, TxState
  <2>5. QED BY <1>9, <2>1, <2>2, <2>3, <2>4
<1>10. ASSUME NEW t \in Tx, PruneLockCandidate(t) \/ PruneScanned(t) \/ PruneFile(t) \/ PruneDone(t)
       PROVE  Dated'
  <2>0. tx[t] \in TxState
    BY <1>0
  <2>1. CASE PruneLockCandidate(t)
    BY <1>0, <1>3, <1>4, <1>5, <2>0, <2>1 DEF PruneLockCandidate, TxState
  <2>2. CASE PruneScanned(t)
    BY <1>0, <1>3, <1>4, <1>5, <2>0, <2>2 DEF PruneScanned, TxState
  <2>3. CASE PruneFile(t)
    BY <1>0, <1>3, <1>4, <1>5, <2>0, <2>3 DEF PruneFile, TxState
  <2>4. CASE PruneDone(t)
    BY <1>0, <1>3, <1>4, <1>5, <2>0, <2>4 DEF PruneDone, TxState
  <2>5. QED BY <1>10, <2>1, <2>2, <2>3, <2>4
<1>11. ASSUME NEW t \in Tx, ArticleNotFound(t) \/ UploadPutFails(t) \/ Crash(t) PROVE Dated'
  BY <1>3, <1>11 DEF ArticleNotFound, UploadPutFails, Crash
<1>12. ASSUME NEW t \in Tx, Commit(t) PROVE Dated'
  <2>1. /\ tx' = [tx EXCEPT ![t] = Idle] /\ now' = now
        /\ orphaned' = [f \in Files |-> Marker(tx[t], f)]
    BY <1>12 DEF Commit, Release
  <2>2. \A f \in Files : orphaned'[f] # None => orphaned'[f] <= now
    BY <1>0, <2>1 DEF Marker, Dated
  <2>3. \A u \in Tx : tx'[u].start <= now
    BY <1>0, <2>1 DEF Dated
  <2>4. QED BY <2>1, <2>2, <2>3 DEF Dated
<1>13. CASE Tick
  BY <1>0, <1>13, LifecycleAssumptions DEF Tick, db, Dated, Typed, TxState, Times
<1>14. CASE UNCHANGED vars
  BY <1>14 DEF vars, db, Dated
<1>15. QED BY <1>2, <1>6, <1>7, <1>8, <1>9, <1>10, <1>11, <1>12, <1>13, <1>14 DEF Next, Step, Fault

(* Every reachable state is well typed, and for any retention and latency
   Commit never dates a file ahead of the clock. *)
THEOREM TypeCorrect == Spec => []TypeOK
<1>1. Init => Dated
  BY LifecycleAssumptions DEF Init, Dated, Idle, Times
<1>2. IInv /\ Dated /\ [Next]_vars => Dated'
  BY DatedStep DEF IInv
<1>3. IInv /\ Dated => TypeOK
  BY DEF IInv, Dated, TypeOK
<1>4. QED BY <1>1, <1>2, <1>3, InvariantHolds, PTL DEF Spec

(* orphaned_at is NULL exactly for the files in use, for any number of
   concurrent saves, uploads, deletions and cleanup runs: the old and new
   files of a save are locked before it reads or writes a usage. *)
THEOREM MarkerIsExact == Spec => []MarkerExact
<1>1. IInv => MarkerExact
  BY DEF IInv, DbInv
<1>2. QED BY <1>1, InvariantHolds, PTL

(* A file that a committed article uses has its row, and its object unless a
   failed step is on record for it. *)
THEOREM UsedFilesAreServed == Spec => []UsedFileIsServed
<1>1. ASSUME IInv PROVE UsedFileIsServed
  <2> SUFFICES ASSUME NEW f \in Files, InUse(f) PROVE f \in rows /\ f \in objects \cup broken
    BY DEF UsedFileIsServed
  <2>1. f \in rows /\ f \in known /\ orphaned[f] = None
    BY <1>1 DEF IInv, DbInv, InUse, MarkerExact
  <2>2. \A t \in Tx : f \notin tx[t].ins
    BY <1>1, <2>1 DEF IInv, TxInv, UploadInv, Reserved
  <2>3. \A t \in Tx : f \notin tx[t].gone
    BY <1>1, <2>1 DEF IInv, TxInv, DeleteInv, Doomed
  <2>4. QED BY <1>1, <2>1, <2>2, <2>3 DEF IInv, StorageParity
<1>2. QED BY <1>1, InvariantHolds, PTL

(* Rows and objects agree on every file no transaction is working on and no
   failed step is on record for. *)
THEOREM StoresAgree == Spec => []StorageParity
<1>1. IInv => StorageParity
  BY DEF IInv
<1>2. QED BY <1>1, InvariantHolds, PTL

(* The concurrent system implements the atomic registry. *)
THEOREM ImplementsRegistry == Spec => RefinesRegistry
<1>1. Init => Registry!Init
  BY DEF Init, Registry!Init
<1>2. ASSUME IInv, [Next]_vars PROVE [Registry!Next]_(Registry!vars)
  <2>1. ASSUME NEW t \in Tx, Commit(t) PROVE [Registry!Next]_(Registry!vars)
    BY <1>2, <2>1, CommitIsRegistryStep DEF Registry!vars, db
  <2>2. ASSUME NEW t \in Tx, Request(t) \/ Step(t) \/ Fault(t) PROVE UNCHANGED db
    <3>1. CASE Request(t)
      BY <3>1 DEF Request, UploadBegin, RenameFileBegin, DeleteFileBegin, PruneBegin, CreateArticleBegin,
                  UpdateArticleBegin, DeleteArticleBegin, Begin
    <3>2. CASE Step(t)
      BY <3>2 DEF Step, UploadFindDuplicate, UploadCreateRow, UploadPutObject, LockArticle, ArticleNotFound,
                  EnsureFilesAllowed, LockNextFile, InsertArticle, UpdateArticleRow, DeleteArticleRow,
                  SyncFileUsages, RenameFile, DeleteFileCheck, DeleteObject, DeleteRow,
                  PruneLockCandidate, PruneScanned, PruneFile, PruneDone, Private, Rollback
    <3>3. CASE Fault(t)
      BY <3>3 DEF Fault, UploadPutFails, DeleteObjectFails, Crash, Rollback
    <3>4. QED BY <2>2, <3>1, <3>2, <3>3
  <2>3. CASE Tick \/ UNCHANGED vars
    BY <2>3 DEF Tick, vars, db, Registry!vars
  <2>4. QED BY <1>2, <2>1, <2>2, <2>3 DEF Next, Registry!vars, db
<1>3. QED BY <1>1, <1>2, InvariantHolds, PTL DEF Spec, RefinesRegistry, Registry!Spec

(* Only an article request wants files. *)
WantInv == \A t \in Tx : tx[t].op \notin ArticleOps => tx[t].want = {}

(* No step changes what a request is about or the files it wants. *)
LEMMA WantKept ==
  ASSUME Typed, WantInv, [Next]_vars
  PROVE  WantInv'
PROOF
<1>0. tx \in [Tx -> TxState]
  BY DEF Typed
<1>1. \A t \in Tx : tx' = [tx EXCEPT ![t] = Idle] => WantInv'
  BY <1>0 DEF WantInv, Idle
<1>2. ASSUME NEW t \in Tx, NEW y, tx' = [tx EXCEPT ![t] = y],
             y.op \in ArticleOps \/ y.want = {}
      PROVE  WantInv'
  BY <1>0, <1>2 DEF WantInv
<1>a. ASSUME NEW t \in Tx, tx[t].want = tx'[t].want, tx[t].op = tx'[t].op,
             \A u \in Tx \ {t} : tx'[u] = tx[u]
      PROVE  WantInv'
  BY <1>a DEF WantInv
<1>3. ASSUME NEW t \in Tx, Request(t) PROVE WantInv'
  <2>1. CASE UploadBegin(t)
    BY <1>2, <2>1 DEF UploadBegin, Begin, Idle
  <2>2. CASE RenameFileBegin(t) \/ DeleteFileBegin(t)
    BY <1>2, <2>2 DEF RenameFileBegin, DeleteFileBegin, Begin, Idle
  <2>3. CASE CreateArticleBegin(t)
    BY <1>2, <2>3 DEF CreateArticleBegin, Begin, Idle, ArticleOps
  <2>4. CASE UpdateArticleBegin(t)
    BY <1>2, <2>4 DEF UpdateArticleBegin, Begin, Idle, ArticleOps
  <2>5. CASE DeleteArticleBegin(t) \/ PruneBegin(t)
    BY <1>2, <2>5 DEF DeleteArticleBegin, PruneBegin, Begin, Idle
  <2>6. QED BY <1>3, <2>1, <2>2, <2>3, <2>4, <2>5 DEF Request
<1>4. ASSUME NEW t \in Tx, Step(t) PROVE WantInv'
  <2> USE DEF TxState
  <2>1. CASE UploadFindDuplicate(t)
    BY <1>0, <1>a, <2>1 DEF UploadFindDuplicate, Private
  <2>2. CASE UploadCreateRow(t)
    BY <1>0, <1>a, <2>2 DEF UploadCreateRow, Private
  <2>3. CASE UploadPutObject(t)
    BY <1>0, <1>a, <2>3 DEF UploadPutObject
  <2>4. CASE LockArticle(t)
    BY <1>0, <1>a, <2>4 DEF LockArticle
  <2>5. CASE ArticleNotFound(t)
    BY <1>0, <1>1, <1>a, <2>5 DEF ArticleNotFound, Rollback, Release
  <2>6. CASE EnsureFilesAllowed(t)
    <3>1. CASE tx[t].want \subseteq rows
      <4>1. PICK y : /\ tx' = [tx EXCEPT ![t] = y]
                     /\ y = [tx[t] EXCEPT !.pc = "lockFiles", !.todo = tx[t].old \cup tx[t].want]
        BY <2>6, <3>1 DEF EnsureFilesAllowed, Private
      <4>2. y.want = tx[t].want /\ y.op = tx[t].op
        BY <1>0, <4>1
      <4>3. tx'[t] = y /\ \A u \in Tx \ {t} : tx'[u] = tx[u]
        BY <1>0, <4>1
      <4> QED BY <1>a, <4>2, <4>3
    <3>2. CASE ~(tx[t].want \subseteq rows)
      BY <1>1, <2>6, <3>2 DEF EnsureFilesAllowed, Rollback, Release
    <3>3. QED BY <3>1, <3>2
  <2>7. CASE LockNextFile(t)
    BY <1>0, <1>a, <2>7 DEF LockNextFile
  <2>8. CASE InsertArticle(t)
    BY <1>0, <1>1, <1>a, <2>8 DEF InsertArticle, Private, Rollback, Release
  <2>9. CASE UpdateArticleRow(t)
    BY <1>0, <1>1, <1>a, <2>9 DEF UpdateArticleRow, Private, Rollback, Release
  <2>10. CASE DeleteArticleRow(t)
    BY <1>0, <1>a, <2>10 DEF DeleteArticleRow, Private
  <2>11. CASE SyncFileUsages(t)
    BY <1>0, <1>a, <2>11 DEF SyncFileUsages, Private
  <2>12. CASE RenameFile(t)
    BY <1>0, <1>1, <1>a, <2>12 DEF RenameFile, Private, Rollback, Release
  <2>13. CASE DeleteFileCheck(t)
    BY <1>0, <1>1, <1>a, <2>13 DEF DeleteFileCheck, Private, Rollback, Release
  <2>14. CASE DeleteObject(t)
    BY <1>0, <1>a, <2>14 DEF DeleteObject
  <2>15. CASE DeleteRow(t)
    <3>1. CASE InUse(tx[t].file)
      BY <1>1, <2>15, <3>1 DEF DeleteRow, Rollback, Release
    <3>2. CASE ~InUse(tx[t].file)
      <4>1. PICK y : /\ tx' = [tx EXCEPT ![t] = y]
                     /\ y = [tx[t] EXCEPT !.del = @ \cup {tx[t].file},
                                          !.pc = IF tx[t].op = "prune" THEN "prune" ELSE "commit"]
        BY <2>15, <3>2 DEF DeleteRow, Private
      <4>2. y.want = tx[t].want /\ y.op = tx[t].op
        BY <1>0, <4>1
      <4>3. tx'[t] = y /\ \A u \in Tx \ {t} : tx'[u] = tx[u]
        BY <1>0, <4>1
      <4> QED BY <1>a, <4>2, <4>3
    <3>3. QED BY <3>1, <3>2
  <2>16. CASE PruneLockCandidate(t)
    BY <1>0, <1>a, <2>16 DEF PruneLockCandidate
  <2>17. CASE PruneScanned(t)
    BY <1>0, <1>a, <2>17 DEF PruneScanned, Private
  <2>18. CASE PruneFile(t)
    BY <1>0, <1>a, <2>18 DEF PruneFile, Private
  <2>19. CASE PruneDone(t)
    BY <1>0, <1>a, <2>19 DEF PruneDone, Private
  <2>20. QED BY <1>4, <2>1, <2>2, <2>3, <2>4, <2>5, <2>6, <2>7, <2>8, <2>9, <2>10,
                <2>11, <2>12, <2>13, <2>14, <2>15, <2>16, <2>17, <2>18, <2>19 DEF Step
<1>5. ASSUME NEW t \in Tx, Fault(t) PROVE WantInv'
  <2>1. CASE UploadPutFails(t) \/ Crash(t)
    BY <1>1, <2>1 DEF UploadPutFails, Crash, Rollback, Release
  <2>2. CASE DeleteObjectFails(t)
    BY <1>0, <1>1, <1>a, <2>2 DEF DeleteObjectFails, Rollback, Release, TxState
  <2>3. QED BY <1>5, <2>1, <2>2 DEF Fault
<1>6. ASSUME NEW t \in Tx, Commit(t) PROVE WantInv'
  BY <1>1, <1>6 DEF Commit, Marker, Release
<1>7. CASE Tick \/ UNCHANGED vars
  BY <1>7 DEF WantInv, Tick, vars
<1>8. QED BY <1>3, <1>4, <1>5, <1>6, <1>7 DEF Next

(* An object is only ever removed while the deleting transaction holds the
   file's row lock, and then neither a committed article nor a save past its
   foreign key check has any use for it. *)
THEOREM NoObjectDeletedUnderUseHolds == Spec => NoObjectDeletedUnderUse
<1> DEFINE Safe == \A f \in objects \ objects' :
                     /\ ~InUse(f)
                     /\ \A t \in Tx : At(t, "sync") \/ At(t, "commit") => f \notin tx[t].want
<1>1. Init => WantInv
  BY DEF Init, WantInv, Idle
<1>2. ASSUME IInv, WantInv, [Next]_vars PROVE Safe
  <2> SUFFICES ASSUME NEW f \in objects \ objects'
               PROVE  /\ ~InUse(f)
                      /\ \A u \in Tx : At(u, "sync") \/ At(u, "commit") => f \notin tx[u].want
    OBVIOUS
  <2>1. PICK t \in Tx : At(t, "s3delete") /\ f = tx[t].file
    <3>1. ASSUME NEW t \in Tx, Request(t) \/ Step(t) \/ Fault(t) \/ Commit(t)
          PROVE  At(t, "s3delete") /\ f = tx[t].file
      <4>1. CASE Request(t)
        BY <4>1 DEF Request, UploadBegin, RenameFileBegin, DeleteFileBegin, PruneBegin,
                    CreateArticleBegin, UpdateArticleBegin, DeleteArticleBegin, Begin
      <4>2. CASE Step(t)
        BY <4>2 DEF Step, UploadFindDuplicate, UploadCreateRow, UploadPutObject, LockArticle,
           ArticleNotFound, EnsureFilesAllowed, LockNextFile, InsertArticle, UpdateArticleRow,
           DeleteArticleRow, SyncFileUsages, RenameFile, DeleteFileCheck, DeleteObject, DeleteRow,
           PruneLockCandidate, PruneScanned, PruneFile, PruneDone, Private, Rollback
      <4>3. CASE Fault(t) \/ Commit(t)
        BY <4>3 DEF Fault, UploadPutFails, DeleteObjectFails, Crash, Rollback, Commit, Marker
      <4>4. QED BY <3>1, <4>1, <4>2, <4>3
    <3>2. ~(Tick \/ UNCHANGED vars)
      BY DEF Tick, vars
    <3>3. QED BY <1>2, <3>1, <3>2 DEF Next
  <2>2. f \in rows /\ flock[f] = t /\ orphaned[f] # None
    BY <1>2, <2>1 DEF IInv, TxInv, DeleteInv, Doomed, At
  <2>3. ~InUse(f)
    BY <1>2, <2>2 DEF IInv, DbInv, MarkerExact
  <2>4. ASSUME NEW u \in Tx, At(u, "sync") \/ At(u, "commit"), f \in tx[u].want PROVE FALSE
    <3>1. tx[u].op \in ArticleOps
      BY <1>2, <2>4 DEF WantInv
    <3>2. ArticleInv(u)
      BY <1>2 DEF IInv, TxInv
    <3>3. flock[f] = u
      BY <2>2, <2>4, <3>1, <3>2 DEF ArticleInv, At
    <3>4. QED BY <2>1, <2>2, <2>4, <3>3 DEF At
  <2>5. QED BY <2>3, <2>4
<1>3. IInv => Typed
  BY DEF IInv
<1>4. Typed /\ WantInv /\ [Next]_vars => WantInv'
  BY WantKept
<1>5. QED BY <1>1, <1>2, <1>3, <1>4, InvariantHolds, PTL DEF Spec, NoObjectDeletedUnderUse

-----------------------------------------------------------------------------
(* The order in which a transaction acquires its row locks: no file row before
   it has its article, then the file rows in the order of their ids, and the
   row of a new article last of all. *)
LockOrder(t) ==
  /\ tx[t].pc \in {"find", "lockArticle", "validate"} => Held(t) = {}
  /\ At(t, "lockFiles") => \A f \in Held(t), g \in tx[t].todo : f < g
  /\ \A a \in Articles : alock[a] = t => HoldsArticle(t) /\ tx[t].art = a

(* Only so many requests are in progress, however many slots there are. *)
Busy == {t \in Tx : ~At(t, "idle")}

OrderInv == IsFiniteSet(Busy) /\ \A t \in Tx : LockOrder(t)

(* A step of t that leaves the locks and the state of the others alone *)
OwnStep(t) ==
  \A u \in Tx \ {t} : /\ tx'[u] = tx[u]
                      /\ \A f \in Files : flock'[f] = u <=> flock[f] = u
                      /\ \A a \in Articles : alock'[a] = u <=> alock[a] = u

(* Such a step keeps the lock order if t itself does. *)
LEMMA OwnStepOrder ==
  ASSUME OrderInv, NEW t \in Tx, OwnStep(t), LockOrder(t)'
  PROVE  OrderInv'
PROOF
<1>1. ASSUME NEW u \in Tx, u # t PROVE LockOrder(u)'
  <2>1. /\ tx'[u] = tx[u] /\ Held(u)' = Held(u)
        /\ \A a \in Articles : alock'[a] = u <=> alock[a] = u
    BY <1>1 DEF OwnStep, Held
  <2>2. LockOrder(u)
    BY DEF OrderInv
  <2>3. HoldsArticle(u)' <=> HoldsArticle(u)
    BY <2>1 DEF HoldsArticle
  <2>4. QED BY <2>1, <2>2, <2>3 DEF LockOrder, At
<1>2. IsFiniteSet(Busy')
  <2>1. IsFiniteSet(Busy \cup {t})
    BY FS_AddElement DEF OrderInv
  <2>2. Busy' \subseteq Busy \cup {t}
    BY DEF Busy, At, OwnStep
  <2>3. QED BY <2>1, <2>2, FS_Subset
<1>3. QED BY <1>1, <1>2 DEF OrderInv

(* A transaction that ends holds nothing. *)
LEMMA ReleaseOrder ==
  ASSUME Typed, OrderInv, NEW t \in Tx, Release(t)
  PROVE  OrderInv'
PROOF
<1>1. t # None /\ (\A u \in Tx : u # None) /\ tx'[t] = Idle /\ tx'[t].pc = "idle"
  BY LifecycleAssumptions DEF Typed, Release, Idle
<1>2. OwnStep(t)
  BY <1>1 DEF Typed, Release, OwnStep
<1>3. Held(t)' = {} /\ \A a \in Articles : alock'[a] # t
  BY <1>1 DEF Release, Held
<1>4. LockOrder(t)'
  BY <1>1, <1>3 DEF LockOrder, At
<1>5. QED BY <1>2, <1>4, OwnStepOrder

(* A transaction that acquires no lock keeps the order when it moves past the
   locking steps, or stays where it is with fewer files to visit. *)
LEMMA PrivateOrder ==
  ASSUME Typed, OrderInv, NEW t \in Tx, NEW y, tx' = [tx EXCEPT ![t] = y],
         flock' = flock, alock' = alock,
         y.op = tx[t].op, y.art = tx[t].art,
         \/ y.pc \notin {"find", "lockArticle", "validate", "lockFiles"}
         \/ y.pc = tx[t].pc /\ y.todo \subseteq tx[t].todo
         \/ y.pc = "lockFiles" /\ At(t, "validate"),
         tx[t].op \in ArticleOps => y.pc \in {"lockFiles", "sync", "commit"},
         y.pc = "lockFiles" => At(t, "validate") \/ At(t, "lockFiles")
  PROVE  OrderInv'
PROOF
<1>1. tx'[t] = y /\ Held(t)' = Held(t) /\ OwnStep(t)
  BY DEF Typed, Held, OwnStep
<1>2. LockOrder(t)
  BY DEF OrderInv
<1>3. HoldsArticle(t) => HoldsArticle(t)'
  BY <1>1 DEF HoldsArticle, ArticleOps, At
<1>4. (tx'[t].pc \in {"find", "lockArticle", "validate"} => Held(t)' = {})
  BY <1>1, <1>2 DEF LockOrder
<1>5. ASSUME tx'[t].pc = "lockFiles" PROVE \A f \in Held(t)', g \in tx'[t].todo : f < g
  BY <1>1, <1>2, <1>5 DEF LockOrder, At
<1>6. \A a \in Articles : alock'[a] = t => HoldsArticle(t)' /\ tx'[t].art = a
  BY <1>1, <1>2, <1>3 DEF LockOrder
<1>7. LockOrder(t)'
  BY <1>4, <1>5, <1>6 DEF LockOrder, At
<1>8. QED BY <1>1, <1>7, OwnStepOrder

(* So does one that locks a file past those steps. *)
LEMMA LateLockOrder ==
  ASSUME Typed, OrderInv, NEW t \in Tx, OwnStep(t), alock' = alock,
         tx'[t].op = tx[t].op, tx[t].op \notin ArticleOps,
         tx'[t].pc \notin {"find", "lockArticle", "validate", "lockFiles"}
  PROVE  OrderInv'
PROOF
<1>1. LockOrder(t)
  BY DEF OrderInv
<1>2. \A a \in Articles : alock[a] # t
  BY <1>1 DEF LockOrder, HoldsArticle, ArticleOps
<1>3. LockOrder(t)'
  BY <1>2 DEF LockOrder, At
<1>4. QED BY <1>3, OwnStepOrder

(* A request begins with no lock. *)
LEMMA BeginOrder ==
  ASSUME IInv, OrderInv, NEW t \in Tx, Request(t)
  PROVE  OrderInv'
PROOF
<1>1. At(t, "idle") /\ flock' = flock /\ alock' = alock /\ \E y : tx' = [tx EXCEPT ![t] = y]
  BY DEF Request, UploadBegin, RenameFileBegin, DeleteFileBegin, PruneBegin, CreateArticleBegin,
         UpdateArticleBegin, DeleteArticleBegin, Begin
<1>2. /\ \A f \in Files : flock[f] # t
      /\ \A a \in Articles : alock[a] # t
  BY <1>1 DEF IInv, TxInv, IdleInv
<1>3. OwnStep(t)
  BY <1>1 DEF OwnStep, IInv, Typed
<1>4. Held(t)' = {}
  BY <1>1, <1>2 DEF Held
<1>5. LockOrder(t)'
  BY <1>1, <1>2, <1>4 DEF LockOrder
<1>6. QED BY <1>3, <1>5, OwnStepOrder

(* Every step of a transaction acquires its locks in order. *)
LEMMA StepOrder ==
  ASSUME IInv, OrderInv, NEW t \in Tx, Step(t) \/ Fault(t) \/ Commit(t)
  PROVE  OrderInv'
PROOF
<1>0. /\ Typed /\ tx \in [Tx -> TxState] /\ tx[t].op \in OpOf(tx[t].pc) /\ LockOrder(t)
      /\ (\A u \in Tx : u # None)
      /\ flock \in [Files -> Tx \cup {None}] /\ alock \in [Articles -> Tx \cup {None}]
  BY LifecycleAssumptions DEF IInv, Typed, TxInv, OrderInv
<1>r. Rollback(t, objects) => OrderInv'
  BY <1>0, ReleaseOrder DEF Rollback
<1>1. CASE UploadFindDuplicate(t)
  <2>1. PICK f \in tx[t].todo :
          \/ f \notin rows /\ Private(t, [tx[t] EXCEPT !.todo = @ \ {f}])
          \/ /\ f \in rows /\ flock[f] = None
             /\ flock' = [flock EXCEPT ![f] = t]
             /\ tx' = [tx EXCEPT ![t].file = f, ![t].pc = "commit",
                                 ![t].orphan = IF orphaned[f] # None THEN {f} ELSE {}]
             /\ UNCHANGED <<db, objects, known, alock, now, broken>>
    BY <1>1 DEF UploadFindDuplicate
  <2>2. tx[t].op = "upload" /\ At(t, "find")
    BY <1>0, <1>1 DEF UploadFindDuplicate, At, OpOf
  <2>3. CASE f \notin rows /\ Private(t, [tx[t] EXCEPT !.todo = @ \ {f}])
    <3>1. PICK y : y = [tx[t] EXCEPT !.todo = @ \ {f}]
      OBVIOUS
    <3>2. y.pc = tx[t].pc /\ y.op = tx[t].op /\ y.art = tx[t].art /\ y.todo \subseteq tx[t].todo
      BY <1>0, <3>1 DEF TxState
    <3>3. QED BY <1>0, <2>2, <2>3, <3>1, <3>2, PrivateOrder DEF Private, At, ArticleOps
  <2>4. CASE f \in rows /\ flock[f] = None /\ flock' = [flock EXCEPT ![f] = t]
             /\ tx' = [tx EXCEPT ![t].file = f, ![t].pc = "commit",
                                 ![t].orphan = IF orphaned[f] # None THEN {f} ELSE {}]
             /\ alock' = alock
    <3>1. tx'[t].pc = "commit" /\ tx'[t].op = tx[t].op
      BY <1>0, <2>4 DEF TxState
    <3>2. OwnStep(t)
      BY <1>0, <2>4 DEF OwnStep
    <3>3. QED BY <1>0, <2>2, <2>4, <3>1, <3>2, LateLockOrder DEF ArticleOps
  <2>5. QED BY <2>1, <2>3, <2>4
<1>2. CASE LockArticle(t)
  <2>1. PICK a : a = tx[t].art
    OBVIOUS
  <2>2. /\ At(t, "lockArticle") /\ alock[a] = None
        /\ alock' = [alock EXCEPT ![a] = t] /\ flock' = flock
        /\ tx' = [tx EXCEPT ![t].old = uses[a],
                            ![t].todo = IF tx[t].op = "deleteArticle" THEN uses[a] ELSE {},
                            ![t].pc = IF tx[t].op = "deleteArticle" THEN "lockFiles" ELSE "validate"]
    BY <1>2, <2>1 DEF LockArticle
  <2>3. tx[t].op \in {"update", "deleteArticle"}
    BY <1>0, <2>2 DEF OpOf, At
  <2>4. /\ tx'[t].op = tx[t].op /\ tx'[t].art = a
        /\ tx'[t].pc \in {"lockFiles", "validate"}
    BY <1>0, <2>1, <2>2 DEF TxState
  <2>5. OwnStep(t)
    BY <1>0, <2>2 DEF OwnStep
  <2>6. Held(t)' = {}
    BY <1>0, <2>2 DEF LockOrder, Held, At
  <2>7. \A b \in Articles : alock[b] # t
    BY <1>0, <2>2, <2>3 DEF LockOrder, HoldsArticle, At
  <2>8. \A b \in Articles : alock'[b] = t => b = a
    BY <1>0, <2>2, <2>7
  <2>9. HoldsArticle(t)'
    BY <2>3, <2>4 DEF HoldsArticle
  <2>10. LockOrder(t)'
    BY <2>4, <2>6, <2>8, <2>9 DEF LockOrder
  <2>11. QED BY <2>5, <2>10, OwnStepOrder
<1>3. CASE EnsureFilesAllowed(t)
  <2>1. CASE Private(t, [tx[t] EXCEPT !.pc = "lockFiles", !.todo = tx[t].old \cup tx[t].want])
    <3>1. PICK y : y = [tx[t] EXCEPT !.pc = "lockFiles", !.todo = tx[t].old \cup tx[t].want]
      OBVIOUS
    <3>2. y.pc = "lockFiles" /\ y.op = tx[t].op /\ y.art = tx[t].art
      BY <1>0, <3>1 DEF TxState
    <3>3. At(t, "validate")
      BY <1>3 DEF EnsureFilesAllowed
    <3>4. QED BY <1>0, <2>1, <3>1, <3>2, <3>3, PrivateOrder DEF Private
  <2>2. QED BY <1>3, <1>r, <2>1 DEF EnsureFilesAllowed
<1>4. CASE LockNextFile(t)
  <2>1. PICK f \in tx[t].todo :
          /\ IsNext(f, tx[t].todo)
          /\ f \in rows => flock[f] = None
          /\ flock' = IF f \in rows THEN [flock EXCEPT ![f] = t] ELSE flock
          /\ tx' = [tx EXCEPT ![t].todo = @ \ {f}]
          /\ alock' = alock
    BY <1>4 DEF LockNextFile
  <2>2. At(t, "lockFiles") /\ tx[t].todo \subseteq Nat
    BY <1>0, <1>4, LifecycleAssumptions DEF LockNextFile, TxState
  <2>3. /\ tx'[t].op = tx[t].op /\ tx'[t].art = tx[t].art /\ tx'[t].pc = tx[t].pc
        /\ tx'[t].todo = tx[t].todo \ {f}
    BY <1>0, <2>1 DEF TxState
  <2>4. OwnStep(t)
    BY <1>0, <2>1 DEF OwnStep
  <2>5. Held(t)' \subseteq Held(t) \cup {f}
    BY <1>0, <2>1 DEF Held
  <2>6. \A g \in tx'[t].todo : f < g
    BY <2>1, <2>2, <2>3 DEF IsNext
  <2>7. \A h \in Held(t)', g \in tx'[t].todo : h < g
    BY <1>0, <2>2, <2>3, <2>5, <2>6 DEF LockOrder
  <2>8. \A a \in Articles : alock'[a] = t => HoldsArticle(t)' /\ tx'[t].art = a
    BY <1>0, <2>1, <2>3 DEF LockOrder, HoldsArticle
  <2>9. LockOrder(t)'
    BY <2>2, <2>3, <2>7, <2>8 DEF LockOrder, At
  <2>10. QED BY <2>4, <2>9, OwnStepOrder
<1>5. CASE InsertArticle(t)
  <2>1. PICK a : a = tx[t].art
    OBVIOUS
  <2>2. At(t, "lockFiles") /\ tx[t].op = "create"
    BY <1>5 DEF InsertArticle, FilesLocked
  <2>3. CASE /\ alock[a] = None /\ flock' = flock
             /\ alock' = [alock EXCEPT ![a] = t]
             /\ tx' = [tx EXCEPT ![t].pc = "sync"]
    <3>1. tx'[t].pc = "sync" /\ tx'[t].op = "create" /\ tx'[t].art = a
      BY <1>0, <2>1, <2>2, <2>3 DEF TxState
    <3>2. OwnStep(t)
      BY <1>0, <2>3 DEF OwnStep
    <3>3. \A b \in Articles : alock[b] # t
      BY <1>0, <2>2 DEF LockOrder, HoldsArticle, At
    <3>4. \A b \in Articles : alock'[b] = t => b = a
      BY <1>0, <2>3, <3>3
    <3>5. LockOrder(t)'
      BY <3>1, <3>4 DEF LockOrder, HoldsArticle, At
    <3>6. QED BY <3>2, <3>5, OwnStepOrder
  <2>4. QED BY <1>5, <1>r, <2>1, <2>3 DEF InsertArticle
<1>6. CASE PruneLockCandidate(t)
  <2>1. PICK f \in tx[t].todo :
          /\ flock' = IF f \in rows /\ flock[f] = None /\ Expired(f, tx[t].start)
                      THEN [flock EXCEPT ![f] = t] ELSE flock
          /\ tx' = [tx EXCEPT ![t].todo = @ \ {f}]
          /\ alock' = alock
    BY <1>6 DEF PruneLockCandidate
  <2>2. At(t, "scan") /\ tx[t].op = "prune"
    BY <1>0, <1>6 DEF PruneLockCandidate, OpOf, At
  <2>3. tx'[t].op = tx[t].op /\ tx'[t].pc = tx[t].pc
    BY <1>0, <2>1 DEF TxState
  <2>4. OwnStep(t)
    BY <1>0, <2>1 DEF OwnStep
  <2>5. QED BY <1>0, <2>1, <2>2, <2>3, <2>4, LateLockOrder DEF ArticleOps, At
<1>7. ASSUME NEW y, tx' = [tx EXCEPT ![t] = y], flock' = flock, alock' = alock,
             y.op = tx[t].op, y.art = tx[t].art,
             y.pc \in {"put", "sync", "s3delete", "rowDelete", "scan", "prune", "commit"},
             tx[t].op \in ArticleOps => y.pc \in {"sync", "commit"}
      PROVE  OrderInv'
  BY <1>0, <1>7, PrivateOrder
<1>a. ASSUME tx'[t].op = tx[t].op, tx'[t].art = tx[t].art,
             tx'[t].pc \in {"put", "sync", "s3delete", "rowDelete", "scan", "prune", "commit"},
             tx[t].op \in ArticleOps => tx'[t].pc \in {"sync", "commit"},
             \E y : tx' = [tx EXCEPT ![t] = y], flock' = flock, alock' = alock
      PROVE  OrderInv'
  BY <1>0, <1>7, <1>a
<1> USE DEF ArticleOps
<1>8. CASE UploadCreateRow(t)
  BY <1>0, <1>8, <1>a DEF UploadCreateRow, Private, TxState, OpOf, At
<1>9. CASE UploadPutObject(t)
  <2>1. /\ tx' = [tx EXCEPT ![t] = [tx[t] EXCEPT !.pc = "commit"]]
        /\ flock' = flock /\ alock' = alock
    BY <1>0, <1>9 DEF UploadPutObject
  <2>2. PICK y : y = [tx[t] EXCEPT !.pc = "commit"]
    OBVIOUS
  <2>3. y.op = tx[t].op /\ y.art = tx[t].art /\ y.pc = "commit"
    BY <1>0, <2>2 DEF TxState
  <2>4. tx' = [tx EXCEPT ![t] = y] /\ flock' = flock /\ alock' = alock
    BY <2>1, <2>2
  <2>5. QED BY <1>7, <2>3, <2>4
<1>10. CASE UpdateArticleRow(t)
  <2>1. CASE Private(t, [tx[t] EXCEPT !.pc = "sync"])
    BY <1>0, <1>a, <2>1 DEF Private, TxState
  <2>2. QED BY <1>10, <1>r, <2>1 DEF UpdateArticleRow
<1>11. CASE DeleteArticleRow(t)
  BY <1>0, <1>11, <1>a DEF DeleteArticleRow, Private, TxState
<1>12. CASE SyncFileUsages(t)
  BY <1>0, <1>12, <1>a DEF SyncFileUsages, Private, TxState
<1>13. CASE RenameFile(t)
  <2>1. CASE Private(t, [tx[t] EXCEPT !.pc = "commit"])
    BY <1>0, <1>a, <2>1 DEF Private, TxState
  <2>2. QED BY <1>13, <1>r, <2>1 DEF RenameFile
<1>14. CASE DeleteFileCheck(t)
  <2>1. CASE Private(t, [tx[t] EXCEPT !.pc = "s3delete"]) /\ tx[t].op = "deleteFile"
    BY <1>0, <1>a, <2>1 DEF Private, TxState
  <2>2. QED BY <1>14, <1>r, <2>1 DEF DeleteFileCheck, FilesLocked
<1>15. CASE DeleteObject(t)
  <2>1. /\ tx' = [tx EXCEPT ![t] = [tx[t] EXCEPT !.gone = @ \cup {tx[t].file}, !.pc = "rowDelete"]]
        /\ flock' = flock /\ alock' = alock
    BY <1>0, <1>15 DEF DeleteObject
  <2>2. QED BY <1>0, <1>15, <1>a, <2>1 DEF DeleteObject, TxState, OpOf, At
<1>16. CASE DeleteRow(t)
  <2>1. tx[t].op \in {"deleteFile", "prune"}
    BY <1>0, <1>16 DEF DeleteRow, OpOf, At
  <2>2. CASE Private(t, [tx[t] EXCEPT !.del = @ \cup {tx[t].file},
                                     !.pc = IF tx[t].op = "prune" THEN "prune" ELSE "commit"])
    BY <1>0, <1>a, <2>1, <2>2 DEF Private, TxState
  <2>3. QED BY <1>16, <1>r, <2>2 DEF DeleteRow
<1>17. CASE PruneScanned(t)
  BY <1>0, <1>17, <1>a DEF PruneScanned, Private, TxState, OpOf, At
<1>18. CASE PruneFile(t)
  <2>1. tx[t].op = "prune" /\ tx[t].pc = "prune"
    BY <1>0, <1>18 DEF PruneFile, OpOf, At
  <2>2. PICK f \in tx[t].todo :
          \/ Private(t, [tx[t] EXCEPT !.todo = @ \ {f}, !.attach = @ \cup {f}])
          \/ Private(t, [tx[t] EXCEPT !.todo = @ \ {f}, !.file = f, !.pc = "s3delete"])
    BY <1>18 DEF PruneFile
  <2>3. CASE Private(t, [tx[t] EXCEPT !.todo = @ \ {f}, !.attach = @ \cup {f}])
    <3>1. PICK y : y = [tx[t] EXCEPT !.todo = @ \ {f}, !.attach = @ \cup {f}]
      OBVIOUS
    <3>2. y.op = "prune" /\ y.art = tx[t].art /\ y.pc = "prune"
      BY <1>0, <2>1, <3>1 DEF TxState
    <3> QED BY <1>7, <2>1, <2>3, <3>1, <3>2 DEF Private
  <2>4. CASE Private(t, [tx[t] EXCEPT !.todo = @ \ {f}, !.file = f, !.pc = "s3delete"])
    <3>1. PICK y : y = [tx[t] EXCEPT !.todo = @ \ {f}, !.file = f, !.pc = "s3delete"]
      OBVIOUS
    <3>2. y.op = "prune" /\ y.art = tx[t].art /\ y.pc = "s3delete"
      BY <1>0, <2>1, <3>1 DEF TxState
    <3> QED BY <1>7, <2>1, <2>4, <3>1, <3>2 DEF Private
  <2>5. QED BY <2>2, <2>3, <2>4
<1>19. CASE PruneDone(t)
  <2>1. PICK y : y = [tx[t] EXCEPT !.pc = "commit"]
    OBVIOUS
  <2>2. y.op = tx[t].op /\ y.art = tx[t].art /\ y.pc = "commit"
    BY <1>0, <2>1 DEF TxState
  <2>3. Private(t, y)
    BY <1>19, <2>1 DEF PruneDone
  <2> QED BY <1>7, <2>2, <2>3 DEF Private
<1>20. CASE DeleteObjectFails(t)
  <2>1. tx[t].op \in {"deleteFile", "prune"}
    BY <1>0, <1>20 DEF DeleteObjectFails, OpOf, At
  <2>2. ASSUME NEW lost,
               tx' = [tx EXCEPT ![t].gone = @ \cup lost, ![t].pc = "prune"],
               tx[t].op = "prune", flock' = flock, alock' = alock
        PROVE  OrderInv'
    <3>1. tx' = [tx EXCEPT ![t] = [tx[t] EXCEPT !.gone = @ \cup lost, !.pc = "prune"]]
      BY <1>0, <2>2
    <3>2. QED BY <1>0, <1>a, <2>2, <3>1 DEF TxState
  <2>3. ASSUME NEW stored, Rollback(t, stored) PROVE OrderInv'
    BY <1>0, <2>3, ReleaseOrder DEF Rollback
  <2>4. QED BY <1>20, <2>2, <2>3 DEF DeleteObjectFails
<1>21. CASE UploadPutFails(t) \/ Crash(t) \/ Commit(t) \/ ArticleNotFound(t)
  BY <1>0, <1>21, ReleaseOrder DEF UploadPutFails, Crash, Commit, ArticleNotFound, Rollback
<1>22. QED
  BY <1>1, <1>2, <1>3, <1>4, <1>5, <1>6, <1>8, <1>9, <1>10, <1>11, <1>12, <1>13, <1>14, <1>15,
     <1>16, <1>17, <1>18, <1>19, <1>20, <1>21 DEF Step, Fault

(* A transaction that another one waits for, and that waits for a third one
   that waits as well, is at the next file of its todo list: what it waits for
   is not the insert of its article, since the other insert waits no more. *)
LEMMA WaitsAtFiles ==
  ASSUME IInv, OrderInv, NEW t \in Tx, NEW u \in Tx, NEW v \in Tx,
         u \in WaitsFor(t), v \in WaitsFor(u), WaitsFor(v) # {}
  PROVE  /\ At(u, "lockFiles") /\ tx[u].todo # {}
         /\ \E f \in rows : IsNext(f, tx[u].todo) /\ flock[f] = v
PROOF
<1>0. Typed /\ LockOrder(u) /\ ArticleInv(u) /\ u # None
  BY LifecycleAssumptions DEF IInv, OrderInv, TxInv
<1>1. Held(u) # {} \/ (\E a \in Articles : alock[a] = u)
  <2>1. (\E f : f \in rows /\ flock[f] = u) \/ (alock[tx[t].art] = u /\ tx[t].op \in ArticleOps)
    <3>0. tx[t].op \in OpOf(tx[t].pc)
      BY DEF IInv, TxInv
    <3>1. CASE At(t, "find")
      BY <3>1 DEF WaitsFor, At, FilesLocked
    <3>2. CASE At(t, "lockArticle")
      BY <3>0, <3>2 DEF WaitsFor, At, FilesLocked, OpOf, ArticleOps
    <3>3. CASE FilesLocked(t, "create")
      BY <3>3 DEF WaitsFor, At, FilesLocked, ArticleOps
    <3>4. CASE At(t, "lockFiles") /\ ~FilesLocked(t, "create")
      BY <3>4 DEF WaitsFor, At
    <3>5. QED BY <3>1, <3>2, <3>3, <3>4 DEF WaitsFor, FilesLocked
  <2>2. tx[t].op \in ArticleOps => tx[t].art \in Articles
    BY DEF IInv, TxInv, ArticleInv
  <2>3. QED BY <1>0, <2>1, <2>2 DEF Held, Typed
<1>2. tx[u].pc \in {"find", "lockArticle", "lockFiles"}
  BY DEF WaitsFor, At, FilesLocked
<1>3. At(u, "lockFiles")
  BY <1>0, <1>1, <1>2 DEF LockOrder, HoldsArticle, At
<1>4. ~(FilesLocked(u, "create") /\ tx[u].art \notin articles)
  <2> SUFFICES ASSUME FilesLocked(u, "create"), tx[u].art \notin articles PROVE FALSE
    OBVIOUS
  <2>1. PICK a : a = tx[u].art
    OBVIOUS
  <2>2. v = alock[a] /\ a \in Articles
    BY <1>0, <2>1 DEF WaitsFor, FilesLocked, At, ArticleInv, ArticleOps
  <2>3. HoldsArticle(v) /\ tx[v].art = a /\ ArticleInv(v)
    BY <2>2 DEF OrderInv, LockOrder, IInv, TxInv
  <2>4. tx[v].op = "create"
    BY <2>1, <2>3 DEF ArticleInv, HoldsArticle, ArticleOps
  <2>5. tx[v].pc \in {"sync", "commit"}
    BY <2>3, <2>4 DEF HoldsArticle
  <2>6. QED BY <2>5 DEF WaitsFor, FilesLocked, At
<1>5. v \in {flock[f] : f \in {g \in rows : IsNext(g, tx[u].todo)}} /\ tx[u].todo # {}
  BY <1>3, <1>4 DEF WaitsFor, At
<1>6. QED BY <1>3, <1>5

(* No set of transactions waits in a circle. *)
LEMMA NoCircle ==
  ASSUME IInv, OrderInv
  PROVE  NoCircularWait
PROOF
<1> SUFFICES ASSUME NEW S \in SUBSET Tx, S # {}, \A t \in S : WaitsFor(t) \cap S # {} PROVE FALSE
  BY DEF NoCircularWait
<1> DEFINE AtFile(u, f) == f \in rows /\ IsNext(f, tx[u].todo)
           W == {u \in S : At(u, "lockFiles") /\ tx[u].todo # {}
                           /\ \E f \in rows : IsNext(f, tx[u].todo) /\ flock[f] \in S}
           next == [u \in W |-> CHOOSE f : AtFile(u, f)]
           F == {next[u] : u \in W}
<1>0. rows \subseteq Files /\ Files \subseteq Nat /\ tx \in [Tx -> TxState]
  BY LifecycleAssumptions DEF IInv, Typed
<1>1. ASSUME NEW t \in S, NEW u \in WaitsFor(t) \cap S PROVE u \in W
  <2>1. PICK v \in WaitsFor(u) : v \in S
    OBVIOUS
  <2>2. WaitsFor(v) # {}
    BY <2>1
  <2>3. QED BY <2>1, <2>2, WaitsAtFiles
<1>2. W # {}
  <2>1. PICK t \in S : TRUE
    OBVIOUS
  <2>2. QED BY <1>1, <2>1
<1>3. \A u \in W : AtFile(u, next[u]) /\ next[u] \in F
  OBVIOUS
<1>4. \A u \in W : \A f, g : AtFile(u, f) /\ AtFile(u, g) => f = g
  <2> SUFFICES ASSUME NEW u \in W, NEW f, NEW g, AtFile(u, f), AtFile(u, g) PROVE f = g
    OBVIOUS
  <2>1. f \in Nat /\ g \in Nat
    BY <1>0
  <2>2. f <= g /\ g <= f
    BY DEF IsNext
  <2>3. QED BY <2>1, <2>2
<1>5. ASSUME NEW u \in W PROVE \E v \in W : next[u] < next[v]
  <2>1. PICK f \in rows : IsNext(f, tx[u].todo) /\ flock[f] \in S
    OBVIOUS
  <2>2. f = next[u]
    BY <1>3, <1>4, <2>1
  <2>3. PICK v \in S : v = flock[f]
    BY <2>1
  <2>4. v \in WaitsFor(u)
    <3>1. v # None /\ At(u, "lockFiles") /\ tx[u].todo # {}
      BY <2>3, LifecycleAssumptions
    <3>2. v \in {flock[g] : g \in {h \in rows : IsNext(h, tx[u].todo)}} \ {None}
      BY <2>1, <2>3, <3>1
    <3>3. WaitsFor(u) = {flock[g] : g \in {h \in rows : IsNext(h, tx[u].todo)}} \ {None}
      BY <3>1 DEF WaitsFor, FilesLocked, At
    <3>4. QED BY <3>2, <3>3
  <2>5. v \in W
    BY <1>1, <2>3, <2>4
  <2>6. f \in Held(v)
    BY <1>0, <2>1, <2>3 DEF Held
  <2>7. next[v] \in tx[v].todo
    BY <1>3, <2>5 DEF IsNext
  <2>8. f < next[v]
    BY <2>5, <2>6, <2>7 DEF OrderInv, LockOrder
  <2>9. QED BY <2>2, <2>5, <2>8
<1>6. F \subseteq Nat /\ F # {}
  BY <1>0, <1>2, <1>3
<1>7. IsFiniteSet(F)
  <2>1. W \subseteq Busy
    BY DEF Busy, At
  <2>2. IsFiniteSet(W)
    BY <2>1, FS_Subset DEF OrderInv
  <2>3. next \in Surjection(W, F)
    <3> HIDE DEF W
    <3>1. next \in [W -> F] /\ \A f \in F : \E u \in W : next[u] = f
      OBVIOUS
    <3> HIDE DEF next, F
    <3>2. QED BY <3>1 DEF Surjection
  <2> HIDE DEF W, next, F
  <2>4. QED BY <2>2, <2>3, FS_Surjection
<1>8. PICK m \in F : \A n \in F : n <= m
  <2> HIDE DEF F
  <2> QED BY <1>6, <1>7, LargestExists
<1>9. PICK u \in W : m = next[u]
  OBVIOUS
<1>10. PICK v \in W : next[u] < next[v]
  BY <1>5
<1>11. next[v] \in F
  BY <1>3
<1> HIDE DEF W, next, F
<1>12. PICK n \in F : n = next[v]
  BY <1>11
<1>13. m \in Nat /\ n \in Nat /\ n <= m /\ m < n
  BY <1>6, <1>8, <1>9, <1>10, <1>12
<1>14. QED BY <1>13

(* Article rows are locked before file rows and file rows in id order, so no
   set of requests and cleanup runs waits in a circle, however many run at once
   and whatever files they name (lock_files, ORDER BY id). *)
THEOREM NoCircularWaitHolds == Spec => []NoCircularWait
<1>1. Init => OrderInv
  <2> SUFFICES ASSUME Init PROVE OrderInv
    OBVIOUS
  <2>1. Busy = {}
    BY DEF Init, Busy, At, Idle
  <2>2. \A t \in Tx : LockOrder(t)
    BY LifecycleAssumptions DEF Init, LockOrder, Held, At, Idle
  <2>3. QED BY <2>1, <2>2, FS_EmptySet DEF OrderInv
<1>2. IInv /\ OrderInv /\ [Next]_vars => OrderInv'
  <2> SUFFICES ASSUME IInv, OrderInv, [Next]_vars PROVE OrderInv'
    OBVIOUS
  <2>1. ASSUME NEW t \in Tx, Request(t) PROVE OrderInv'
    BY <2>1, BeginOrder
  <2>2. ASSUME NEW t \in Tx, Step(t) \/ Fault(t) \/ Commit(t) PROVE OrderInv'
    BY <2>2, StepOrder
  <2>3. CASE Tick \/ UNCHANGED vars
    BY <2>3 DEF Tick, vars, OrderInv, LockOrder, Busy, Held, HoldsArticle, At
  <2>4. QED BY <2>1, <2>2, <2>3 DEF Next
<1>3. IInv /\ OrderInv => NoCircularWait
  BY NoCircle
<1>4. QED BY <1>1, <1>2, <1>3, InvariantHolds, PTL DEF Spec

-----------------------------------------------------------------------------
(* The retention promise *)

(* The clock of a transaction: it began in the past, not too long ago. *)
Recent(t) == ~At(t, "idle") => tx[t].start <= now /\ now <= tx[t].start + MaxLatency

(* What a transaction has seen of orphaned_at under the row lock: an upload
   that leaves its duplicate's marker alone found it in use, and a cleanup run
   has locked expired files only. *)
MarkersSeen(t) ==
  /\ tx[t].op = "upload" /\ At(t, "commit") /\ tx[t].ins = {} =>
       /\ flock[tx[t].file] = t
       /\ tx[t].orphan = {} => orphaned[tx[t].file] = None
  /\ tx[t].op = "prune" => \A f \in Held(t) : orphaned[f] + Retention < tx[t].start

(* A marker is at most one latency older than the promise it stands for. *)
PromiseInv ==
  /\ promised \in [Files -> Times \cup {None}]
  /\ \A f \in Files : promised[f] # None =>
       /\ promised[f] <= now
       /\ orphaned[f] # None => promised[f] <= orphaned[f] + MaxLatency

GraceInv == (\A t \in Tx : Recent(t) /\ MarkersSeen(t)) /\ PromiseInv

-----------------------------------------------------------------------------
(* A step of t that leaves what the others have seen alone *)
Unseen(t) ==
  /\ now' = now
  /\ \A f \in Files : flock[f] # None /\ flock[f] # t => orphaned'[f] = orphaned[f]

(* Such a step keeps what the others have seen. *)
LEMMA OthersSeen ==
  ASSUME IInv, NEW t \in Tx, NEW u \in Tx, u # t, OwnStep(t), Unseen(t), Recent(u), MarkersSeen(u)
  PROVE  Recent(u)' /\ MarkersSeen(u)'
PROOF
<1>1. /\ tx'[u] = tx[u] /\ Held(u)' = Held(u) /\ u # None
      /\ \A f \in Files : flock'[f] = u <=> flock[f] = u
  BY LifecycleAssumptions DEF OwnStep, Held
<1>2. \A f \in Held(u) : orphaned'[f] = orphaned[f]
  BY <1>1 DEF Unseen, Held
<1>3. Recent(u)'
  BY <1>1 DEF Recent, At, Unseen
<1>4. tx[u].op = "upload" => tx[u].file \in Files
  BY DEF IInv, TxInv, UploadInv
<1>5. MarkersSeen(u)'
  <2>1. ASSUME tx[u].op = "upload", At(u, "commit"), tx[u].ins = {}
        PROVE  flock'[tx[u].file] = u /\ (tx[u].orphan = {} => orphaned'[tx[u].file] = None)
    <3>1. tx[u].file \in Held(u) /\ flock[tx[u].file] = u
      BY <1>4, <2>1 DEF MarkersSeen, Held
    <3>2. QED BY <1>1, <1>2, <1>4, <2>1, <3>1 DEF MarkersSeen
  <2>2. tx[u].op = "prune" => \A f \in Held(u) : orphaned'[f] + Retention < tx[u].start
    BY <1>2 DEF MarkersSeen
  <2>3. QED BY <1>1, <2>1, <2>2 DEF MarkersSeen, At
<1>6. QED BY <1>3, <1>5

(* What Commit writes to orphaned_at is locked by the transaction that
   commits, or is a new row nobody else has heard of. *)
LEMMA CommitsOwnMarkers ==
  ASSUME IInv, NEW t \in Tx, At(t, "commit"), NEW f \in tx[t].attach \cup tx[t].orphan
  PROVE  flock[f] = t \/ flock[f] = None
PROOF
<1>1. /\ UploadInv(t) /\ ArticleInv(t) /\ DeleteInv(t) /\ DbInv
      /\ tx[t].op \in AllOps /\ tx[t] \in TxState
  BY DEF IInv, Typed, TxInv, OpOf, At
<1>2. CASE tx[t].op = "upload"
  <2>1. CASE tx[t].ins = {}
    BY <1>1, <1>2, <2>1 DEF UploadInv
  <2>2. CASE tx[t].ins # {}
    <3>1. f = tx[t].file /\ f \in Files /\ f \notin known
      BY <1>1, <1>2, <2>2 DEF UploadInv, Reserved
    <3>2. QED BY <1>1, <3>1 DEF DbInv
  <2>3. QED BY <2>1, <2>2
<1>3. CASE tx[t].op \in ArticleOps
  <2>1. /\ f \in tx[t].old \cup tx[t].want /\ tx[t].todo = {} /\ tx[t].want \subseteq rows
        /\ HoldsArticle(t)
    BY <1>1, <1>3 DEF ArticleInv, At, HoldsArticle, ArticleOps
  <2>2. tx[t].old \subseteq rows
    BY <1>1, <1>3, <2>1 DEF ArticleInv, DbInv
  <2>3. QED BY <1>1, <1>3, <2>1, <2>2 DEF ArticleInv, At
<1>4. CASE tx[t].op \in {"rename", "deleteFile", "prune"}
  BY <1>1, <1>4 DEF DeleteInv
<1>5. QED BY <1>1, <1>2, <1>3, <1>4 DEF AllOps, ArticleOps

(* A transaction that goes on keeps its own part, unless it finds a duplicate
   or locks a candidate of the cleanup. *)
LEMMA OwnSeen ==
  ASSUME IInv, GraceInv, NEW t \in Tx, NEW y, tx' = [tx EXCEPT ![t] = y],
         flock' = flock, alock' = alock, orphaned' = orphaned, now' = now,
         promised' = promised, ~At(t, "idle"),
         y.op = tx[t].op, y.start = tx[t].start,
         tx[t].op = "upload" => y.pc # "commit" \/ y.ins # {}
  PROVE  GraceInv'
PROOF
<1>1. tx'[t] = y /\ OwnStep(t) /\ Unseen(t) /\ Held(t)' = Held(t)
  BY DEF IInv, Typed, OwnStep, Unseen, Held
<1>2. Recent(t)' /\ MarkersSeen(t)'
  BY <1>1 DEF GraceInv, Recent, MarkersSeen, At
<1>3. PromiseInv'
  BY DEF GraceInv, PromiseInv
<1>4. QED BY <1>1, <1>2, <1>3, OthersSeen DEF GraceInv

(* A transaction that ends without a commit has nothing to keep. *)
LEMMA RollbackSeen ==
  ASSUME IInv, GraceInv, NEW t \in Tx, NEW stored, Rollback(t, stored), promised' = promised
  PROVE  GraceInv'
PROOF
<1>0. (\A u \in Tx : u # None) /\ flock \in [Files -> Tx \cup {None}] /\ tx \in [Tx -> TxState]
  BY LifecycleAssumptions DEF IInv, Typed
<1>1. tx'[t] = Idle /\ OwnStep(t) /\ Unseen(t) /\ orphaned' = orphaned
  BY <1>0 DEF IInv, Typed, Rollback, Release, OwnStep, Unseen, db
<1>2. Recent(t)' /\ MarkersSeen(t)'
  BY <1>1 DEF Recent, MarkersSeen, At, Idle
<1>3. PromiseInv'
  BY <1>1 DEF GraceInv, PromiseInv, Rollback
<1>4. QED BY <1>1, <1>2, <1>3, OthersSeen DEF GraceInv

(* A request begins at the current time and has seen no marker. *)
LEMMA RequestSeen ==
  ASSUME IInv, GraceInv, NEW t \in Tx, Request(t), promised' = promised
  PROVE  GraceInv'
PROOF
<1>0. now \in Nat /\ MaxLatency \in Nat /\ tx \in [Tx -> TxState]
  BY LifecycleAssumptions DEF IInv, Typed, Times
<1>1. /\ At(t, "idle") /\ UNCHANGED <<flock, alock, orphaned, now>>
      /\ \E y : tx' = [tx EXCEPT ![t] = y] /\ y.start = now /\ y.pc # "commit"
  <2> DEFINE Begun == /\ At(t, "idle") /\ UNCHANGED <<flock, alock, orphaned, now>>
                      /\ \E y : tx' = [tx EXCEPT ![t] = y] /\ y.start = now /\ y.pc # "commit"
  <2>1. ASSUME NEW op, NEW rec, Begin(t, op, rec), rec.start = now, rec.pc # "commit" PROVE Begun
    BY <2>1 DEF Begin, db
  <2> HIDE DEF Begun
  <2>2. ASSUME UploadBegin(t) PROVE Begun
    BY <2>1, <2>2 DEF UploadBegin, Idle
  <2>3. ASSUME RenameFileBegin(t) \/ DeleteFileBegin(t) PROVE Begun
    BY <2>1, <2>3 DEF RenameFileBegin, DeleteFileBegin, Idle
  <2>4. ASSUME CreateArticleBegin(t) PROVE Begun
    BY <2>1, <2>4 DEF CreateArticleBegin, Idle
  <2>5. ASSUME UpdateArticleBegin(t) PROVE Begun
    BY <2>1, <2>5 DEF UpdateArticleBegin, Idle
  <2>6. ASSUME DeleteArticleBegin(t) \/ PruneBegin(t) PROVE Begun
    BY <2>1, <2>6 DEF DeleteArticleBegin, PruneBegin, Idle
  <2>7. Begun
    BY <2>2, <2>3, <2>4, <2>5, <2>6 DEF Request
  <2>8. QED BY <2>7 DEF Begun
<1>2. OwnStep(t) /\ Unseen(t) /\ tx'[t].start = now /\ tx'[t].pc # "commit"
  BY <1>0, <1>1 DEF OwnStep, Unseen
<1>3. Held(t)' = {}
  BY <1>1 DEF IInv, TxInv, IdleInv, Held
<1>4. Recent(t)' /\ MarkersSeen(t)'
  BY <1>0, <1>1, <1>2, <1>3 DEF Recent, MarkersSeen, At
<1>5. PromiseInv'
  BY <1>1 DEF GraceInv, PromiseInv
<1>6. QED BY <1>2, <1>4, <1>5, OthersSeen DEF GraceInv

(* The two steps that take a file lock after reading the marker under it *)
LEMMA LockSeen ==
  ASSUME IInv, GraceInv, NEW t \in Tx, UploadFindDuplicate(t) \/ PruneLockCandidate(t),
         promised' = promised
  PROVE  GraceInv'
PROOF
<1>0. /\ tx \in [Tx -> TxState] /\ flock \in [Files -> Tx \cup {None}] /\ rows \subseteq Files
      /\ (\A u \in Tx : u # None) /\ tx[t].op \in OpOf(tx[t].pc) /\ MarkersSeen(t) /\ Recent(t)
      /\ ~At(t, "idle")
  BY LifecycleAssumptions
  DEF IInv, Typed, TxInv, GraceInv, UploadFindDuplicate, PruneLockCandidate, At
<1>1. CASE UploadFindDuplicate(t)
  <2>1. PICK f \in tx[t].todo :
          \/ f \notin rows /\ Private(t, [tx[t] EXCEPT !.todo = @ \ {f}])
          \/ /\ f \in rows /\ flock[f] = None
             /\ flock' = [flock EXCEPT ![f] = t]
             /\ tx' = [tx EXCEPT ![t].file = f, ![t].pc = "commit",
                                 ![t].orphan = IF orphaned[f] # None THEN {f} ELSE {}]
             /\ UNCHANGED <<db, objects, known, alock, now, broken>>
    BY <1>1 DEF UploadFindDuplicate
  <2>2. At(t, "find") /\ tx[t].op = "upload"
    BY <1>0, <1>1 DEF UploadFindDuplicate, OpOf, At
  <2>3. CASE f \notin rows /\ Private(t, [tx[t] EXCEPT !.todo = @ \ {f}])
    <3>1. PICK y : y = [tx[t] EXCEPT !.todo = @ \ {f}]
      OBVIOUS
    <3>2. y.op = tx[t].op /\ y.start = tx[t].start /\ y.pc = tx[t].pc
      BY <1>0, <3>1 DEF TxState
    <3>3. QED BY <1>0, <2>2, <2>3, <3>1, <3>2, OwnSeen DEF Private, At, db
  <2>4. CASE /\ f \in rows /\ flock[f] = None
             /\ flock' = [flock EXCEPT ![f] = t]
             /\ tx' = [tx EXCEPT ![t].file = f, ![t].pc = "commit",
                                 ![t].orphan = IF orphaned[f] # None THEN {f} ELSE {}]
             /\ UNCHANGED <<db, objects, known, alock, now, broken>>
    <3>1. /\ tx'[t].op = "upload" /\ tx'[t].start = tx[t].start /\ tx'[t].file = f
          /\ tx'[t].orphan = IF orphaned[f] # None THEN {f} ELSE {}
      BY <1>0, <2>2, <2>4 DEF TxState
    <3>2. OwnStep(t) /\ Unseen(t) /\ flock'[f] = t /\ orphaned' = orphaned /\ now' = now
      BY <1>0, <2>4 DEF OwnStep, Unseen, db
    <3>3. Recent(t)' /\ MarkersSeen(t)'
      BY <1>0, <3>1, <3>2 DEF Recent, MarkersSeen, At
    <3>4. PromiseInv'
      BY <3>2 DEF GraceInv, PromiseInv
    <3>5. QED BY <3>2, <3>3, <3>4, OthersSeen DEF GraceInv
  <2>5. QED BY <2>1, <2>3, <2>4
<1>2. CASE PruneLockCandidate(t)
  <2>1. PICK f \in tx[t].todo :
          /\ flock' = IF f \in rows /\ flock[f] = None /\ Expired(f, tx[t].start)
                      THEN [flock EXCEPT ![f] = t] ELSE flock
          /\ tx' = [tx EXCEPT ![t].todo = @ \ {f}]
          /\ UNCHANGED <<db, objects, known, alock, now, broken>>
    BY <1>2 DEF PruneLockCandidate
  <2>2. tx[t].op = "prune"
    BY <1>0, <1>2 DEF PruneLockCandidate, OpOf, At
  <2>3. tx'[t].op = tx[t].op /\ tx'[t].start = tx[t].start /\ tx'[t].pc = tx[t].pc
    BY <1>0, <2>1 DEF TxState
  <2>4. OwnStep(t) /\ Unseen(t) /\ orphaned' = orphaned /\ now' = now
    BY <1>0, <2>1 DEF OwnStep, Unseen, db
  <2>5. \A g \in Held(t)' : g \in Held(t) \/ (g = f /\ Expired(f, tx[t].start))
    BY <1>0, <2>1 DEF Held
  <2>6. Recent(t)' /\ MarkersSeen(t)'
    BY <1>0, <2>2, <2>3, <2>4, <2>5 DEF Recent, MarkersSeen, At, Expired
  <2>7. PromiseInv'
    BY <2>4 DEF GraceInv, PromiseInv
  <2>8. QED BY <2>4, <2>6, <2>7, OthersSeen DEF GraceInv
<1>3. QED BY <1>1, <1>2

(* Every other step of a transaction *)
LEMMA StepSeen ==
  ASSUME IInv, GraceInv, NEW t \in Tx, Step(t) \/ Fault(t), promised' = promised
  PROVE  GraceInv'
PROOF
<1>0. /\ tx \in [Tx -> TxState] /\ tx[t].op \in OpOf(tx[t].pc) /\ UploadInv(t)
  BY DEF IInv, Typed, TxInv
<1>r. \A stored : Rollback(t, stored) => GraceInv'
  BY RollbackSeen
<1>a. ASSUME \E y : tx' = [tx EXCEPT ![t] = y],
             UNCHANGED <<flock, alock, orphaned, now>>,
             tx'[t].op = tx[t].op, tx'[t].start = tx[t].start, ~At(t, "idle"),
             tx[t].op = "upload" => tx'[t].pc # "commit" \/ tx'[t].ins # {}
      PROVE  GraceInv'
  <2>1. PICK y : tx' = [tx EXCEPT ![t] = y]
    BY <1>a
  <2>2. y = tx'[t]
    BY <1>0, <2>1
  <2>3. QED BY <1>a, <2>1, <2>2, OwnSeen
<1> USE DEF At
<1>1. CASE UploadFindDuplicate(t) \/ PruneLockCandidate(t)
  BY <1>1, LockSeen
<1>2. CASE LockArticle(t)
  <2>1. PICK y : y = [tx[t] EXCEPT !.old = uses[tx[t].art],
                            !.todo = IF tx[t].op = "deleteArticle" THEN uses[tx[t].art] ELSE {},
                            !.pc = IF tx[t].op = "deleteArticle" THEN "lockFiles" ELSE "validate"]
    OBVIOUS
  <2>2. /\ tx' = [tx EXCEPT ![t] = y] /\ flock' = flock /\ orphaned' = orphaned /\ now' = now
        /\ promised' = promised
    BY <1>0, <1>2, <2>1 DEF LockArticle, db
  <2>3. OwnStep(t) /\ Unseen(t) /\ tx[t].op \in {"update", "deleteArticle"}
        /\ tx'[t].op = tx[t].op /\ tx'[t].start = tx[t].start /\ ~At(t, "idle")
    <3>1. /\ alock[tx[t].art] = None /\ alock' = [alock EXCEPT ![tx[t].art] = t]
          /\ At(t, "lockArticle")
      BY <1>2 DEF LockArticle
    <3>2. OwnStep(t) /\ Unseen(t)
      BY <1>0, <2>2, <3>1, LifecycleAssumptions DEF OwnStep, Unseen, IInv, Typed
    <3>3. QED BY <1>0, <2>1, <2>2, <3>1, <3>2 DEF OpOf, TxState
  <2>4. Held(t)' = Held(t)
    BY <2>2 DEF Held
  <2>5. Recent(t)' /\ MarkersSeen(t)'
    BY <2>2, <2>3, <2>4 DEF GraceInv, Recent, MarkersSeen
  <2>6. PromiseInv'
    BY <2>2 DEF GraceInv, PromiseInv
  <2>7. QED BY <2>3, <2>5, <2>6, OthersSeen DEF GraceInv
<1>3. CASE InsertArticle(t)
  <2>1. CASE /\ alock[tx[t].art] = None /\ alock' = [alock EXCEPT ![tx[t].art] = t]
             /\ tx' = [tx EXCEPT ![t].pc = "sync"]
             /\ UNCHANGED <<db, objects, known, flock, now, broken>>
    <3>1. /\ tx'[t].op = tx[t].op /\ tx'[t].start = tx[t].start /\ tx[t].op = "create"
          /\ tx[t].pc = "lockFiles"
      BY <1>0, <1>3, <2>1 DEF InsertArticle, FilesLocked, TxState
    <3>2. OwnStep(t) /\ Unseen(t)
      BY <1>0, <2>1, LifecycleAssumptions DEF OwnStep, Unseen, IInv, Typed, db
    <3>3. Held(t)' = Held(t) /\ orphaned' = orphaned /\ now' = now
      BY <2>1 DEF Held, db
    <3>4. Recent(t)' /\ MarkersSeen(t)'
      BY <3>1, <3>3 DEF GraceInv, Recent, MarkersSeen
    <3>5. PromiseInv'
      BY <3>3 DEF GraceInv, PromiseInv
    <3>6. QED BY <3>2, <3>4, <3>5, OthersSeen DEF GraceInv
  <2>2. QED BY <1>3, <1>r, <2>1 DEF InsertArticle
<1>4. CASE LockNextFile(t)
  <2>1. PICK f \in tx[t].todo :
          /\ f \in rows => flock[f] = None
          /\ flock' = IF f \in rows THEN [flock EXCEPT ![f] = t] ELSE flock
          /\ tx' = [tx EXCEPT ![t].todo = @ \ {f}]
          /\ UNCHANGED <<db, objects, known, alock, now, broken>>
    BY <1>4 DEF LockNextFile
  <2>2. tx[t].pc = "lockFiles" /\ tx[t].op \notin {"upload", "prune"} /\ tx[t].op # "none"
    BY <1>0, <1>4 DEF LockNextFile, OpOf, ArticleOps
  <2>3. tx'[t].op = tx[t].op /\ tx'[t].start = tx[t].start
    BY <1>0, <2>1 DEF TxState
  <2>4. OwnStep(t) /\ Unseen(t) /\ orphaned' = orphaned /\ now' = now
    BY <1>0, <2>1, LifecycleAssumptions DEF OwnStep, Unseen, IInv, Typed, db
  <2>5. Recent(t)' /\ MarkersSeen(t)'
    BY <2>2, <2>3, <2>4 DEF GraceInv, Recent, MarkersSeen
  <2>6. PromiseInv'
    BY <2>4 DEF GraceInv, PromiseInv
  <2>7. QED BY <2>4, <2>5, <2>6, OthersSeen DEF GraceInv
<1>5. CASE EnsureFilesAllowed(t)
  <2>1. CASE Private(t, [tx[t] EXCEPT !.pc = "lockFiles", !.todo = tx[t].old \cup tx[t].want])
    BY <1>0, <1>5, <1>a, <2>1 DEF EnsureFilesAllowed, Private, TxState, db
  <2>2. QED BY <1>5, <1>r, <2>1 DEF EnsureFilesAllowed
<1>6. CASE UploadCreateRow(t)
  BY <1>0, <1>6, <1>a DEF UploadCreateRow, Private, TxState, db
<1>7. CASE UploadPutObject(t)
  <2>1. tx' = [tx EXCEPT ![t] = [tx[t] EXCEPT !.pc = "commit"]]
    BY <1>0, <1>7 DEF UploadPutObject
  <2>2. tx[t].op = "upload" => tx[t].ins # {}
    BY <1>0, <1>7 DEF UploadPutObject, UploadInv
  <2>3. PICK y : y = [tx[t] EXCEPT !.pc = "commit"]
    OBVIOUS
  <2>4. y.op = tx[t].op /\ y.start = tx[t].start /\ y.ins = tx[t].ins
    BY <1>0, <2>3 DEF TxState
  <2>5. tx' = [tx EXCEPT ![t] = y] /\ tx'[t] = y
    BY <1>0, <2>1, <2>3
  <2>6. ~At(t, "idle") /\ UNCHANGED <<flock, alock, orphaned, now>>
    BY <1>7 DEF UploadPutObject, At, db
  <2>7. QED BY <1>a, <2>2, <2>4, <2>5, <2>6
<1>8. CASE UpdateArticleRow(t)
  <2>1. CASE Private(t, [tx[t] EXCEPT !.pc = "sync"])
    BY <1>0, <1>8, <1>a, <2>1 DEF UpdateArticleRow, FilesLocked, Private, TxState, db
  <2>2. QED BY <1>8, <1>r, <2>1 DEF UpdateArticleRow
<1>9. CASE DeleteArticleRow(t)
  BY <1>0, <1>9, <1>a DEF DeleteArticleRow, FilesLocked, Private, TxState, db
<1>10. CASE SyncFileUsages(t)
  BY <1>0, <1>10, <1>a DEF SyncFileUsages, Private, TxState, OpOf, ArticleOps, db
<1>11. CASE RenameFile(t)
  <2>1. CASE Private(t, [tx[t] EXCEPT !.pc = "commit"])
    BY <1>0, <1>11, <1>a, <2>1 DEF RenameFile, FilesLocked, Private, TxState, db
  <2>2. QED BY <1>11, <1>r, <2>1 DEF RenameFile
<1>12. CASE DeleteFileCheck(t)
  <2>1. CASE Private(t, [tx[t] EXCEPT !.pc = "s3delete"])
    BY <1>0, <1>12, <1>a, <2>1 DEF DeleteFileCheck, FilesLocked, Private, TxState, db
  <2>2. QED BY <1>12, <1>r, <2>1 DEF DeleteFileCheck
<1>13. CASE DeleteObject(t)
  <2>1. tx' = [tx EXCEPT ![t] = [tx[t] EXCEPT !.gone = @ \cup {tx[t].file}, !.pc = "rowDelete"]]
    BY <1>0, <1>13 DEF DeleteObject
  <2>2. QED BY <1>0, <1>13, <1>a, <2>1 DEF DeleteObject, TxState, db
<1>14. CASE DeleteRow(t)
  <2>1. tx[t].op \in {"deleteFile", "prune"} /\ tx[t].pc = "rowDelete"
    BY <1>0, <1>14 DEF DeleteRow, OpOf
  <2>2. CASE Private(t, [tx[t] EXCEPT !.del = @ \cup {tx[t].file},
                                     !.pc = IF tx[t].op = "prune" THEN "prune" ELSE "commit"])
    BY <1>0, <1>a, <2>1, <2>2 DEF Private, TxState, db
  <2>3. QED BY <1>14, <1>r, <2>2 DEF DeleteRow
<1>15. CASE PruneScanned(t)
  BY <1>0, <1>15, <1>a DEF PruneScanned, Private, TxState, OpOf, db
<1>16. CASE PruneFile(t)
  <2>1. tx[t].op = "prune" /\ tx[t].pc = "prune"
    BY <1>0, <1>16 DEF PruneFile, OpOf
  <2>2. PICK f \in tx[t].todo :
          \/ Private(t, [tx[t] EXCEPT !.todo = @ \ {f}, !.attach = @ \cup {f}])
          \/ Private(t, [tx[t] EXCEPT !.todo = @ \ {f}, !.file = f, !.pc = "s3delete"])
    BY <1>16 DEF PruneFile
  <2>3. CASE Private(t, [tx[t] EXCEPT !.todo = @ \ {f}, !.attach = @ \cup {f}])
    BY <1>0, <1>a, <2>1, <2>3 DEF Private, TxState, db
  <2>4. CASE Private(t, [tx[t] EXCEPT !.todo = @ \ {f}, !.file = f, !.pc = "s3delete"])
    BY <1>0, <1>a, <2>1, <2>4 DEF Private, TxState, db
  <2>5. QED BY <2>2, <2>3, <2>4
<1>17. CASE PruneDone(t)
  BY <1>0, <1>17, <1>a DEF PruneDone, Private, TxState, OpOf, db
<1>18. CASE DeleteObjectFails(t)
  <2>1. tx[t].pc = "s3delete" /\ tx[t].op \in {"deleteFile", "prune"}
    BY <1>0, <1>18 DEF DeleteObjectFails, OpOf
  <2>2. ASSUME NEW lost, tx' = [tx EXCEPT ![t].gone = @ \cup lost, ![t].pc = "prune"],
               UNCHANGED <<db, known, flock, alock, now, broken>>
        PROVE  GraceInv'
    <3>1. tx' = [tx EXCEPT ![t] = [tx[t] EXCEPT !.gone = @ \cup lost, !.pc = "prune"]]
      BY <1>0, <2>2
    <3>2. QED BY <1>0, <1>a, <2>1, <2>2, <3>1 DEF TxState, db
  <2>3. QED BY <1>18, <1>r, <2>2 DEF DeleteObjectFails
<1>19. CASE UploadPutFails(t) \/ Crash(t) \/ ArticleNotFound(t)
  BY <1>19, <1>r DEF UploadPutFails, Crash, ArticleNotFound
<1>20. QED
  BY <1>1, <1>2, <1>3, <1>4, <1>5, <1>6, <1>7, <1>8, <1>9, <1>10, <1>11, <1>12, <1>13, <1>14,
     <1>15, <1>16, <1>17, <1>18, <1>19 DEF Step, Fault

(* A commit promises the files it leaves behind, and their markers are at most
   one latency older than any earlier promise. *)
LEMMA CommitSeen ==
  ASSUME IInv, GraceInv, NEW t \in Tx, Commit(t),
         promised' = [f \in Files |->
                        IF f \in Promises(t) /\ (promised[f] = None \/ promised[f] < tx[t].start)
                        THEN tx[t].start ELSE promised[f]]
  PROVE  GraceInv'
PROOF
<1> DEFINE start == tx[t].start
<1>0. /\ tx \in [Tx -> TxState] /\ flock \in [Files -> Tx \cup {None}]
      /\ orphaned \in [Files -> Times \cup {None}] /\ (\A u \in Tx : u # None)
      /\ start \in Times /\ now \in Times /\ Times \subseteq Nat /\ None \notin Nat
      /\ MaxLatency \in Nat /\ At(t, "commit")
  BY LifecycleAssumptions DEF IInv, Typed, TxState, Times, Commit, Marker
<1>1. start <= now /\ now <= start + MaxLatency
  BY <1>0 DEF GraceInv, Recent, At
<1>2. /\ tx'[t] = Idle /\ now' = now /\ OwnStep(t)
      /\ orphaned' = [f \in Files |-> IF f \in tx[t].attach THEN None
                                     ELSE IF f \in tx[t].orphan THEN start ELSE orphaned[f]]
  BY <1>0 DEF Commit, Marker, Release, OwnStep, IInv, Typed
<1>3. Unseen(t)
  BY <1>0, <1>2, CommitsOwnMarkers DEF Unseen
<1>4. Recent(t)' /\ MarkersSeen(t)'
  BY <1>2 DEF Recent, MarkersSeen, At, Idle
<1>5. PromiseInv'
  <2>1. promised' \in [Files -> Times \cup {None}]
    BY <1>0 DEF GraceInv, PromiseInv
  <2>2. ASSUME NEW f \in Files, promised'[f] # None
        PROVE  /\ promised'[f] <= now
               /\ orphaned'[f] # None => promised'[f] <= orphaned'[f] + MaxLatency
    <3>0. /\ promised[f] \in Times \cup {None} /\ (promised[f] # None => promised[f] <= now)
          /\ promised[f] # None /\ orphaned[f] # None => promised[f] <= orphaned[f] + MaxLatency
      BY DEF GraceInv, PromiseInv
    <3>1. promised'[f] = IF f \in Promises(t) /\ (promised[f] = None \/ promised[f] < start)
                         THEN start ELSE promised[f]
      OBVIOUS
    <3>2. promised'[f] <= now /\ promised'[f] \in Nat
      BY <1>0, <1>1, <2>2, <3>0, <3>1
    <3>3. CASE f \in tx[t].attach
      BY <1>2, <3>2, <3>3
    <3>4. CASE f \in tx[t].orphan \ tx[t].attach
      <4>1. orphaned'[f] = start
        BY <1>2, <3>4
      <4>2. orphaned'[f] \in Nat /\ now <= orphaned'[f] + MaxLatency
        BY <1>0, <1>1, <4>1
      <4>3. QED BY <1>0, <3>2, <4>2
    <3>5. CASE f \in Promises(t) \ (tx[t].orphan \cup tx[t].attach)
      <4>1. tx[t].op = "upload" /\ f = tx[t].file
        BY <3>5 DEF Promises
      <4>2. tx[t].orphan = {} /\ tx[t].ins = {}
        BY <3>5, <4>1 DEF IInv, TxInv, UploadInv
      <4>3. orphaned[f] = None
        BY <1>0, <4>1, <4>2 DEF GraceInv, MarkersSeen
      <4>4. orphaned'[f] = None
        BY <1>2, <3>5, <4>3
      <4>5. QED BY <3>2, <4>4
    <3>6. CASE f \notin Promises(t) \cup tx[t].orphan \cup tx[t].attach
      <4>1. orphaned'[f] = orphaned[f] /\ promised'[f] = promised[f]
        BY <1>2, <3>1, <3>6
      <4>2. QED BY <2>2, <3>0, <3>2, <4>1
    <3>7. QED BY <3>3, <3>4, <3>5, <3>6
  <2>3. QED BY <1>2, <2>1, <2>2 DEF PromiseInv
<1>6. QED BY <1>2, <1>3, <1>4, <1>5, OthersSeen DEF GraceInv

(* The clock waits for whoever has been at work for MaxLatency. *)
LEMMA TickSeen ==
  ASSUME IInv, GraceInv, Tick, promised' = promised
  PROVE  GraceInv'
PROOF
<1>0. /\ now \in Nat /\ MaxLatency \in Nat /\ now' = now + 1 /\ UNCHANGED <<tx, flock, orphaned>>
      /\ None \notin Nat /\ Times \subseteq Nat /\ tx \in [Tx -> TxState]
  BY LifecycleAssumptions DEF IInv, Typed, Times, Tick, db
<1>1. ASSUME NEW u \in Tx PROVE Recent(u)' /\ MarkersSeen(u)'
  <2>1. tx[u].start \in Nat
    BY <1>0 DEF TxState
  <2>2. Recent(u)'
    BY <1>0, <2>1 DEF Tick, GraceInv, Recent, At
  <2>3. MarkersSeen(u)'
    BY <1>0 DEF GraceInv, MarkersSeen, Held, At
  <2>4. QED BY <2>2, <2>3
<1>2. PromiseInv'
  <2>1. ASSUME NEW f \in Files, promised[f] # None PROVE promised[f] <= now + 1
    <3>1. promised[f] \in Nat /\ promised[f] <= now
      BY <1>0, <2>1 DEF GraceInv, PromiseInv
    <3>2. QED BY <1>0, <3>1
  <2>2. QED BY <1>0, <2>1 DEF GraceInv, PromiseInv
<1>3. QED BY <1>1, <1>2 DEF GraceInv

-----------------------------------------------------------------------------
(* The inductive invariant of the retention promise is kept. *)
LEMMA GraceStep ==
  ASSUME IInv, GraceInv, [GraceNext]_graceVars
  PROVE  GraceInv' /\ [Next]_vars
PROOF
<1>1. ASSUME NEW t \in Tx, Commit(t),
             promised' = [f \in Files |->
                            IF f \in Promises(t) /\ (promised[f] = None \/ promised[f] < tx[t].start)
                            THEN tx[t].start ELSE promised[f]]
      PROVE  GraceInv' /\ Next
  BY <1>1, CommitSeen DEF Next
<1>2. ASSUME NEW t \in Tx, Request(t) \/ Step(t) \/ Fault(t), promised' = promised
      PROVE  GraceInv' /\ Next
  BY <1>2, RequestSeen, StepSeen DEF Next
<1>3. CASE Tick /\ promised' = promised
  BY <1>3, TickSeen DEF Next
<1>4. CASE UNCHANGED graceVars
  BY <1>4 DEF graceVars, vars, GraceInv, Recent, MarkersSeen, PromiseInv, Held, At
<1>5. QED BY <1>1, <1>2, <1>3, <1>4 DEF GraceNext

(* The cleanup task takes no object before the retention has passed since the
   last upload that returned the file and the last save that dropped it, but
   for the latency of one request: whatever runs at once, however often a file
   is uploaded again, attached and dropped (orphaned_at restarts in
   upload_file and sync_file_usages, prune compares it with its cutoff). *)
THEOREM GraceIsKept == GraceSpec => GraceKept
<1> DEFINE Kept == \A t \in Tx, f \in objects \ objects' :
                     /\ tx[t].op = "prune" /\ flock[f] = t
                     /\ promised[f] # None
                     => promised[f] + Retention < now + MaxLatency
<1>1. GraceInit => Init /\ IInv /\ GraceInv
  <2> SUFFICES ASSUME GraceInit PROVE Init /\ IInv /\ GraceInv
    OBVIOUS
  <2>1. Init /\ IInv
    BY InitHolds DEF GraceInit
  <2>2. GraceInv
    BY <2>1 DEF GraceInit, Init, GraceInv, Recent, MarkersSeen, PromiseInv, At, Idle
  <2>3. QED BY <2>1, <2>2
<1>2. IInv /\ GraceInv /\ [GraceNext]_graceVars => IInv' /\ GraceInv'
  BY GraceStep, StepKeeps
<1>3. ASSUME IInv, GraceInv PROVE Kept
  <2> SUFFICES ASSUME NEW t \in Tx, NEW f \in objects \ objects',
                      tx[t].op = "prune", flock[f] = t, promised[f] # None
               PROVE  promised[f] + Retention < now + MaxLatency
    OBVIOUS
  <2>1. /\ f \in Held(t) /\ Times \subseteq Nat /\ Retention \in Nat /\ MaxLatency \in Nat
        /\ now \in Nat /\ tx[t].start \in Nat /\ tx[t].op \in OpOf(tx[t].pc)
    BY <1>3, LifecycleAssumptions DEF IInv, Typed, TxInv, Times, TxState, Held
  <2>2. orphaned[f] # None /\ orphaned[f] \in Nat /\ orphaned[f] + Retention < tx[t].start
    <3>1. orphaned[f] \in Times \cup {None} /\ DeleteInv(t) /\ MarkersSeen(t)
      BY <1>3, <2>1 DEF IInv, Typed, TxInv, GraceInv, Held
    <3>2. orphaned[f] # None /\ orphaned[f] + Retention < tx[t].start
      BY <2>1, <3>1 DEF DeleteInv, Doomed, MarkersSeen
    <3>3. QED BY <2>1, <3>1, <3>2
  <2>3. tx[t].start <= now
    BY <1>3, <2>1 DEF GraceInv, Recent, OpOf, At
  <2>4. promised[f] \in Nat /\ promised[f] <= orphaned[f] + MaxLatency
    BY <1>3, <2>1, <2>2 DEF GraceInv, PromiseInv, Held
  <2>5. QED BY <2>1, <2>2, <2>3, <2>4
<1>4. QED BY <1>1, <1>2, <1>3, PTL DEF GraceSpec, GraceKept
=============================================================================
