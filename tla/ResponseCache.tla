---------------------------- MODULE ResponseCache ----------------------------
(***************************************************************************)
(* The cached public pages.  A GET that misses reads PostgreSQL and stores *)
(* its response with a time to live; an admin mutation commits, then clears *)
(* its cache domain and enqueues a warm task; workers of the warm task read *)
(* every canonical page of a domain first and write them afterwards.       *)
(* Nothing orders a store of a page with the clear of its domain.          *)
(*                                                                         *)
(* A page is known by its cache key and a version that every mutation of   *)
(* it raises; a page that is not live (unpublished, deleted) answers 404,  *)
(* which is not cached.  Time is kept as ages, so that it has no bound.    *)
(***************************************************************************)
EXTENDS Naturals, FiniteSets

CONSTANTS Domains,      \* cache domains with mutations and warm targets
          Keys,         \* cache keys
          DomainOf,     \* the domain prefix of a key
          Warmed,       \* keys the target collectors produce
          Readers,      \* concurrent GET requests
          Mutators,     \* concurrent mutation requests
          Workers,      \* concurrent warm tasks
          TTL,          \* constants.response_cache.default_ttl_seconds
          MaxLatency,   \* a page is stored at most this long after it is read
          MaxVersion,   \* bound: mutations of a page
          MaxQueue,     \* bound: warm tasks waiting per domain
          None

ASSUME CacheAssumptions ==
  /\ DomainOf \in [Keys -> Domains] /\ Warmed \subseteq Keys
  /\ TTL \in Nat \ {0} /\ MaxLatency \in Nat /\ MaxVersion \in Nat /\ MaxQueue \in Nat
  /\ None \notin [ver : Nat, age : Nat] /\ None \notin [ver : Nat, left : Nat]

VARIABLES
  page,      \* page[k]: version and liveness of the committed page
  since,     \* since[k]: time since its last mutation, up to Horizon
  cache,     \* cache[k]: stored version and time left, or None
  reader, mutator, worker,   \* private state of requests and tasks
  queue,     \* queue[d]: warm tasks waiting in the broker
  excused    \* history: keys stored from an outdated read, or whose domain
             \* was not cleared because the post-commit action failed

pageVars == <<page, since>>
vars == <<page, since, cache, reader, mutator, worker, queue, excused>>

Horizon == TTL + MaxLatency + 1
Versions == 0 .. MaxVersion
Ages == 0 .. MaxLatency

(* What was read of a page: its version, and how long ago *)
Reads == [ver : Versions, age : Ages]
Fresh(k, ver) == ver = page[k].ver

IdleReader == [pc |-> "idle", key |-> None, got |-> None]
IdleMutator == [pc |-> "idle", domain |-> None]
IdleWorker == [pc |-> "idle", todo |-> {}, got |-> [k \in Keys |-> None]]

KeysOf(d) == {k \in Keys : DomainOf[k] = d}

Init ==
  /\ page = [k \in Keys |-> [ver |-> 0, live |-> TRUE]]
  /\ since = [k \in Keys |-> Horizon]
  /\ cache = [k \in Keys |-> None]
  /\ reader = [r \in Readers |-> IdleReader]
  /\ mutator = [m \in Mutators |-> IdleMutator]
  /\ worker = [w \in Workers |-> IdleWorker]
  /\ queue = [d \in Domains |-> 0]
  /\ excused = {}

-----------------------------------------------------------------------------
(* The cached GET handlers *)

GetMiss(r, k) ==
  /\ reader[r].pc = "idle" /\ cache[k] = None
  /\ reader' = [reader EXCEPT ![r].pc = "read", ![r].key = k]
  /\ UNCHANGED <<pageVars, cache, mutator, worker, queue, excused>>

(* A page that is not live raises, and an error response is not stored. *)
ReadPage(r) ==
  /\ reader[r].pc = "read"
  /\ LET k == reader[r].key IN
     reader' = [reader EXCEPT ![r] =
                  IF page[k].live
                  THEN [pc |-> "store", key |-> k, got |-> [ver |-> page[k].ver, age |-> 0]]
                  ELSE IdleReader]
  /\ UNCHANGED <<pageVars, cache, mutator, worker, queue, excused>>

(* Deviation: the entry may live longer than the configured time. *)
StoreLonger(k, got) ==
  /\ cache' = [cache EXCEPT ![k] = [ver |-> got.ver, left |-> TTL + 1]]
  /\ excused' = IF Fresh(k, got.ver) THEN excused \ {k} ELSE excused \cup {k}

(* ResponseCacheDomainStore.set *)
Store(k, got) ==
  /\ cache' = [cache EXCEPT ![k] = [ver |-> got.ver, left |-> TTL]]
  /\ excused' = IF Fresh(k, got.ver) THEN excused \ {k} ELSE excused \cup {k}

StoreResponse(r) ==
  /\ reader[r].pc = "store"
  /\ Store(reader[r].key, reader[r].got)
  /\ reader' = [reader EXCEPT ![r] = IdleReader]
  /\ UNCHANGED <<pageVars, mutator, worker, queue>>

(* The process dies, or the store refuses the entry. *)
ReaderFails(r) ==
  /\ reader[r].pc # "idle"
  /\ reader' = [reader EXCEPT ![r] = IdleReader]
  /\ UNCHANGED <<pageVars, cache, mutator, worker, queue, excused>>

-----------------------------------------------------------------------------
(* Admin mutations *)

(* The commit; invalidate_response_cache_domain_for_mutation has added the
   post-commit action before it.  One mutation changes several pages. *)
MutateCommit(m, d, changed) ==
  /\ mutator[m].pc = "idle" /\ changed # {}
  /\ \A k \in changed : page[k].ver < MaxVersion
  /\ \E live \in [changed -> BOOLEAN] :
       page' = [k \in Keys |-> IF k \in changed
                               THEN [ver |-> page[k].ver + 1, live |-> live[k]]
                               ELSE page[k]]
  /\ since' = [k \in Keys |-> IF k \in changed THEN 0 ELSE since[k]]
  /\ mutator' = [mutator EXCEPT ![m] = [pc |-> "clear", domain |-> d]]
  /\ UNCHANGED <<cache, reader, worker, queue, excused>>

(* Deviation: the clear misses the pages outside the warm targets. *)
DeleteWarmedOnly(d) ==
  cache' = [k \in Keys |-> IF k \in KeysOf(d) \cap Warmed THEN None ELSE cache[k]]

(* delete_domain: every key of the domain's namespace, atomically *)
DeleteDomain(d) ==
  cache' = [k \in Keys |-> IF k \in KeysOf(d) THEN None ELSE cache[k]]

(* invalidate_response_cache_domain *)
ClearDomain(m) ==
  /\ mutator[m].pc = "clear"
  /\ DeleteDomain(mutator[m].domain)
  /\ mutator' = [mutator EXCEPT ![m].pc = "enqueue"]
  /\ excused' = excused \ KeysOf(mutator[m].domain)
  /\ UNCHANGED <<pageVars, reader, worker, queue>>

EnqueueWarm(m) ==
  LET d == mutator[m].domain IN
  /\ mutator[m].pc = "enqueue" /\ queue[d] < MaxQueue
  /\ queue' = [queue EXCEPT ![d] = @ + 1]
  /\ mutator' = [mutator EXCEPT ![m] = IdleMutator]
  /\ UNCHANGED <<pageVars, cache, reader, worker, excused>>

(* The post-commit action raises or its process dies: the change is
   committed all the same, a failed clear enqueues no warm task. *)
PostCommitFails(m) ==
  /\ mutator[m].pc \in {"clear", "enqueue"}
  /\ excused' = IF mutator[m].pc = "clear"
                THEN excused \cup KeysOf(mutator[m].domain) ELSE excused
  /\ mutator' = [mutator EXCEPT ![m] = IdleMutator]
  /\ UNCHANGED <<pageVars, cache, reader, worker, queue>>

(* CacheToolsUseCase.clear visits the domains one by one. *)
AdminClear(d) ==
  /\ DeleteDomain(d)
  /\ excused' = excused \ KeysOf(d)
  /\ UNCHANGED <<pageVars, reader, mutator, worker, queue>>

-----------------------------------------------------------------------------
(* The warm task *)

StartWarm(w, targets) ==
  worker' = [worker EXCEPT ![w] = [IdleWorker EXCEPT !.pc = "collect", !.todo = targets]]

(* cache_warm_domain; the broker delivers a task at least once. *)
TakeTask(w, d) ==
  /\ worker[w].pc = "idle" /\ queue[d] > 0
  /\ StartWarm(w, KeysOf(d) \cap Warmed)
  /\ \E left \in {queue[d] - 1, queue[d]} : queue' = [queue EXCEPT ![d] = left]
  /\ UNCHANGED <<pageVars, cache, reader, mutator, excused>>

(* cache_warm_all: by schedule, or by a manual warm operation *)
WarmAll(w) ==
  /\ worker[w].pc = "idle"
  /\ StartWarm(w, Warmed)
  /\ UNCHANGED <<pageVars, cache, reader, mutator, queue, excused>>

(* A page that is not live is in no list that the collectors read. *)
Target(k) == IF page[k].live THEN [ver |-> page[k].ver, age |-> 0] ELSE None

(* Of articles the tags, the tree, the list and the details; of questions the
   sheets, their lists and the details: one query after the other *)
CollectTarget(w) ==
  /\ worker[w].pc = "collect"
  /\ \E k \in worker[w].todo :
       worker' = [worker EXCEPT ![w].todo = @ \ {k}, ![w].got[k] = Target(k)]
  /\ UNCHANGED <<pageVars, cache, reader, mutator, queue, excused>>

Collected(w) ==
  /\ worker[w].pc = "collect" /\ worker[w].todo = {}
  /\ worker' = [worker EXCEPT ![w].pc = "write"]
  /\ UNCHANGED <<pageVars, cache, reader, mutator, queue, excused>>

(* ResponseCacheWarmWriter.write_target *)
WriteTarget(w) ==
  /\ worker[w].pc = "write"
  /\ \E k \in Keys :
       /\ worker[w].got[k] # None
       /\ Store(k, worker[w].got[k])
       /\ worker' = [worker EXCEPT ![w].got[k] = None]
  /\ UNCHANGED <<pageVars, reader, mutator, queue>>

WarmDone(w) ==
  /\ worker[w] = [IdleWorker EXCEPT !.pc = "write"]
  /\ worker' = [worker EXCEPT ![w] = IdleWorker]
  /\ UNCHANGED <<pageVars, cache, reader, mutator, queue, excused>>

(* The task raises (a detail page withdrawn since its list was read) or its
   worker dies. *)
WarmFails(w) ==
  /\ worker[w].pc # "idle"
  /\ worker' = [worker EXCEPT ![w] = IdleWorker]
  /\ UNCHANGED <<pageVars, cache, reader, mutator, queue, excused>>

-----------------------------------------------------------------------------
Older(got) == IF got = None THEN None ELSE [got EXCEPT !.age = @ + 1]

(* Deviation: an entry stored without expires_in *)
AgedForEver(entry) == entry

(* The store drops an entry when its expires_in has passed. *)
Aged(entry) == IF entry.left = 1 THEN None ELSE [entry EXCEPT !.left = @ - 1]

(* Time passes: entries expire.  A request or task that has read a page is
   assumed to store it within MaxLatency. *)
Tick ==
  /\ \A r \in Readers : reader[r].got # None => reader[r].got.age < MaxLatency
  /\ \A w \in Workers, k \in Keys :
       worker[w].got[k] # None => worker[w].got[k].age < MaxLatency
  /\ since' = [k \in Keys |-> IF since[k] < Horizon THEN since[k] + 1 ELSE Horizon]
  /\ cache' = [k \in Keys |-> IF cache[k] = None THEN None ELSE Aged(cache[k])]
  /\ reader' = [r \in Readers |-> [reader[r] EXCEPT !.got = Older(@)]]
  /\ worker' = [w \in Workers |-> [worker[w] EXCEPT !.got = [k \in Keys |-> Older(@[k])]]]
  /\ UNCHANGED <<page, mutator, queue, excused>>

ReaderStep(r) == ReadPage(r) \/ StoreResponse(r)
MutatorStep(m) == ClearDomain(m) \/ EnqueueWarm(m)
WorkerStep(w) == CollectTarget(w) \/ Collected(w) \/ WriteTarget(w) \/ WarmDone(w)

Next ==
  \/ \E r \in Readers : ReaderStep(r) \/ ReaderFails(r) \/ \E k \in Keys : GetMiss(r, k)
  \/ \E m \in Mutators :
       \/ MutatorStep(m) \/ PostCommitFails(m)
       \/ \E d \in Domains : \E changed \in SUBSET KeysOf(d) : MutateCommit(m, d, changed)
  \/ \E w \in Workers :
       WorkerStep(w) \/ WarmFails(w) \/ WarmAll(w) \/ \E d \in Domains : TakeTask(w, d)
  \/ \E d \in Domains : AdminClear(d)
  \/ Tick

Spec == Init /\ [][Next]_vars

(* Requests and tasks that have begun go on, and time passes. *)
FairSpec ==
  /\ Spec
  /\ \A r \in Readers : WF_vars(ReaderStep(r))
  /\ \A m \in Mutators : WF_vars(MutatorStep(m))
  /\ \A w \in Workers : WF_vars(WorkerStep(w))
  /\ WF_vars(Tick)

-----------------------------------------------------------------------------
ReaderState ==
  [pc : {"idle", "read", "store"}, key : Keys \cup {None}, got : Reads \cup {None}]
MutatorState == [pc : {"idle", "clear", "enqueue"}, domain : Domains \cup {None}]
WorkerState ==
  [pc : {"idle", "collect", "write"}, todo : SUBSET Keys, got : [Keys -> Reads \cup {None}]]

TypeOK ==
  /\ page \in [Keys -> [ver : Versions, live : BOOLEAN]]
  /\ since \in [Keys -> 0 .. Horizon]
  /\ cache \in [Keys -> [ver : Versions, left : 1 .. TTL] \cup {None}]
  /\ reader \in [Readers -> ReaderState]
  /\ mutator \in [Mutators -> MutatorState]
  /\ worker \in [Workers -> WorkerState]
  /\ queue \in [Domains -> 0 .. MaxQueue]
  /\ excused \subseteq Keys

Stale(k) == cache[k] # None /\ ~Fresh(k, cache[k].ver)

(* However stores, clears and warm tasks race and whatever fails, no page is
   served once its successor is older than the time to live and the longest
   store. *)
BoundedStaleness == \A k \in Keys : Stale(k) => since[k] < TTL + MaxLatency

(* Once the post-commit action of a mutation has run, an outdated entry can
   only come from a read that began before the commit and was stored after
   the clear: clearing after the commit leaves no other gap, and no page of
   the domain is forgotten. *)
StaleOnlyByRace ==
  \A k \in Keys : Stale(k) =>
    \/ k \in excused
    \/ \E m \in Mutators : mutator[m].pc = "clear" /\ mutator[m].domain = DomainOf[k]

(* Once mutations stop, the cache ends up with current pages only. *)
EventuallyFresh == <>[](\A k \in Keys : ~Stale(k))
=============================================================================
