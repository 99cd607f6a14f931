------------------------- MODULE ResponseCacheProofs -------------------------
(***************************************************************************)
(* The staleness bounds of ResponseCache for any number of pages, requests *)
(* and tasks, any time to live and any latency.  CInv relates the age of   *)
(* every outdated copy, in flight or stored, to the time since the page    *)
(* changed.                                                                *)
(***************************************************************************)
EXTENDS ResponseCache, TLAPS

(* A GET holds a page of its key exactly when it is about to store. *)
ReaderShape ==
  \A r \in Readers :
    /\ reader[r].pc = "read" => reader[r].key \in Keys
    /\ reader[r].got # None => reader[r].key \in Keys
    /\ reader[r].pc = "store" <=> reader[r].got # None

MutatorShape == \A m \in Mutators : mutator[m].pc # "idle" => mutator[m].domain \in Domains

(* An outdated copy was read before the page changed. *)
ReaderLag ==
  \A r \in Readers : reader[r].got # None /\ ~Fresh(reader[r].key, reader[r].got.ver)
                     => since[reader[r].key] <= reader[r].got.age

WorkerLag ==
  \A w \in Workers, k \in Keys : worker[w].got[k] # None /\ ~Fresh(k, worker[w].got[k].ver)
                                 => since[k] <= worker[w].got[k].age

(* An outdated entry was stored from such a copy, or before the change. *)
EntryLag == \A k \in Keys : Stale(k) => since[k] + cache[k].left <= TTL + MaxLatency

CInv == TypeOK /\ ReaderShape /\ MutatorShape /\ ReaderLag /\ WorkerLag /\ EntryLag /\ StaleOnlyByRace

-----------------------------------------------------------------------------
(* Storing a copy keeps what is said of the cache: the copy is at most
   MaxLatency old. *)
LEMMA StoreKeeps ==
  ASSUME CInv, NEW k \in Keys, NEW got \in Reads, Store(k, got),
         ~Fresh(k, got.ver) => since[k] <= got.age,
         UNCHANGED <<page, since, mutator>>
  PROVE  /\ cache' \in [Keys -> [ver : Versions, left : 1 .. TTL] \cup {None}]
         /\ excused' \subseteq Keys
         /\ EntryLag' /\ StaleOnlyByRace'
PROOF
<1> DEFINE entry == [ver |-> got.ver, left |-> TTL]
<1>0. /\ TTL \in Nat \ {0} /\ MaxLatency \in Nat
      /\ got.age \in Ages /\ got.ver \in Versions
      /\ since \in [Keys -> 0 .. Horizon] /\ excused \subseteq Keys
      /\ cache \in [Keys -> [ver : Versions, left : 1 .. TTL] \cup {None}]
  BY CacheAssumptions DEF CInv, TypeOK, Reads
<1>1. entry \in [ver : Versions, left : 1 .. TTL]
  BY <1>0
<1>2. cache' = [cache EXCEPT ![k] = entry]
  BY DEF Store
<1>3. cache' \in [Keys -> [ver : Versions, left : 1 .. TTL] \cup {None}] /\ excused' \subseteq Keys
  BY <1>0, <1>1, <1>2 DEF Store
<1>4. ASSUME NEW j \in Keys, Stale(j)' PROVE since'[j] + cache'[j].left <= TTL + MaxLatency
  <2>1. CASE j = k
    <3>1. cache'[j] = entry /\ since' = since /\ ~Fresh(k, got.ver)
      BY <1>0, <1>2, <1>4, <2>1 DEF Stale, Fresh
    <3>2. QED BY <1>0, <2>1, <3>1 DEF Ages
  <2>2. CASE j # k
    BY <1>0, <1>2, <1>4, <2>2 DEF CInv, EntryLag, Stale, Fresh
  <2>3. QED BY <2>1, <2>2
<1>5. ASSUME NEW j \in Keys, Stale(j)'
      PROVE  \/ j \in excused'
             \/ \E m \in Mutators : mutator'[m].pc = "clear" /\ mutator'[m].domain = DomainOf[j]
  <2>1. CASE j = k
    BY <1>0, <1>2, <1>5, <2>1 DEF Store, Stale, Fresh
  <2>2. CASE j # k
    BY <1>0, <1>2, <1>5, <2>2 DEF CInv, StaleOnlyByRace, Stale, Fresh, Store
  <2>3. QED BY <2>1, <2>2
<1>6. QED BY <1>3, <1>4, <1>5 DEF EntryLag, StaleOnlyByRace

(* Dropping entries of a domain keeps what is said of the cache. *)
LEMMA DeleteKeeps ==
  ASSUME CInv, NEW d, DeleteDomain(d), excused' = excused \ KeysOf(d), UNCHANGED <<page, since>>,
         \A m \in Mutators : \/ mutator'[m] = mutator[m]
                             \/ mutator[m].domain = d
  PROVE  /\ cache' \in [Keys -> [ver : Versions, left : 1 .. TTL] \cup {None}]
         /\ excused' \subseteq Keys
         /\ EntryLag' /\ StaleOnlyByRace'
PROOF
<1>0. cache \in [Keys -> [ver : Versions, left : 1 .. TTL] \cup {None}] /\ excused \subseteq Keys
  BY DEF CInv, TypeOK
<1>1. \A k \in Keys : cache'[k] = IF DomainOf[k] = d THEN None ELSE cache[k]
  BY DEF DeleteDomain, KeysOf
<1>2. \A k \in Keys : Stale(k)' => Stale(k) /\ DomainOf[k] # d /\ cache'[k] = cache[k]
  BY <1>1 DEF Stale, Fresh
<1>3. EntryLag'
  BY <1>2 DEF CInv, EntryLag
<1>4. StaleOnlyByRace'
  BY <1>2 DEF CInv, StaleOnlyByRace, KeysOf
<1>5. QED BY <1>0, <1>1, <1>3, <1>4 DEF DeleteDomain

(* Steps of GET requests keep the invariant. *)
LEMMA ReaderKeeps ==
  ASSUME CInv, NEW r \in Readers, ReaderStep(r) \/ ReaderFails(r) \/ \E k \in Keys : GetMiss(r, k)
  PROVE  CInv'
PROOF
<1>0. /\ reader \in [Readers -> ReaderState] /\ reader[r] \in ReaderState /\ IdleReader \in ReaderState
      /\ page \in [Keys -> [ver : Versions, live : BOOLEAN]] /\ since \in [Keys -> 0 .. Horizon]
      /\ MaxLatency \in Nat
  BY CacheAssumptions DEF CInv, TypeOK, ReaderState, IdleReader
<1>1. ASSUME NEW y \in ReaderState, reader' = [reader EXCEPT ![r] = y],
             UNCHANGED <<page, since, mutator, worker, queue>>,
             /\ cache' \in [Keys -> [ver : Versions, left : 1 .. TTL] \cup {None}]
             /\ excused' \subseteq Keys /\ EntryLag' /\ StaleOnlyByRace',
             y.pc = "read" => y.key \in Keys,
             y.pc = "store" <=> y.got # None,
             y.got # None => y.key \in Keys /\ y.got.ver = page[y.key].ver
      PROVE  CInv'
  <2>1. TypeOK'
    BY <1>0, <1>1 DEF CInv, TypeOK
  <2>2. ReaderShape' /\ MutatorShape'
    BY <1>0, <1>1 DEF CInv, ReaderShape, MutatorShape
  <2>3. ReaderLag' /\ WorkerLag'
    BY <1>0, <1>1 DEF CInv, ReaderLag, WorkerLag, Fresh
  <2>4. QED BY <1>1, <2>1, <2>2, <2>3 DEF CInv
<1>2. UNCHANGED <<page, since, cache, mutator, excused>> =>
        /\ cache' \in [Keys -> [ver : Versions, left : 1 .. TTL] \cup {None}]
        /\ excused' \subseteq Keys /\ EntryLag' /\ StaleOnlyByRace'
  BY DEF CInv, TypeOK, EntryLag, StaleOnlyByRace, Stale, Fresh
<1>3. IdleReader.pc = "idle" /\ IdleReader.got = None
  BY DEF IdleReader
<1>4. ASSUME NEW k \in Keys, GetMiss(r, k) PROVE CInv'
  <2> DEFINE y == [reader[r] EXCEPT !.pc = "read", !.key = k]
  <2>1. y \in ReaderState /\ reader' = [reader EXCEPT ![r] = y] /\ y.key = k /\ y.pc = "read" /\ y.got = reader[r].got
    BY <1>0, <1>4 DEF GetMiss, ReaderState
  <2>2. reader[r].got = None
    BY <1>0, <1>4 DEF GetMiss, CInv, ReaderShape
  <2>3. QED BY <1>1, <1>2, <1>4, <2>1, <2>2 DEF GetMiss, pageVars
<1>5. CASE ReadPage(r)
  <2> DEFINE k == reader[r].key
             y == IF page[k].live
                  THEN [pc |-> "store", key |-> k, got |-> [ver |-> page[k].ver, age |-> 0]]
                  ELSE IdleReader
  <2>1. k \in Keys /\ reader' = [reader EXCEPT ![r] = y]
    BY <1>5 DEF ReadPage, CInv, ReaderShape
  <2>2. [ver |-> page[k].ver, age |-> 0] \in Reads
    BY <1>0, <2>1 DEF Reads, Ages
  <2>3. y \in ReaderState
    BY <1>0, <2>1, <2>2 DEF ReaderState
  <2>4. [ver |-> page[k].ver, age |-> 0] # None
    BY <2>2, CacheAssumptions DEF Reads, Ages, Versions
  <2>5. QED BY <1>1, <1>2, <1>3, <1>5, <2>1, <2>3, <2>4 DEF ReadPage, pageVars
<1>6. CASE StoreResponse(r)
  <2>1. reader[r].key \in Keys /\ reader[r].got \in Reads
    BY <1>0, <1>6 DEF StoreResponse, CInv, ReaderShape, ReaderState
  <2>2. ~Fresh(reader[r].key, reader[r].got.ver) => since[reader[r].key] <= reader[r].got.age
    BY <1>6 DEF StoreResponse, CInv, ReaderLag, ReaderShape
  <2>3. QED BY <1>0, <1>1, <1>3, <1>6, <2>1, <2>2, StoreKeeps DEF StoreResponse, pageVars
<1>7. CASE ReaderFails(r)
  BY <1>0, <1>1, <1>2, <1>3, <1>7 DEF ReaderFails, pageVars
<1>8. QED BY <1>4, <1>5, <1>6, <1>7 DEF ReaderStep

(* Commits, post-commit actions and admin clears keep the invariant. *)
LEMMA MutatorKeeps ==
  ASSUME CInv, NEW m \in Mutators,
         MutatorStep(m) \/ PostCommitFails(m)
         \/ \E d \in Domains : \E changed \in SUBSET KeysOf(d) : MutateCommit(m, d, changed)
  PROVE  CInv'
PROOF
<1>0. /\ mutator \in [Mutators -> MutatorState] /\ mutator[m] \in MutatorState
      /\ IdleMutator \in MutatorState /\ IdleMutator.pc = "idle"
      /\ MaxLatency \in Nat /\ TTL \in Nat /\ MaxVersion \in Nat /\ MaxQueue \in Nat
      /\ DomainOf \in [Keys -> Domains]
  BY CacheAssumptions DEF CInv, TypeOK, MutatorState, IdleMutator
<1>1. ASSUME UNCHANGED <<page, since, reader, worker>> PROVE ReaderShape' /\ ReaderLag' /\ WorkerLag'
  BY <1>1 DEF CInv, ReaderShape, ReaderLag, WorkerLag, Fresh
<1>2. CASE ClearDomain(m)
  <2> DEFINE d == mutator[m].domain
             y == [mutator[m] EXCEPT !.pc = "enqueue"]
  <2>1. /\ y \in MutatorState /\ mutator' = [mutator EXCEPT ![m] = y] /\ y.domain = d /\ d \in Domains
        /\ \A n \in Mutators : mutator'[n] = mutator[n] \/ mutator[n].domain = d
    BY <1>0, <1>2 DEF ClearDomain, MutatorState, CInv, MutatorShape
  <2>2. /\ cache' \in [Keys -> [ver : Versions, left : 1 .. TTL] \cup {None}]
        /\ excused' \subseteq Keys /\ EntryLag' /\ StaleOnlyByRace'
    BY <1>2, <2>1, DeleteKeeps DEF ClearDomain, pageVars
  <2>3. UNCHANGED <<page, since, reader, worker, queue>>
    BY <1>2 DEF ClearDomain, pageVars
  <2>4. TypeOK'
    BY <1>0, <2>1, <2>2, <2>3 DEF CInv, TypeOK
  <2>5. MutatorShape'
    BY <1>0, <2>1 DEF CInv, MutatorShape
  <2>6. QED BY <1>1, <2>2, <2>3, <2>4, <2>5 DEF CInv
<1>3. CASE EnqueueWarm(m)
  <2>1. /\ mutator' = [mutator EXCEPT ![m] = IdleMutator] /\ mutator[m].pc = "enqueue"
        /\ UNCHANGED <<page, since, cache, reader, worker, excused>>
    BY <1>3 DEF EnqueueWarm, pageVars
  <2>2. queue' \in [Domains -> 0 .. MaxQueue]
    <3>1. mutator[m].domain \in Domains /\ queue \in [Domains -> 0 .. MaxQueue]
      BY <2>1 DEF CInv, TypeOK, MutatorShape
    <3>2. QED BY <1>0, <1>3, <3>1 DEF EnqueueWarm
  <2>3. TypeOK'
    BY <1>0, <2>1, <2>2 DEF CInv, TypeOK
  <2>4. MutatorShape' /\ EntryLag' /\ StaleOnlyByRace'
    BY <1>0, <2>1 DEF CInv, MutatorShape, EntryLag, StaleOnlyByRace, Stale, Fresh
  <2>5. QED BY <1>1, <2>1, <2>3, <2>4 DEF CInv
<1>4. CASE PostCommitFails(m)
  <2>1. /\ mutator' = [mutator EXCEPT ![m] = IdleMutator]
        /\ UNCHANGED <<page, since, cache, reader, worker, queue>>
        /\ excused' = IF mutator[m].pc = "clear"
                      THEN excused \cup KeysOf(mutator[m].domain) ELSE excused
    BY <1>4 DEF PostCommitFails, pageVars
  <2>2. TypeOK'
    BY <1>0, <2>1 DEF CInv, TypeOK, KeysOf
  <2>3. MutatorShape' /\ EntryLag'
    BY <1>0, <2>1 DEF CInv, MutatorShape, EntryLag, Stale, Fresh
  <2>4. StaleOnlyByRace'
    BY <1>0, <2>1 DEF CInv, StaleOnlyByRace, Stale, Fresh, KeysOf
  <2>5. QED BY <1>1, <2>1, <2>2, <2>3, <2>4 DEF CInv
<1>5. ASSUME NEW d \in Domains, NEW changed \in SUBSET KeysOf(d), MutateCommit(m, d, changed)
      PROVE  CInv'
  <2> DEFINE y == [pc |-> "clear", domain |-> d]
  <2>1. PICK live \in [changed -> BOOLEAN] :
          page' = [k \in Keys |-> IF k \in changed
                                  THEN [ver |-> page[k].ver + 1, live |-> live[k]] ELSE page[k]]
    BY <1>5 DEF MutateCommit
  <2>2. /\ since' = [k \in Keys |-> IF k \in changed THEN 0 ELSE since[k]]
        /\ mutator' = [mutator EXCEPT ![m] = y] /\ mutator[m].pc = "idle"
        /\ UNCHANGED <<cache, reader, worker, queue, excused>>
        /\ \A k \in changed : page[k].ver < MaxVersion
        /\ \A k \in changed : k \in Keys /\ DomainOf[k] = d
    BY <1>5 DEF MutateCommit, KeysOf
  <2>3. page' \in [Keys -> [ver : Versions, live : BOOLEAN]]
    <3>1. ASSUME NEW k \in Keys, k \in changed
          PROVE  [ver |-> page[k].ver + 1, live |-> live[k]] \in [ver : Versions, live : BOOLEAN]
      <4>1. live[k] \in BOOLEAN
        BY <2>1, <3>1
      <4>2. page[k].ver \in Versions /\ page[k].ver < MaxVersion
        BY <2>2, <3>1 DEF CInv, TypeOK
      <4>3. page[k].ver + 1 \in Versions
        BY <1>0, <4>2 DEF Versions
      <4>4. QED BY <4>1, <4>3
    <3>2. QED BY <2>1, <3>1 DEF CInv, TypeOK
  <2>4. TypeOK'
    BY <1>0, <2>2, <2>3 DEF CInv, TypeOK, MutatorState, Horizon
  <2>5. \A k \in Keys : \/ since'[k] = since[k] /\ page'[k] = page[k]
                        \/ since'[k] = 0 /\ DomainOf[k] = d
    BY <2>1, <2>2
  <2>6. ReaderShape' /\ MutatorShape'
    BY <1>0, <2>2 DEF CInv, ReaderShape, MutatorShape
  <2>7. ReaderLag'
    <3>1. \A r \in Readers : reader[r].got # None => reader[r].key \in Keys /\ reader[r].got.age \in 0 .. MaxLatency
      BY DEF CInv, TypeOK, ReaderShape, ReaderState, Reads, Ages
    <3>2. QED BY <1>0, <2>2, <2>5, <3>1 DEF CInv, ReaderLag, Fresh
  <2>8. WorkerLag'
    <3>1. \A w \in Workers, k \in Keys : worker[w].got[k] # None => worker[w].got[k].age \in 0 .. MaxLatency
      BY DEF CInv, TypeOK, WorkerState, Reads, Ages
    <3>2. QED BY <1>0, <2>2, <2>5, <3>1 DEF CInv, WorkerLag, Fresh
  <2>9. EntryLag'
    <3>1. \A k \in Keys : cache[k] # None => cache[k].left \in 1 .. TTL
      BY DEF CInv, TypeOK
    <3>2. QED BY <1>0, <2>2, <2>5, <3>1 DEF CInv, EntryLag, Stale, Fresh
  <2>10. StaleOnlyByRace'
    <3>1. mutator'[m].pc = "clear" /\ mutator'[m].domain = d
      BY <1>0, <2>2
    <3>2. \A n \in Mutators : mutator[n].pc = "clear" => mutator'[n] = mutator[n]
      BY <1>0, <2>2
    <3>3. ASSUME NEW k \in Keys, Stale(k)'
          PROVE  \/ k \in excused'
                 \/ \E n \in Mutators : mutator'[n].pc = "clear" /\ mutator'[n].domain = DomainOf[k]
      <4>1. CASE DomainOf[k] = d
        BY <3>1, <4>1
      <4>2. CASE page'[k] = page[k]
        <5>1. Stale(k)
          BY <2>2, <3>3, <4>2 DEF Stale, Fresh
        <5>2. QED BY <2>2, <3>2, <5>1 DEF CInv, StaleOnlyByRace
      <4>3. QED BY <2>5, <4>1, <4>2
    <3>4. QED BY <3>3 DEF StaleOnlyByRace
  <2>11. QED BY <2>4, <2>6, <2>7, <2>8, <2>9, <2>10 DEF CInv
<1>6. QED BY <1>2, <1>3, <1>4, <1>5 DEF MutatorStep

LEMMA AdminClearKeeps ==
  ASSUME CInv, NEW d \in Domains, AdminClear(d)
  PROVE  CInv'
PROOF
<1>1. UNCHANGED <<page, since, reader, mutator, worker, queue>>
  BY DEF AdminClear, pageVars
<1>2. /\ cache' \in [Keys -> [ver : Versions, left : 1 .. TTL] \cup {None}]
      /\ excused' \subseteq Keys /\ EntryLag' /\ StaleOnlyByRace'
  BY <1>1, DeleteKeeps DEF AdminClear
<1>3. TypeOK'
  BY <1>1, <1>2 DEF CInv, TypeOK
<1>4. ReaderShape' /\ MutatorShape' /\ ReaderLag' /\ WorkerLag'
  BY <1>1 DEF CInv, ReaderShape, MutatorShape, ReaderLag, WorkerLag, Fresh
<1>5. QED BY <1>2, <1>3, <1>4 DEF CInv

(* Steps of warm tasks keep the invariant. *)
LEMMA WorkerKeeps ==
  ASSUME CInv, NEW w \in Workers,
         WorkerStep(w) \/ WarmFails(w) \/ WarmAll(w) \/ \E d \in Domains : TakeTask(w, d)
  PROVE  CInv'
PROOF
<1>0. /\ worker \in [Workers -> WorkerState] /\ worker[w] \in WorkerState /\ IdleWorker \in WorkerState
      /\ worker[w].got \in [Keys -> Reads \cup {None}] /\ worker[w].todo \subseteq Keys
      /\ page \in [Keys -> [ver : Versions, live : BOOLEAN]]
      /\ MaxLatency \in Nat /\ MaxQueue \in Nat /\ Warmed \subseteq Keys
  BY CacheAssumptions DEF CInv, TypeOK, WorkerState, IdleWorker
<1>1. ASSUME NEW y \in WorkerState, worker' = [worker EXCEPT ![w] = y],
             UNCHANGED <<page, since, reader, mutator>>,
             /\ cache' \in [Keys -> [ver : Versions, left : 1 .. TTL] \cup {None}]
             /\ excused' \subseteq Keys /\ EntryLag' /\ StaleOnlyByRace',
             queue' \in [Domains -> 0 .. MaxQueue],
             \A k \in Keys : \/ y.got[k] = None
                             \/ y.got[k] = worker[w].got[k]
                             \/ y.got[k].ver = page[k].ver
      PROVE  CInv'
  <2>1. TypeOK'
    BY <1>0, <1>1 DEF CInv, TypeOK
  <2>2. ReaderShape' /\ MutatorShape' /\ ReaderLag'
    BY <1>1 DEF CInv, ReaderShape, MutatorShape, ReaderLag, Fresh
  <2>3. WorkerLag'
    BY <1>0, <1>1 DEF CInv, WorkerLag, Fresh
  <2>4. QED BY <1>1, <2>1, <2>2, <2>3 DEF CInv
<1>2. UNCHANGED <<page, since, cache, mutator, excused>> =>
        /\ cache' \in [Keys -> [ver : Versions, left : 1 .. TTL] \cup {None}]
        /\ excused' \subseteq Keys /\ EntryLag' /\ StaleOnlyByRace'
  BY DEF CInv, TypeOK, EntryLag, StaleOnlyByRace, Stale, Fresh
<1>3. UNCHANGED queue => queue' \in [Domains -> 0 .. MaxQueue]
  BY DEF CInv, TypeOK
<1>4. ASSUME NEW targets \in SUBSET Keys, StartWarm(w, targets),
             UNCHANGED <<page, since, cache, reader, mutator, excused>>,
             queue' \in [Domains -> 0 .. MaxQueue]
      PROVE  CInv'
  <2> DEFINE y == [IdleWorker EXCEPT !.pc = "collect", !.todo = targets]
  <2>1. y \in WorkerState /\ y.got = [k \in Keys |-> None]
    BY <1>0 DEF IdleWorker, WorkerState
  <2>2. worker' = [worker EXCEPT ![w] = y]
    BY <1>4 DEF StartWarm
  <2>3. QED BY <1>1, <1>2, <1>4, <2>1, <2>2
<1>5. ASSUME NEW d \in Domains, TakeTask(w, d) PROVE CInv'
  <2>1. queue' \in [Domains -> 0 .. MaxQueue]
    BY <1>0, <1>5 DEF TakeTask, CInv, TypeOK
  <2>2. KeysOf(d) \cap Warmed \in SUBSET Keys
    BY DEF KeysOf
  <2>3. QED BY <1>4, <1>5, <2>1, <2>2 DEF TakeTask, pageVars
<1>6. CASE WarmAll(w)
  <2>1. StartWarm(w, Warmed) /\ UNCHANGED <<page, since, cache, reader, mutator, excused>> /\ UNCHANGED queue
    BY <1>6 DEF WarmAll, pageVars
  <2>2. QED BY <1>0, <1>3, <1>4, <2>1
<1>7. CASE CollectTarget(w)
  <2>1. PICK k \in worker[w].todo :
          worker' = [worker EXCEPT ![w].todo = @ \ {k}, ![w].got[k] = Target(k)]
    BY <1>7 DEF CollectTarget
  <2> DEFINE got == Target(k)
             y == [worker[w] EXCEPT !.todo = @ \ {k}, !.got[k] = got]
  <2>2. got \in Reads \cup {None} /\ k \in Keys /\ (got # None => got.ver = page[k].ver)
    BY <1>0 DEF Reads, Ages, Target
  <2>3. y.got = [worker[w].got EXCEPT ![k] = got] /\ y.todo = worker[w].todo \ {k} /\ y.pc = worker[w].pc
    BY <1>0 DEF WorkerState
  <2>4. y \in WorkerState
    BY <1>0, <2>2 DEF WorkerState
  <2>5. worker' = [worker EXCEPT ![w] = y]
    BY <1>0, <2>1
  <2>6. \A j \in Keys : \/ y.got[j] = None
                        \/ y.got[j] = worker[w].got[j]
                        \/ y.got[j].ver = page[j].ver
    BY <1>0, <2>2, <2>3
  <2>7. UNCHANGED <<page, since, cache, reader, mutator, queue, excused>>
    BY <1>7 DEF CollectTarget, pageVars
  <2>8. QED BY <1>1, <1>2, <1>3, <2>4, <2>5, <2>6, <2>7
<1>8. CASE Collected(w)
  <2> DEFINE y == [worker[w] EXCEPT !.pc = "write"]
  <2>1. y \in WorkerState /\ worker' = [worker EXCEPT ![w] = y] /\ y.got = worker[w].got
    BY <1>0, <1>8 DEF Collected, WorkerState
  <2>2. UNCHANGED <<page, since, cache, reader, mutator, queue, excused>>
    BY <1>8 DEF Collected, pageVars
  <2>3. QED BY <1>1, <1>2, <1>3, <2>1, <2>2
<1>9. CASE WriteTarget(w)
  <2>1. PICK k \in Keys : /\ worker[w].got[k] # None
                          /\ Store(k, worker[w].got[k])
                          /\ worker' = [worker EXCEPT ![w].got[k] = None]
    BY <1>9 DEF WriteTarget
  <2> DEFINE y == [worker[w] EXCEPT !.got[k] = None]
  <2>2. UNCHANGED <<page, since, reader, mutator, queue>>
    BY <1>9 DEF WriteTarget, pageVars
  <2>3. worker[w].got[k] \in Reads
    BY <1>0, <2>1
  <2>4. ~Fresh(k, worker[w].got[k].ver) => since[k] <= worker[w].got[k].age
    BY <2>1 DEF CInv, WorkerLag
  <2>5. /\ cache' \in [Keys -> [ver : Versions, left : 1 .. TTL] \cup {None}]
        /\ excused' \subseteq Keys /\ EntryLag' /\ StaleOnlyByRace'
    BY <2>1, <2>2, <2>3, <2>4, StoreKeeps
  <2>6. y.got = [worker[w].got EXCEPT ![k] = None]
    BY <1>0 DEF WorkerState
  <2>7. y \in WorkerState
    BY <1>0 DEF WorkerState
  <2>8. worker' = [worker EXCEPT ![w] = y]
    BY <1>0, <2>1
  <2>9. \A j \in Keys : y.got[j] = None \/ y.got[j] = worker[w].got[j]
    BY <1>0, <2>6
  <2>10. QED BY <1>1, <1>3, <2>2, <2>5, <2>7, <2>8, <2>9
<1>10. ASSUME worker' = [worker EXCEPT ![w] = IdleWorker],
              UNCHANGED <<page, since, cache, reader, mutator, queue, excused>>
       PROVE  CInv'
  <2>1. \A k \in Keys : IdleWorker.got[k] = None
    BY DEF IdleWorker
  <2>2. QED BY <1>0, <1>1, <1>2, <1>3, <1>10, <2>1
<1>11. CASE WarmDone(w) \/ WarmFails(w)
  BY <1>10, <1>11 DEF WarmDone, WarmFails, pageVars
<1>12. QED BY <1>5, <1>6, <1>7, <1>8, <1>9, <1>11 DEF WorkerStep

(* The passing of time keeps the invariant: copies and changes age alike,
   and an entry that is kept loses what the change gains. *)
LEMMA TickKeeps ==
  ASSUME CInv, Tick
  PROVE  CInv'
PROOF
<1>0. /\ TTL \in Nat \ {0} /\ MaxLatency \in Nat
      /\ None \notin [ver : Nat, age : Nat] /\ None \notin [ver : Nat, left : Nat]
      /\ since \in [Keys -> 0 .. Horizon]
      /\ cache \in [Keys -> [ver : Versions, left : 1 .. TTL] \cup {None}]
      /\ reader \in [Readers -> ReaderState] /\ worker \in [Workers -> WorkerState]
      /\ UNCHANGED <<page, mutator, queue, excused>>
  BY CacheAssumptions DEF CInv, TypeOK, Tick
<1>1. \A k \in Keys : since'[k] \in 0 .. Horizon /\ since'[k] <= since[k] + 1
  BY <1>0 DEF Tick, Horizon
<1>2. ASSUME NEW got \in Reads, got.age < MaxLatency
      PROVE  /\ Older(got) \in Reads /\ Older(got) # None
             /\ Older(got).ver = got.ver /\ Older(got).age = got.age + 1
  <2>1. got # None /\ got.age \in Nat
    BY <1>0 DEF Reads, Ages, Versions
  <2>2. Older(got) = [got EXCEPT !.age = got.age + 1]
    BY <2>1 DEF Older
  <2>3. Older(got) \in Reads /\ Older(got).ver = got.ver /\ Older(got).age = got.age + 1
    BY <1>0, <1>2, <2>1, <2>2 DEF Reads, Ages
  <2>4. QED BY <1>0, <2>3 DEF Reads, Ages, Versions
<1>3. Older(None) = None
  BY DEF Older
<1>4. ASSUME NEW r \in Readers
      PROVE  /\ reader'[r] \in ReaderState
             /\ reader'[r].pc = reader[r].pc /\ reader'[r].key = reader[r].key
             /\ reader'[r].got = Older(reader[r].got)
             /\ reader[r].got # None => reader[r].got \in Reads /\ reader[r].got.age < MaxLatency
  <2>1. reader[r].got # None => reader[r].got \in Reads /\ reader[r].got.age < MaxLatency
    BY <1>0 DEF Tick, ReaderState
  <2>2. Older(reader[r].got) \in Reads \cup {None}
    BY <1>2, <1>3, <2>1
  <2>3. reader'[r] = [reader[r] EXCEPT !.got = Older(reader[r].got)]
    BY DEF Tick
  <2>4. QED BY <1>0, <2>1, <2>2, <2>3 DEF ReaderState
<1>5. ASSUME NEW w \in Workers, NEW k \in Keys
      PROVE  /\ worker'[w].got[k] = Older(worker[w].got[k])
             /\ Older(worker[w].got[k]) \in Reads \cup {None}
             /\ worker[w].got[k] # None => worker[w].got[k] \in Reads /\ worker[w].got[k].age < MaxLatency
  <2>1. worker[w].got[k] # None => worker[w].got[k] \in Reads /\ worker[w].got[k].age < MaxLatency
    BY <1>0 DEF Tick, WorkerState
  <2>2. worker'[w] = [worker[w] EXCEPT !.got = [j \in Keys |-> Older(worker[w].got[j])]]
    BY DEF Tick
  <2>3. QED BY <1>0, <1>2, <1>3, <2>1, <2>2 DEF WorkerState
<1>6. ASSUME NEW w \in Workers PROVE worker'[w] \in WorkerState
  <2>1. [j \in Keys |-> Older(worker[w].got[j])] \in [Keys -> Reads \cup {None}]
    BY <1>5
  <2>2. worker'[w] = [worker[w] EXCEPT !.got = [j \in Keys |-> Older(worker[w].got[j])]]
    BY DEF Tick
  <2>3. QED BY <1>0, <2>1, <2>2 DEF WorkerState
<1>7. ASSUME NEW k \in Keys
      PROVE  \/ cache'[k] = None
             \/ /\ cache[k] # None /\ cache'[k] \in [ver : Versions, left : 1 .. TTL]
                /\ cache'[k].ver = cache[k].ver /\ cache'[k].left = cache[k].left - 1
  BY <1>0 DEF Tick, Aged
<1>8. TypeOK'
  <2>1. since' \in [Keys -> 0 .. Horizon]
    BY <1>1 DEF Tick
  <2>2. cache' \in [Keys -> [ver : Versions, left : 1 .. TTL] \cup {None}]
    BY <1>7 DEF Tick
  <2>3. reader' \in [Readers -> ReaderState]
    BY <1>4 DEF Tick
  <2>4. worker' \in [Workers -> WorkerState]
    BY <1>6 DEF Tick
  <2>5. QED BY <1>0, <2>1, <2>2, <2>3, <2>4 DEF CInv, TypeOK
<1>9. ReaderShape' /\ MutatorShape'
  BY <1>0, <1>2, <1>3, <1>4 DEF CInv, ReaderShape, MutatorShape
<1>10. ReaderLag'
  <2> SUFFICES ASSUME NEW r \in Readers, reader'[r].got # None,
                      ~(reader'[r].got.ver = page'[reader'[r].key].ver)
               PROVE  since'[reader'[r].key] <= reader'[r].got.age
    BY DEF ReaderLag, Fresh
  <2>1. reader[r].got # None
    BY <1>3, <1>4
  <2>2. /\ reader[r].got \in Reads /\ reader'[r].key = reader[r].key /\ reader[r].key \in Keys
        /\ reader'[r].got.ver = reader[r].got.ver /\ reader'[r].got.age = reader[r].got.age + 1
    BY <1>2, <1>4, <2>1 DEF CInv, ReaderShape
  <2>3. since[reader[r].key] <= reader[r].got.age
    BY <1>0, <2>1, <2>2 DEF CInv, ReaderLag, Fresh
  <2>4. since[reader[r].key] \in Nat /\ reader[r].got.age \in Nat /\ since'[reader[r].key] \in Nat
    BY <1>0, <1>1, <2>2 DEF Reads, Ages, Horizon
  <2>5. QED BY <1>1, <2>2, <2>3, <2>4
<1>11. WorkerLag'
  <2> SUFFICES ASSUME NEW w \in Workers, NEW k \in Keys, worker'[w].got[k] # None,
                      ~(worker'[w].got[k].ver = page'[k].ver)
               PROVE  since'[k] <= worker'[w].got[k].age
    BY DEF WorkerLag, Fresh
  <2>1. worker[w].got[k] # None
    BY <1>3, <1>5
  <2>2. /\ worker[w].got[k] \in Reads
        /\ worker'[w].got[k].ver = worker[w].got[k].ver /\ worker'[w].got[k].age = worker[w].got[k].age + 1
    BY <1>2, <1>5, <2>1
  <2>3. since[k] <= worker[w].got[k].age
    BY <1>0, <2>1, <2>2 DEF CInv, WorkerLag, Fresh
  <2>4. since[k] \in Nat /\ worker[w].got[k].age \in Nat /\ since'[k] \in Nat
    BY <1>0, <1>1, <2>2 DEF Reads, Ages, Horizon
  <2>5. QED BY <1>1, <2>2, <2>3, <2>4
<1>12. \A k \in Keys : Stale(k)' => Stale(k) /\ cache'[k].left = cache[k].left - 1
  BY <1>0, <1>7 DEF Stale, Fresh
<1>13. EntryLag'
  <2> SUFFICES ASSUME NEW k \in Keys, Stale(k)' PROVE since'[k] + cache'[k].left <= TTL + MaxLatency
    BY DEF EntryLag
  <2>1. /\ cache[k] # None /\ cache'[k].left = cache[k].left - 1
        /\ since[k] + cache[k].left <= TTL + MaxLatency
    BY <1>12 DEF CInv, EntryLag, Stale
  <2>2. cache[k].left \in Nat /\ since[k] \in Nat /\ since'[k] \in Nat
    BY <1>0, <1>1, <2>1 DEF Horizon
  <2>3. QED BY <1>0, <1>1, <2>1, <2>2
<1>14. StaleOnlyByRace'
  BY <1>0, <1>12 DEF CInv, StaleOnlyByRace
<1>15. QED BY <1>8, <1>9, <1>10, <1>11, <1>13, <1>14 DEF CInv

-----------------------------------------------------------------------------
(* CInv holds initially and every step of the cache, its readers, mutators
   and warm tasks keeps it. *)
THEOREM CacheInvariantHolds == Spec => []CInv
PROOF
<1>1. Init => CInv
  <2> SUFFICES ASSUME Init PROVE CInv
    OBVIOUS
  <2>1. TypeOK
    BY CacheAssumptions DEF Init, TypeOK, Versions, Horizon, ReaderState, MutatorState, WorkerState,
       IdleReader, IdleMutator, IdleWorker
  <2>2. ReaderShape /\ MutatorShape /\ ReaderLag /\ WorkerLag
    BY DEF Init, ReaderShape, MutatorShape, ReaderLag, WorkerLag, IdleReader, IdleMutator, IdleWorker
  <2>3. EntryLag /\ StaleOnlyByRace
    BY DEF Init, EntryLag, StaleOnlyByRace, Stale
  <2>4. QED BY <2>1, <2>2, <2>3 DEF CInv
<1>2. CInv /\ [Next]_vars => CInv'
  <2> SUFFICES ASSUME CInv, [Next]_vars PROVE CInv'
    OBVIOUS
  <2>1. CASE UNCHANGED vars
    BY <2>1 DEF vars, CInv, TypeOK, ReaderShape, MutatorShape, ReaderLag, WorkerLag, EntryLag,
       StaleOnlyByRace, Stale, Fresh
  <2>2. CASE Next
    BY <2>2, ReaderKeeps, MutatorKeeps, WorkerKeeps, AdminClearKeeps, TickKeeps DEF Next
  <2>3. QED BY <2>1, <2>2
<1>3. QED BY <1>1, <1>2, PTL DEF Spec

(* ResponseCache is type correct. *)
THEOREM CacheTypeCorrect == Spec => []TypeOK
PROOF
<1>1. CInv => TypeOK
  BY DEF CInv
<1>2. QED BY <1>1, CacheInvariantHolds, PTL

(* No page outlives its successor by more than the time to live and the
   longest store, for every TTL and latency. *)
THEOREM StalenessIsBounded == Spec => []BoundedStaleness
PROOF
<1>1. CInv => BoundedStaleness
  <2> SUFFICES ASSUME CInv, NEW k \in Keys, Stale(k) PROVE since[k] < TTL + MaxLatency
    BY DEF BoundedStaleness
  <2>1. cache[k].left \in 1 .. TTL /\ since[k] \in 0 .. Horizon
    BY DEF CInv, TypeOK, Stale
  <2>2. since[k] + cache[k].left <= TTL + MaxLatency
    BY DEF CInv, EntryLag
  <2>3. QED BY <2>1, <2>2, CacheAssumptions DEF Horizon
<1>2. QED BY <1>1, CacheInvariantHolds, PTL

(* After a mutation's post-commit action only a store from an older read
   makes an entry outdated. *)
THEOREM OnlyRacesLeaveStale == Spec => []StaleOnlyByRace
PROOF
<1>1. CInv => StaleOnlyByRace
  BY DEF CInv
<1>2. QED BY <1>1, CacheInvariantHolds, PTL
=============================================================================
