-------------------------- MODULE ManualWarmProofs --------------------------
(***************************************************************************)
(* What an admin may rely on when polling a manual cache warm, for any     *)
(* number of operations and workers, any time to live and any number of    *)
(* processes that die and calls of Valkey that raise.                      *)
(***************************************************************************)
EXTENDS ManualWarm, TLAPS

Statuses == {"queued", "running"} \cup Ended
StoredOps == [status : Statuses, summary : BOOLEAN, left : 1 .. TTL]
Pointers == [op : Operations, left : 1 .. TTL]
RequestPcs == {"idle", "point", "send", "sent", "raised", "renew", "done"}
WorkerPcs == {"idle", "read", "start", "started", "warm", "ended", "ack"}
Deliveries == [pc : WorkerPcs, op : Operations \cup {None}, stored : BOOLEAN \cup {None}]

(* The types of the variables; a worker that is not idle has an operation. *)
TypeOK ==
  /\ record \in [Operations -> StoredOps \cup {None}]
  /\ latest \in Pointers \cup {None}
  /\ request \in [Operations -> RequestPcs]
  /\ message \in [Operations -> {"none", "waiting", "taken", "acked"}]
  /\ worker \in [Workers -> Deliveries]
  /\ faults \in Nat
  /\ \A w \in Workers : worker[w].pc # "idle" => worker[w].op \in Operations

(* The storage call about operation o has written its first key only. *)
Between(o) ==
  \/ request[o] \in {"point", "renew"}
  \/ \E w \in Workers : worker[w].op = o /\ worker[w].pc \in {"started", "ended"}

Covers(o) == latest # None /\ latest.left >= record[o].left

(* The pointer lives at least as long as an operation, or the call that is
   to renew the pointer for this operation is still on its way. *)
CoveredOrBetween ==
  \A o \in Operations \ untracked : record[o] # None => Covers(o) \/ Between(o)

KeysInv == TypeOK /\ SummaryOfSuccess /\ CoveredOrBetween

(* Worker w handles the task of operation o. *)
WorksOn(w, o) == worker[w].pc # "idle" /\ worker[w].op = o

(* Operations with one delivery at most, whose request knows what the broker
   did. *)
Orderly == Operations \ (repeated \cup unsure)

(* The task of an orderly operation is sent after the request's last write
   but for a failed send, and while it is not taken nobody works on it. *)
OneWriter ==
  \A o \in Orderly :
    /\ request[o] \in {"idle", "point", "send", "raised", "renew"} => message[o] = "none"
    /\ message[o] # "taken" => \A w \in Workers : ~WorksOn(w, o)
    /\ \A v, w \in Workers : WorksOn(v, o) /\ WorksOn(w, o) => v = w

HasStatus(o, S) == record[o] # None => record[o].status \in S

(* Where the writer of an orderly operation stands tells its status. *)
StatusFollows ==
  \A o \in Orderly :
    /\ request[o] = "idle" => record[o] = None
    /\ request[o] \in {"point", "send", "raised"} => HasStatus(o, {"queued"})
    /\ message[o] = "waiting" => HasStatus(o, {"queued"})
    /\ \A w \in Workers : WorksOn(w, o) =>
         /\ worker[w].pc \in {"read", "start"} => HasStatus(o, {"queued"})
         /\ worker[w].pc \in {"started", "warm"} => HasStatus(o, {"running"})

StatusInv == TypeOK /\ OneWriter /\ StatusFollows

-----------------------------------------------------------------------------
LEMMA StoredTyped ==
  ASSUME NEW status \in Statuses, NEW summary \in BOOLEAN
  PROVE  Stored(status, summary) \in StoredOps
BY WarmAssumptions DEF Stored, StoredOps

(* Time takes a key away or leaves it with one unit less. *)
LEMMA AgedTyped ==
  ASSUME NEW key
  PROVE  /\ key \in StoredOps \cup {None} =>
              /\ Aged(key) \in StoredOps \cup {None}
              /\ Aged(key) # None => /\ key # None
                                     /\ Aged(key).status = key.status
                                     /\ Aged(key).summary = key.summary
                                     /\ key.left \in 2 .. TTL
                                     /\ Aged(key).left = key.left - 1
         /\ key \in Pointers \cup {None} =>
              /\ Aged(key) \in Pointers \cup {None}
              /\ key # None /\ key.left > 1 => Aged(key) # None /\ Aged(key).left = key.left - 1
<1>0. TTL \in Nat \ {0} /\ None \notin Pointers
  <2>1. Pointers \subseteq [op : Operations, left : Nat]
    BY WarmAssumptions DEF Pointers
  <2> QED BY <2>1, WarmAssumptions
<1>1. ASSUME key \in StoredOps, key.left # 1
      PROVE  [key EXCEPT !.left = @ - 1] \in StoredOps /\ key.left \in 2 .. TTL
  BY <1>0, <1>1 DEF StoredOps
<1>2. ASSUME key \in Pointers, key.left # 1
      PROVE  [key EXCEPT !.left = @ - 1] \in Pointers
  BY <1>0, <1>2 DEF Pointers
<1>3. ASSUME key \in StoredOps
      PROVE  [key EXCEPT !.left = @ - 1].left = key.left - 1
             /\ [key EXCEPT !.left = @ - 1].status = key.status
             /\ [key EXCEPT !.left = @ - 1].summary = key.summary
  BY <1>3 DEF StoredOps
<1>4. ASSUME key \in Pointers
      PROVE  [key EXCEPT !.left = @ - 1].left = key.left - 1
  BY <1>4 DEF Pointers
<1>5. key \in Pointers => key.left \in 1 .. TTL
  BY DEF Pointers
<1> QED BY <1>0, <1>1, <1>2, <1>3, <1>4, <1>5 DEF Aged

LEMMA RenewTyped ==
  ASSUME latest \in Pointers \cup {None}, NEW o \in Operations, RenewLatest(o)
  PROVE  /\ latest' \in Pointers \cup {None}
         /\ latest # None => latest' # None /\ latest'.left = TTL /\ untracked' = untracked
         /\ latest = None => untracked' = untracked \cup {o}
<1>1. Pointers \subseteq [op : Operations, left : Nat] /\ TTL \in Nat \ {0}
  BY WarmAssumptions DEF Pointers
<1>2. ASSUME latest \in Pointers
      PROVE  [latest EXCEPT !.left = TTL] \in Pointers /\ [latest EXCEPT !.left = TTL].left = TTL
  BY <1>1, <1>2 DEF Pointers
<1> QED BY <1>1, <1>2, WarmAssumptions DEF RenewLatest

(* Every step keeps the types. *)
LEMMA TypeStep == TypeOK /\ [Next]_vars => TypeOK'
<1> SUFFICES ASSUME TypeOK, [Next]_vars PROVE TypeOK'
  OBVIOUS
<1> USE DEF RequestAt, WorkerAt, historyVars, storeVars, RequestPcs, WorkerPcs
<1>0. ASSUME NEW w \in Workers, worker[w].pc # "idle"
      PROVE  worker[w].op \in Operations /\ worker[w] \in Deliveries
  BY <1>0 DEF TypeOK
<1>1. ASSUME NEW o \in Operations, CreateRecord(o) PROVE TypeOK'
  BY <1>1, StoredTyped DEF TypeOK, CreateRecord, SetRecord, Statuses
<1>2. ASSUME NEW o \in Operations, CreateLatest(o) PROVE TypeOK'
  BY <1>2, WarmAssumptions DEF TypeOK, CreateLatest, SetLatest, Pointers
<1>3. ASSUME NEW o \in Operations, BrokerAccepts(o) PROVE TypeOK'
  BY <1>3 DEF TypeOK, BrokerAccepts
<1>4. ASSUME NEW o \in Operations, BrokerRefuses(o) PROVE TypeOK'
  BY <1>4 DEF TypeOK, BrokerRefuses
<1>5. ASSUME NEW o \in Operations, Answer(o) PROVE TypeOK'
  BY <1>5 DEF TypeOK, Answer
<1>6. ASSUME NEW o \in Operations, AnswerLost(o) PROVE TypeOK'
  BY <1>6 DEF TypeOK, AnswerLost
<1>7. ASSUME NEW o \in Operations, MarkFailed(o) PROVE TypeOK'
  BY <1>7, StoredTyped DEF TypeOK, MarkFailed, SetRecord, Statuses, Ended
<1>8. ASSUME NEW o \in Operations, FailedRenews(o) PROVE TypeOK'
  BY <1>8, RenewTyped DEF TypeOK, FailedRenews
<1>9. ASSUME NEW o \in Operations, RequestDies(o) PROVE TypeOK'
  BY <1>9 DEF TypeOK, RequestDies
<1>10. ASSUME NEW w \in Workers, ReadOperation(w) PROVE TypeOK'
  <2>1. worker[w].op \in Operations /\ worker[w] \in Deliveries
    BY <1>0, <1>10 DEF ReadOperation
  <2>2. PICK o, d : /\ o = worker[w].op
                    /\ d = IF record[o] = None
                           THEN [worker[w] EXCEPT !.pc = "ack"]
                           ELSE [worker[w] EXCEPT !.pc = "start", !.stored = record[o].summary]
    OBVIOUS
  <2>3. record[o] # None => record[o].summary \in BOOLEAN
    BY <2>1, <2>2 DEF TypeOK, StoredOps
  <2>4. d \in Deliveries /\ d.op = worker[w].op
    BY <2>1, <2>2, <2>3 DEF Deliveries
  <2>5. worker' = [worker EXCEPT ![w] = d]
    BY <1>10, <2>2 DEF ReadOperation
  <2>6. worker' \in [Workers -> Deliveries]
        /\ \A v \in Workers : worker'[v].pc # "idle" => worker'[v].op \in Operations
    BY <2>1, <2>4, <2>5 DEF TypeOK
  <2> QED BY <1>10, <2>6 DEF TypeOK, ReadOperation
<1>11. ASSUME NEW w \in Workers, SetRunning(w) PROVE TypeOK'
  BY <1>0, <1>11, StoredTyped DEF TypeOK, SetRunning, SetRecord, Statuses, RunningSummary, Deliveries
<1>12. ASSUME NEW w \in Workers, RunningRenews(w) PROVE TypeOK'
  BY <1>0, <1>12, RenewTyped DEF TypeOK, RunningRenews, Deliveries
<1>13. ASSUME NEW w \in Workers, WarmReturns(w) PROVE TypeOK'
  BY <1>0, <1>13, StoredTyped DEF TypeOK, WarmReturns, SetEnded, SetRecord, Statuses, Ended, Deliveries
<1>14. ASSUME NEW w \in Workers, WarmRaises(w) PROVE TypeOK'
  BY <1>0, <1>14, StoredTyped DEF TypeOK, WarmRaises, SetEnded, SetRecord, Statuses, Ended, Deliveries
<1>15. ASSUME NEW w \in Workers, EndedRenews(w) PROVE TypeOK'
  BY <1>0, <1>15, RenewTyped DEF TypeOK, EndedRenews, Deliveries
<1>16. ASSUME NEW w \in Workers, Acknowledge(w) PROVE TypeOK'
  BY <1>0, <1>16 DEF TypeOK, Acknowledge, IdleWorker, Deliveries
<1>17. ASSUME NEW w \in Workers, WorkerDies(w) PROVE TypeOK'
  BY <1>0, <1>17 DEF TypeOK, WorkerDies, IdleWorker, Deliveries
<1>18. ASSUME NEW w \in Workers, NEW o \in Operations, Deliver(w, o) PROVE TypeOK'
  BY <1>18 DEF TypeOK, Deliver, IdleWorker, Deliveries
<1>19. ASSUME Tick PROVE TypeOK'
  BY <1>19, AgedTyped DEF TypeOK, Tick
<1>20. ASSUME UNCHANGED vars PROVE TypeOK'
  BY <1>20 DEF TypeOK, vars
<1>21. ASSUME NEW o \in Operations, RequestStoreFails(o) PROVE TypeOK'
  BY <1>21 DEF TypeOK, RequestStoreFails
<1>22. ASSUME NEW o \in Operations, RequestStoreAnswerLost(o) PROVE TypeOK'
  <2>1. \A status \in Statuses : SetRecord(o, status, FALSE) => record' \in [Operations -> StoredOps \cup {None}]
    BY StoredTyped DEF TypeOK, SetRecord
  <2>2. SetLatest(o) => latest' \in Pointers
    BY WarmAssumptions DEF SetLatest, Pointers
  <2>3. RenewLatest(o) => latest' \in Pointers \cup {None}
    BY RenewTyped DEF TypeOK
  <2>4. record' \in [Operations -> StoredOps \cup {None}] /\ latest' \in Pointers \cup {None}
    BY <1>22, <2>1, <2>2, <2>3 DEF TypeOK, RequestStoreAnswerLost, Statuses, Ended
  <2>5. /\ request' = [request EXCEPT ![o] = "done"] /\ faults' = faults + 1
        /\ UNCHANGED <<message, worker>>
    BY <1>22 DEF RequestStoreAnswerLost
  <2> QED BY <2>4, <2>5 DEF TypeOK
<1>23. ASSUME NEW w \in Workers, TaskStoreFails(w) PROVE TypeOK'
  BY <1>0, <1>23 DEF TypeOK, TaskStoreFails, Deliveries
<1>24. ASSUME NEW w \in Workers, TaskStoreAnswerLost(w) PROVE TypeOK'
  <2>1. worker[w].op \in Operations /\ worker[w] \in Deliveries
    BY <1>0, <1>24 DEF TaskStoreAnswerLost
  <2>2. ASSUME NEW status \in Statuses, NEW summary \in BOOLEAN,
               SetRecord(worker[w].op, status, summary)
        PROVE  record' \in [Operations -> StoredOps \cup {None}]
    BY <2>2, StoredTyped DEF TypeOK, SetRecord
  <2>3. RenewLatest(worker[w].op) => latest' \in Pointers \cup {None}
    BY <2>1, RenewTyped DEF TypeOK
  <2>4. record' \in [Operations -> StoredOps \cup {None}] /\ latest' \in Pointers \cup {None}
    BY <1>24, <2>2, <2>3 DEF TypeOK, TaskStoreAnswerLost, RunningSummary, Statuses, Ended
  <2> QED BY <1>24, <2>1, <2>4 DEF TypeOK, TaskStoreAnswerLost, Deliveries
<1> QED BY <1>1, <1>2, <1>3, <1>4, <1>5, <1>6, <1>7, <1>8, <1>9, <1>10,
     <1>11, <1>12, <1>13, <1>14, <1>15, <1>16, <1>17, <1>18, <1>19, <1>20,
     <1>21, <1>22, <1>23, <1>24
  DEF Next, RequestStep, WorkerStep, Rest

(* SummaryOfSuccess for the next state: what is written has a summary with a
   success only, and time changes neither. *)
LEMMA SummaryStep == TypeOK /\ SummaryOfSuccess /\ [Next]_vars => SummaryOfSuccess'
<1> SUFFICES ASSUME TypeOK, SummaryOfSuccess, [Next]_vars PROVE SummaryOfSuccess'
  OBVIOUS
<1> USE DEF RequestAt, WorkerAt, historyVars, storeVars
<1>1. ASSUME NEW o \in Operations, NEW status \in Statuses, SetRecord(o, status, status = "succeeded")
      PROVE  SummaryOfSuccess'
  BY <1>1 DEF SummaryOfSuccess, TypeOK, SetRecord, Stored
<1>2. ASSUME record' = record PROVE SummaryOfSuccess'
  BY <1>2 DEF SummaryOfSuccess
<1>3. ASSUME Tick PROVE SummaryOfSuccess'
  BY <1>3, AgedTyped DEF SummaryOfSuccess, TypeOK, Tick
<1>4. ASSUME NEW o \in Operations,
             \/ CreateRecord(o) \/ RequestStep(o) \/ RequestDies(o)
             \/ RequestStoreFails(o) \/ RequestStoreAnswerLost(o)
      PROVE  SummaryOfSuccess'
  <2>1. \/ record' = record
        \/ SetRecord(o, "queued", FALSE) \/ SetRecord(o, "failed", FALSE)
    BY <1>4 DEF CreateRecord, RequestStep, CreateLatest, BrokerAccepts, BrokerRefuses, Answer,
                AnswerLost, MarkFailed, FailedRenews, RequestDies, RequestStoreFails,
                RequestStoreAnswerLost
  <2>2. ("queued" = "succeeded") = FALSE /\ ("failed" = "succeeded") = FALSE
    OBVIOUS
  <2> QED BY <1>1, <1>2, <2>1, <2>2 DEF Statuses, Ended
<1>5. ASSUME NEW w \in Workers,
             WorkerStep(w) \/ WorkerDies(w) \/ TaskStoreFails(w) \/ TaskStoreAnswerLost(w)
      PROVE  SummaryOfSuccess'
  <2>1. \/ record' = record
        \/ worker[w].pc # "idle" /\ SetRecord(worker[w].op, "running", FALSE)
        \/ worker[w].pc # "idle" /\ SetRecord(worker[w].op, "succeeded", "succeeded" = "succeeded")
        \/ worker[w].pc # "idle" /\ SetRecord(worker[w].op, "failed", "failed" = "succeeded")
    BY <1>5 DEF WorkerStep, ReadOperation, SetRunning, RunningSummary, RunningRenews, WarmReturns,
                WarmRaises, SetEnded, EndedRenews, Acknowledge, WorkerDies, TaskStoreFails,
                TaskStoreAnswerLost, Ended
  <2>2. ("running" = "succeeded") = FALSE
    OBVIOUS
  <2>3. worker[w].pc # "idle" => worker[w].op \in Operations
    BY DEF TypeOK
  <2> QED BY <1>1, <1>2, <2>1, <2>2, <2>3 DEF Statuses, Ended
<1>6. ASSUME NEW w \in Workers, NEW o \in Operations, Deliver(w, o) PROVE SummaryOfSuccess'
  BY <1>2, <1>6 DEF Deliver
<1>7. ASSUME UNCHANGED vars PROVE SummaryOfSuccess'
  BY <1>2, <1>7 DEF vars
<1> QED BY <1>3, <1>4, <1>5, <1>6, <1>7 DEF Next, Rest

-----------------------------------------------------------------------------
(* Renewing the pointer covers every operation; when there is none to renew
   the operation counts as untracked and the others wait for calls of their
   own. *)
LEMMA RenewCovers ==
  ASSUME TypeOK, TypeOK', CoveredOrBetween, NEW o \in Operations, RenewLatest(o), record' = record,
         \A p \in Operations \ {o} : Between(p) => Between(p)'
  PROVE  CoveredOrBetween'
<1> SUFFICES ASSUME NEW p \in Operations \ untracked', record'[p] # None
             PROVE  Covers(p)' \/ Between(p)'
  BY DEF CoveredOrBetween
<1>1. CASE latest # None
  <2>1. latest' # None /\ latest'.left = TTL
    BY <1>1, RenewTyped DEF TypeOK
  <2>2. record'[p].left \in 1 .. TTL /\ TTL \in Nat
    BY WarmAssumptions DEF TypeOK, StoredOps
  <2> QED BY <2>1, <2>2 DEF Covers
<1>2. CASE latest = None
  <2>1. untracked' = untracked \cup {o}
    BY <1>2, RenewTyped DEF TypeOK
  <2>2. p # o /\ p \notin untracked
    BY <2>1
  <2>3. Between(p)
    BY <1>2, <2>2 DEF CoveredOrBetween, Covers
  <2> QED BY <2>2, <2>3
<1> QED BY <1>1, <1>2

(* A step that writes neither key and takes no call away from an operation
   that is still tracked keeps CoveredOrBetween. *)
LEMMA SameKeysCovered ==
  ASSUME CoveredOrBetween, UNCHANGED <<record, latest>>, untracked \subseteq untracked',
         \A o \in Operations \ untracked' : Between(o) => Between(o)'
  PROVE  CoveredOrBetween'
BY DEF CoveredOrBetween, Covers

(* The first write of a call about o leaves o between its keys. *)
LEMMA FirstKeyCovered ==
  ASSUME TypeOK, CoveredOrBetween, NEW o \in Operations, NEW status, NEW summary,
         SetRecord(o, status, summary), UNCHANGED <<latest, untracked>>,
         Between(o)', \A p \in Operations \ {o} : Between(p) => Between(p)'
  PROVE  CoveredOrBetween'
BY DEF CoveredOrBetween, Covers, SetRecord, TypeOK

(* A call about o that stops after its first write leaves o untracked. *)
LEMMA UntrackedWrite ==
  ASSUME TypeOK, CoveredOrBetween, NEW o \in Operations, NEW status, NEW summary,
         SetRecord(o, status, summary), UNCHANGED latest, untracked' = untracked \cup {o},
         \A p \in Operations \ {o} : Between(p) => Between(p)'
  PROVE  CoveredOrBetween'
BY DEF CoveredOrBetween, Covers, SetRecord, TypeOK

(* A new pointer covers every operation. *)
LEMMA LatestSetCovers ==
  ASSUME TypeOK', NEW o \in Operations, SetLatest(o)
  PROVE  CoveredOrBetween'
<1>1. latest' \in Pointers /\ latest'.left = TTL /\ TTL \in Nat \ {0}
  BY WarmAssumptions DEF SetLatest, Pointers
<1>2. latest' # None
  BY <1>1, WarmAssumptions DEF Pointers
<1>3. \A p \in Operations : record'[p] # None => record'[p].left \in 1 .. TTL
  BY DEF TypeOK, StoredOps
<1> QED BY <1>1, <1>2, <1>3 DEF CoveredOrBetween, Covers

LEMMA CoveredStep == TypeOK /\ TypeOK' /\ CoveredOrBetween /\ [Next]_vars => CoveredOrBetween'
<1> SUFFICES ASSUME TypeOK, TypeOK', CoveredOrBetween, [Next]_vars PROVE CoveredOrBetween'
  OBVIOUS
<1> USE DEF RequestAt, WorkerAt, historyVars, storeVars
<1>0. ASSUME NEW w \in Workers, worker[w].pc # "idle"
      PROVE  worker[w].op \in Operations /\ worker[w] \in Deliveries
  BY <1>0 DEF TypeOK
<1>1. ASSUME NEW o \in Operations, CreateRecord(o) PROVE CoveredOrBetween'
  BY <1>1, FirstKeyCovered DEF CreateRecord, Between, TypeOK
<1>2. ASSUME NEW o \in Operations, CreateLatest(o) PROVE CoveredOrBetween'
  BY <1>2, LatestSetCovers DEF CreateLatest
<1>3. ASSUME NEW o \in Operations, BrokerAccepts(o) PROVE CoveredOrBetween'
  BY <1>3, SameKeysCovered DEF BrokerAccepts, Between, TypeOK
<1>4. ASSUME NEW o \in Operations, BrokerRefuses(o) PROVE CoveredOrBetween'
  BY <1>4, SameKeysCovered DEF BrokerRefuses, Between, TypeOK
<1>5. ASSUME NEW o \in Operations, Answer(o) PROVE CoveredOrBetween'
  BY <1>5, SameKeysCovered DEF Answer, Between, TypeOK
<1>6. ASSUME NEW o \in Operations, AnswerLost(o) PROVE CoveredOrBetween'
  BY <1>6, SameKeysCovered DEF AnswerLost, Between, TypeOK
<1>7. ASSUME NEW o \in Operations, MarkFailed(o) PROVE CoveredOrBetween'
  BY <1>7, FirstKeyCovered DEF MarkFailed, Between, TypeOK
<1>8. ASSUME NEW o \in Operations, FailedRenews(o) PROVE CoveredOrBetween'
  BY <1>8, RenewCovers DEF FailedRenews, Between, TypeOK
<1>9. ASSUME NEW o \in Operations, RequestDies(o) PROVE CoveredOrBetween'
  BY <1>9, SameKeysCovered DEF RequestDies, Between, TypeOK
<1>10. ASSUME NEW w \in Workers, ReadOperation(w) PROVE CoveredOrBetween'
  BY <1>0, <1>10, SameKeysCovered DEF ReadOperation, Between, TypeOK, Deliveries, IdleWorker
<1>11. ASSUME NEW w \in Workers, SetRunning(w) PROVE CoveredOrBetween'
  BY <1>0, <1>11, FirstKeyCovered DEF SetRunning, SetEnded, Between, TypeOK, Deliveries
<1>12. ASSUME NEW w \in Workers, RunningRenews(w) PROVE CoveredOrBetween'
  BY <1>0, <1>12, RenewCovers DEF RunningRenews, Between, TypeOK, Deliveries
<1>13. ASSUME NEW w \in Workers, WarmReturns(w) PROVE CoveredOrBetween'
  BY <1>0, <1>13, FirstKeyCovered DEF WarmReturns, SetEnded, Between, TypeOK, Deliveries
<1>14. ASSUME NEW w \in Workers, WarmRaises(w) PROVE CoveredOrBetween'
  BY <1>0, <1>14, FirstKeyCovered DEF WarmRaises, SetEnded, Between, TypeOK, Deliveries
<1>15. ASSUME NEW w \in Workers, EndedRenews(w) PROVE CoveredOrBetween'
  BY <1>0, <1>15, RenewCovers DEF EndedRenews, Between, TypeOK, Deliveries
<1>16. ASSUME NEW w \in Workers, Acknowledge(w) PROVE CoveredOrBetween'
  BY <1>0, <1>16, SameKeysCovered DEF Acknowledge, Between, TypeOK, Deliveries, IdleWorker
<1>17. ASSUME NEW w \in Workers, WorkerDies(w) PROVE CoveredOrBetween'
  BY <1>0, <1>17, SameKeysCovered DEF WorkerDies, Between, TypeOK, Deliveries, IdleWorker
<1>18. ASSUME NEW w \in Workers, NEW o \in Operations, Deliver(w, o) PROVE CoveredOrBetween'
  BY <1>18, SameKeysCovered DEF Deliver, Between, TypeOK, IdleWorker
<1>19. ASSUME Tick PROVE CoveredOrBetween'
  <2> SUFFICES ASSUME NEW o \in Operations \ untracked, Aged(record[o]) # None
               PROVE  Aged(latest) # None /\ Aged(latest).left >= Aged(record[o]).left
    BY <1>19 DEF Tick, CoveredOrBetween, Covers
  <2>1. record[o] # None /\ record[o].left \in 2 .. TTL /\ Aged(record[o]).left = record[o].left - 1
    BY AgedTyped DEF TypeOK
  <2>2. latest # None /\ latest.left >= record[o].left
    BY <1>19, <2>1 DEF Tick, BetweenKeys, Between, CoveredOrBetween, Covers
  <2>3. latest.left \in 1 .. TTL /\ TTL \in Nat
    BY <2>2, WarmAssumptions DEF TypeOK, Pointers
  <2>4. Aged(latest) # None /\ Aged(latest).left = latest.left - 1
    BY <2>1, <2>2, <2>3, AgedTyped DEF TypeOK
  <2> QED BY <2>1, <2>2, <2>3, <2>4
<1>20. ASSUME UNCHANGED vars PROVE CoveredOrBetween'
  BY <1>20, SameKeysCovered DEF vars, Between
<1>21. ASSUME NEW o \in Operations, RequestStoreFails(o) PROVE CoveredOrBetween'
  BY <1>21, SameKeysCovered DEF RequestStoreFails, Between, TypeOK
<1>22. ASSUME NEW o \in Operations, RequestStoreAnswerLost(o) PROVE CoveredOrBetween'
  <2>1. \A p \in Operations \ {o} : Between(p) => Between(p)'
    BY <1>22 DEF RequestStoreAnswerLost, Between, TypeOK
  <2>2. ASSUME request[o] = "point", SetLatest(o), UNCHANGED <<record, untracked>>
        PROVE  CoveredOrBetween'
    BY <2>2, LatestSetCovers
  <2>3. ASSUME request[o] = "renew", RenewLatest(o), UNCHANGED record PROVE CoveredOrBetween'
    BY <2>1, <2>3, RenewCovers
  <2>4. ASSUME untracked' = untracked \cup {o}, UNCHANGED latest,
               NEW status, SetRecord(o, status, FALSE)
        PROVE  CoveredOrBetween'
    BY <2>1, <2>4, UntrackedWrite
  <2> QED BY <1>22, <2>2, <2>3, <2>4 DEF RequestStoreAnswerLost
<1>23. ASSUME NEW w \in Workers, TaskStoreFails(w) PROVE CoveredOrBetween'
  BY <1>0, <1>23, SameKeysCovered DEF TaskStoreFails, Between, TypeOK, Deliveries
<1>24. ASSUME NEW w \in Workers, TaskStoreAnswerLost(w) PROVE CoveredOrBetween'
  <2>0. worker[w].op \in Operations /\ worker[w] \in Deliveries
    BY <1>0, <1>24 DEF TaskStoreAnswerLost
  <2>1. \A p \in Operations \ {worker[w].op} : Between(p) => Between(p)'
    BY <1>24, <2>0 DEF TaskStoreAnswerLost, Between, TypeOK, Deliveries
  <2>2. ASSUME RenewLatest(worker[w].op), UNCHANGED record PROVE CoveredOrBetween'
    BY <2>0, <2>1, <2>2, RenewCovers
  <2>3. ASSUME untracked' = untracked \cup {worker[w].op}, UNCHANGED latest,
               NEW status, NEW summary, SetRecord(worker[w].op, status, summary)
        PROVE  CoveredOrBetween'
    BY <2>0, <2>1, <2>3, UntrackedWrite
  <2> QED BY <1>24, <2>2, <2>3 DEF TaskStoreAnswerLost
<1> QED BY <1>1, <1>2, <1>3, <1>4, <1>5, <1>6, <1>7, <1>8, <1>9, <1>10,
     <1>11, <1>12, <1>13, <1>14, <1>15, <1>16, <1>17, <1>18, <1>19, <1>20,
     <1>21, <1>22, <1>23, <1>24
  DEF Next, RequestStep, WorkerStep, Rest

LEMMA KeysInvariant == Spec => []KeysInv
<1>1. Init => KeysInv
  BY WarmAssumptions DEF Init, KeysInv, TypeOK, SummaryOfSuccess, CoveredOrBetween, RequestPcs,
                         IdleWorker, Deliveries, WorkerPcs
<1>2. KeysInv /\ [Next]_vars => KeysInv'
  BY TypeStep, SummaryStep, CoveredStep DEF KeysInv
<1> QED BY <1>1, <1>2, PTL DEF Spec

(* SetRunning and SetEnded overwrite the stored operation without comparing:
   for any number of overlapping deliveries, deaths, errors of Valkey and lost answers, an
   operation the admin polls has a summary exactly when it has succeeded. *)
THEOREM SummaryOnlyOfSuccess == Spec => []SummaryOfSuccess
<1>1. KeysInv => SummaryOfSuccess
  BY DEF KeysInv
<1> QED BY <1>1, KeysInvariant, PTL

(* set_latest and update renew the pointer after the operation's own key: for
   any time to live, GET latest finds its pointer as long as an operation is
   stored whose writer got as far as both writes. *)
THEOREM LatestOutlivesOperations == Spec => []LatestOutlives
<1>1. KeysInv => LatestOutlives
  BY DEF KeysInv, LatestOutlives, CoveredOrBetween, Covers, Between, BetweenKeys
<1> QED BY <1>1, KeysInvariant, PTL

-----------------------------------------------------------------------------
(* The tasks of an orderly operation never overlap with each other nor with
   the request's own writes. *)
LEMMA OneWriterStep == TypeOK /\ OneWriter /\ [Next]_vars => OneWriter'
<1> SUFFICES ASSUME TypeOK, OneWriter, [Next]_vars PROVE OneWriter'
  OBVIOUS
<1> USE DEF RequestAt, WorkerAt, historyVars, storeVars
<1>0. ASSUME NEW w \in Workers, worker[w].pc # "idle"
      PROVE  worker[w].op \in Operations /\ worker[w] \in Deliveries
  BY <1>0 DEF TypeOK
<1>1. ASSUME NEW o \in Operations, CreateRecord(o) PROVE OneWriter'
  BY <1>1 DEF CreateRecord, SetRecord, Stored, OneWriter, Orderly, WorksOn, TypeOK
<1>2. ASSUME NEW o \in Operations, CreateLatest(o) PROVE OneWriter'
  BY <1>2 DEF CreateLatest, OneWriter, Orderly, WorksOn, TypeOK
<1>3. ASSUME NEW o \in Operations, BrokerAccepts(o) PROVE OneWriter'
  BY <1>3 DEF BrokerAccepts, OneWriter, Orderly, WorksOn, TypeOK
<1>4. ASSUME NEW o \in Operations, BrokerRefuses(o) PROVE OneWriter'
  BY <1>4 DEF BrokerRefuses, OneWriter, Orderly, WorksOn, TypeOK
<1>5. ASSUME NEW o \in Operations, Answer(o) PROVE OneWriter'
  BY <1>5 DEF Answer, OneWriter, Orderly, WorksOn, TypeOK
<1>6. ASSUME NEW o \in Operations, AnswerLost(o) PROVE OneWriter'
  BY <1>6 DEF AnswerLost, OneWriter, Orderly, WorksOn, TypeOK
<1>7. ASSUME NEW o \in Operations, MarkFailed(o) PROVE OneWriter'
  BY <1>7 DEF MarkFailed, SetRecord, Stored, OneWriter, Orderly, WorksOn, TypeOK
<1>8. ASSUME NEW o \in Operations, FailedRenews(o) PROVE OneWriter'
  BY <1>8 DEF FailedRenews, OneWriter, Orderly, WorksOn, TypeOK
<1>9. ASSUME NEW o \in Operations, RequestDies(o) PROVE OneWriter'
  BY <1>9 DEF RequestDies, OneWriter, Orderly, WorksOn, TypeOK
<1>10. ASSUME NEW w \in Workers, ReadOperation(w) PROVE OneWriter'
  BY <1>0, <1>10 DEF ReadOperation, Deliveries, OneWriter, Orderly, WorksOn, TypeOK
<1>11. ASSUME NEW w \in Workers, SetRunning(w) PROVE OneWriter'
  BY <1>0, <1>11 DEF SetRunning, SetRecord, Stored, Deliveries, OneWriter, Orderly, WorksOn, TypeOK
<1>12. ASSUME NEW w \in Workers, RunningRenews(w) PROVE OneWriter'
  BY <1>0, <1>12 DEF RunningRenews, Deliveries, OneWriter, Orderly, WorksOn, TypeOK
<1>13. ASSUME NEW w \in Workers, WarmReturns(w) PROVE OneWriter'
  BY <1>0, <1>13 DEF WarmReturns, SetEnded, SetRecord, Stored, Deliveries, OneWriter, Orderly, WorksOn, TypeOK
<1>14. ASSUME NEW w \in Workers, WarmRaises(w) PROVE OneWriter'
  BY <1>0, <1>14 DEF WarmRaises, SetEnded, SetRecord, Stored, Deliveries, OneWriter, Orderly, WorksOn, TypeOK
<1>15. ASSUME NEW w \in Workers, EndedRenews(w) PROVE OneWriter'
  BY <1>0, <1>15 DEF EndedRenews, Deliveries, OneWriter, Orderly, WorksOn, TypeOK
<1>16. ASSUME NEW w \in Workers, Acknowledge(w) PROVE OneWriter'
  BY <1>0, <1>16 DEF Acknowledge, IdleWorker, Deliveries, OneWriter, Orderly, WorksOn, TypeOK
<1>17. ASSUME NEW w \in Workers, WorkerDies(w) PROVE OneWriter'
  BY <1>0, <1>17 DEF WorkerDies, IdleWorker, Deliveries, OneWriter, Orderly, WorksOn, TypeOK
<1>18. ASSUME NEW w \in Workers, NEW o \in Operations, Deliver(w, o) PROVE OneWriter'
  BY <1>18 DEF Deliver, IdleWorker, OneWriter, Orderly, WorksOn, TypeOK
<1>19. ASSUME Tick PROVE OneWriter'
  BY <1>19, AgedTyped DEF Tick, OneWriter, Orderly, WorksOn, TypeOK
<1>20. ASSUME UNCHANGED vars PROVE OneWriter'
  BY <1>20 DEF vars, OneWriter, Orderly, WorksOn, TypeOK
<1>21. ASSUME NEW o \in Operations, RequestStoreFails(o) PROVE OneWriter'
  BY <1>21 DEF RequestStoreFails, OneWriter, Orderly, WorksOn, TypeOK
<1>22. ASSUME NEW o \in Operations, RequestStoreAnswerLost(o) PROVE OneWriter'
  BY <1>22 DEF RequestStoreAnswerLost, OneWriter, Orderly, WorksOn, TypeOK
<1>23. ASSUME NEW w \in Workers, TaskStoreFails(w) PROVE OneWriter'
  BY <1>0, <1>23 DEF TaskStoreFails, Deliveries, OneWriter, Orderly, WorksOn, TypeOK
<1>24. ASSUME NEW w \in Workers, TaskStoreAnswerLost(w) PROVE OneWriter'
  BY <1>0, <1>24 DEF TaskStoreAnswerLost, Deliveries, OneWriter, Orderly, WorksOn, TypeOK
<1> QED
  BY <1>1, <1>2, <1>3, <1>4, <1>5, <1>6, <1>7, <1>8, <1>9, <1>10,
     <1>11, <1>12, <1>13, <1>14, <1>15, <1>16, <1>17, <1>18, <1>19, <1>20,
     <1>21, <1>22, <1>23, <1>24
  DEF Next, RequestStep, WorkerStep, Rest

LEMMA StatusFollowsStep == StatusInv /\ [Next]_vars => StatusFollows'
<1> SUFFICES ASSUME StatusInv, [Next]_vars PROVE StatusFollows'
  OBVIOUS
<1> USE DEF StatusInv, OneWriter, StatusFollows, HasStatus, Orderly, WorksOn, TypeOK
<1> USE DEF RequestAt, WorkerAt, historyVars, storeVars
<1>0. ASSUME NEW w \in Workers, worker[w].pc # "idle"
      PROVE  worker[w].op \in Operations /\ worker[w] \in Deliveries
  BY <1>0 DEF TypeOK
<1>1. ASSUME NEW o \in Operations, CreateRecord(o) PROVE StatusFollows'
  BY <1>1 DEF CreateRecord, SetRecord, Stored
<1>2. ASSUME NEW o \in Operations, CreateLatest(o) PROVE StatusFollows'
  BY <1>2 DEF CreateLatest
<1>3. ASSUME NEW o \in Operations, BrokerAccepts(o) PROVE StatusFollows'
  BY <1>3 DEF BrokerAccepts
<1>4. ASSUME NEW o \in Operations, BrokerRefuses(o) PROVE StatusFollows'
  BY <1>4 DEF BrokerRefuses
<1>5. ASSUME NEW o \in Operations, Answer(o) PROVE StatusFollows'
  BY <1>5 DEF Answer
<1>6. ASSUME NEW o \in Operations, AnswerLost(o) PROVE StatusFollows'
  BY <1>6 DEF AnswerLost
<1>7. ASSUME NEW o \in Operations, MarkFailed(o) PROVE StatusFollows'
  BY <1>7 DEF MarkFailed, SetRecord, Stored
<1>8. ASSUME NEW o \in Operations, FailedRenews(o) PROVE StatusFollows'
  BY <1>8 DEF FailedRenews
<1>9. ASSUME NEW o \in Operations, RequestDies(o) PROVE StatusFollows'
  BY <1>9 DEF RequestDies
<1>10. ASSUME NEW w \in Workers, ReadOperation(w) PROVE StatusFollows'
  BY <1>0, <1>10 DEF ReadOperation, Deliveries
<1>11. ASSUME NEW w \in Workers, SetRunning(w) PROVE StatusFollows'
  BY <1>0, <1>11 DEF SetRunning, SetRecord, Stored, Deliveries
<1>12. ASSUME NEW w \in Workers, RunningRenews(w) PROVE StatusFollows'
  BY <1>0, <1>12 DEF RunningRenews, Deliveries
<1>13. ASSUME NEW w \in Workers, WarmReturns(w) PROVE StatusFollows'
  BY <1>0, <1>13 DEF WarmReturns, SetEnded, SetRecord, Stored, Deliveries
<1>14. ASSUME NEW w \in Workers, WarmRaises(w) PROVE StatusFollows'
  BY <1>0, <1>14 DEF WarmRaises, SetEnded, SetRecord, Stored, Deliveries
<1>15. ASSUME NEW w \in Workers, EndedRenews(w) PROVE StatusFollows'
  BY <1>0, <1>15 DEF EndedRenews, Deliveries
<1>16. ASSUME NEW w \in Workers, Acknowledge(w) PROVE StatusFollows'
  BY <1>0, <1>16 DEF Acknowledge, IdleWorker, Deliveries
<1>17. ASSUME NEW w \in Workers, WorkerDies(w) PROVE StatusFollows'
  BY <1>0, <1>17 DEF WorkerDies, IdleWorker, Deliveries
<1>18. ASSUME NEW w \in Workers, NEW o \in Operations, Deliver(w, o) PROVE StatusFollows'
  BY <1>18 DEF Deliver, IdleWorker
<1>19. ASSUME Tick PROVE StatusFollows'
  BY <1>19, AgedTyped DEF Tick
<1>20. ASSUME UNCHANGED vars PROVE StatusFollows'
  BY <1>20 DEF vars
<1>21. ASSUME NEW o \in Operations, RequestStoreFails(o) PROVE StatusFollows'
  BY <1>21 DEF RequestStoreFails
<1>22. ASSUME NEW o \in Operations, RequestStoreAnswerLost(o) PROVE StatusFollows'
  BY <1>22 DEF RequestStoreAnswerLost, SetRecord, Stored
<1>23. ASSUME NEW w \in Workers, TaskStoreFails(w) PROVE StatusFollows'
  BY <1>0, <1>23 DEF TaskStoreFails, Deliveries
<1>24. ASSUME NEW w \in Workers, TaskStoreAnswerLost(w) PROVE StatusFollows'
  <2>1. /\ worker[w].op \in Operations
        /\ worker' = [worker EXCEPT ![w].pc = "ack"]
        /\ worker[w].pc # "idle"
        /\ \A p \in Operations \ {worker[w].op} : record'[p] = record[p]
        /\ UNCHANGED <<request, message, repeated, unsure>>
    BY <1>0, <1>24 DEF TaskStoreAnswerLost, SetRecord
  <2>2. ASSUME worker[w].op \in Orderly
        PROVE  /\ message[worker[w].op] = "taken"
               /\ request[worker[w].op] \notin {"idle", "point", "send", "raised", "renew"}
               /\ \A v \in Workers \ {w} : ~WorksOn(v, worker[w].op)
    BY <2>1, <2>2
  <2>3. \A v \in Workers : WorksOn(v, worker[w].op)' => v = w \/ WorksOn(v, worker[w].op)
    BY <2>1 DEF Deliveries
  <2> QED BY <2>1, <2>2, <2>3 DEF Deliveries
<1> QED
  BY <1>1, <1>2, <1>3, <1>4, <1>5, <1>6, <1>7, <1>8, <1>9, <1>10,
     <1>11, <1>12, <1>13, <1>14, <1>15, <1>16, <1>17, <1>18, <1>19, <1>20,
     <1>21, <1>22, <1>23, <1>24
  DEF Next, RequestStep, WorkerStep, Rest

Forward ==
  \A o \in Orderly :
    record[o] # None /\ record'[o] # None =>
      \/ Rank(record[o].status) < Rank(record'[o].status)
      \/ record[o].status = record'[o].status

LEMMA ForwardStep == StatusInv /\ [Next]_vars => Forward
<1> SUFFICES ASSUME StatusInv, [Next]_vars PROVE Forward
  OBVIOUS
<1> USE DEF StatusInv, OneWriter, StatusFollows, HasStatus, Orderly, WorksOn, TypeOK,
            Forward, Rank, Ended
<1> USE DEF RequestAt, WorkerAt, historyVars, storeVars
<1>0. ASSUME NEW w \in Workers, worker[w].pc # "idle"
      PROVE  worker[w].op \in Operations /\ worker[w] \in Deliveries
  BY <1>0 DEF TypeOK
<1>1. ASSUME NEW o \in Operations, CreateRecord(o) PROVE Forward
  BY <1>1 DEF CreateRecord, SetRecord, Stored
<1>2. ASSUME NEW o \in Operations, CreateLatest(o) PROVE Forward
  BY <1>2 DEF CreateLatest
<1>3. ASSUME NEW o \in Operations, BrokerAccepts(o) PROVE Forward
  BY <1>3 DEF BrokerAccepts
<1>4. ASSUME NEW o \in Operations, BrokerRefuses(o) PROVE Forward
  BY <1>4 DEF BrokerRefuses
<1>5. ASSUME NEW o \in Operations, Answer(o) PROVE Forward
  BY <1>5 DEF Answer
<1>6. ASSUME NEW o \in Operations, AnswerLost(o) PROVE Forward
  BY <1>6 DEF AnswerLost
<1>7. ASSUME NEW o \in Operations, MarkFailed(o) PROVE Forward
  BY <1>7 DEF MarkFailed, SetRecord, Stored
<1>8. ASSUME NEW o \in Operations, FailedRenews(o) PROVE Forward
  BY <1>8 DEF FailedRenews
<1>9. ASSUME NEW o \in Operations, RequestDies(o) PROVE Forward
  BY <1>9 DEF RequestDies
<1>10. ASSUME NEW w \in Workers, ReadOperation(w) PROVE Forward
  BY <1>0, <1>10 DEF ReadOperation, Deliveries
<1>11. ASSUME NEW w \in Workers, SetRunning(w) PROVE Forward
  BY <1>0, <1>11 DEF SetRunning, SetRecord, Stored, Deliveries
<1>12. ASSUME NEW w \in Workers, RunningRenews(w) PROVE Forward
  BY <1>0, <1>12 DEF RunningRenews, Deliveries
<1>13. ASSUME NEW w \in Workers, WarmReturns(w) PROVE Forward
  BY <1>0, <1>13 DEF WarmReturns, SetEnded, SetRecord, Stored, Deliveries
<1>14. ASSUME NEW w \in Workers, WarmRaises(w) PROVE Forward
  BY <1>0, <1>14 DEF WarmRaises, SetEnded, SetRecord, Stored, Deliveries
<1>15. ASSUME NEW w \in Workers, EndedRenews(w) PROVE Forward
  BY <1>0, <1>15 DEF EndedRenews, Deliveries
<1>16. ASSUME NEW w \in Workers, Acknowledge(w) PROVE Forward
  BY <1>0, <1>16 DEF Acknowledge, IdleWorker, Deliveries
<1>17. ASSUME NEW w \in Workers, WorkerDies(w) PROVE Forward
  BY <1>0, <1>17 DEF WorkerDies, IdleWorker, Deliveries
<1>18. ASSUME NEW w \in Workers, NEW o \in Operations, Deliver(w, o) PROVE Forward
  BY <1>18 DEF Deliver, IdleWorker
<1>19. ASSUME Tick PROVE Forward
  BY <1>19, AgedTyped DEF Tick
<1>20. ASSUME UNCHANGED vars PROVE Forward
  BY <1>20 DEF vars
<1>21. ASSUME NEW o \in Operations, RequestStoreFails(o) PROVE Forward
  BY <1>21 DEF RequestStoreFails
<1>22. ASSUME NEW o \in Operations, RequestStoreAnswerLost(o) PROVE Forward
  BY <1>22 DEF RequestStoreAnswerLost, SetRecord, Stored
<1>23. ASSUME NEW w \in Workers, TaskStoreFails(w) PROVE Forward
  BY <1>0, <1>23 DEF TaskStoreFails, Deliveries
<1>24. ASSUME NEW w \in Workers, TaskStoreAnswerLost(w) PROVE Forward
  BY <1>0, <1>24 DEF TaskStoreAnswerLost, SetRecord, Stored, Deliveries
<1> QED
  BY <1>1, <1>2, <1>3, <1>4, <1>5, <1>6, <1>7, <1>8, <1>9, <1>10,
     <1>11, <1>12, <1>13, <1>14, <1>15, <1>16, <1>17, <1>18, <1>19, <1>20,
     <1>21, <1>22, <1>23, <1>24
  DEF Next, RequestStep, WorkerStep, Rest

(* The request, the tasks and the clock write an operation without looking at
   it: for any number of operations and workers the status an admin polls only
   moves forward, unless the broker delivered the task twice or took a task
   whose request was told it had failed. *)
THEOREM StatusOnlyGoesForward == Spec => StatusGoesForward
<1>1. Init => StatusInv
  BY WarmAssumptions DEF Init, StatusInv, TypeOK, OneWriter, StatusFollows, HasStatus, Orderly, WorksOn,
                         RequestPcs, IdleWorker, Deliveries, WorkerPcs
<1>2. StatusInv /\ [Next]_vars => StatusInv'
  BY TypeStep, OneWriterStep, StatusFollowsStep DEF StatusInv
<1>3. StatusInv /\ [Next]_vars =>
        [\A o \in Operations \ (repeated \cup unsure) :
           record[o] # None /\ record'[o] # None =>
             \/ Rank(record[o].status) < Rank(record'[o].status)
             \/ record[o].status = record'[o].status]_vars
  BY ForwardStep DEF Forward, Orderly
<1> QED BY <1>1, <1>2, <1>3, PTL DEF Spec, StatusGoesForward
=============================================================================
