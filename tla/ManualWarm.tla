----------------------------- MODULE ManualWarm -----------------------------
(***************************************************************************)
(* Manual cache warm operations.  An admin request stores an operation and *)
(* the pointer to the latest one in Valkey, and sends a task; a worker      *)
(* marks the operation running, warms every domain and stores the outcome. *)
(* The admin polls the operation.  Nobody compares what is stored with what *)
(* was read: every update overwrites the operation's key.                  *)
(*                                                                         *)
(* Any call of Valkey may raise, before its command is carried out or      *)
(* after: the exception leaves the request or the task, which ends.        *)
(*                                                                         *)
(* Each request makes an operation of its own, so the operation names the  *)
(* request too.  A stored operation is its status, whether it has a summary *)
(* and the time its key has left.                                          *)
(***************************************************************************)
EXTENDS Naturals

CONSTANTS Operations,   \* operation ids, one per admin request
          Accepted,     \* operations whose task reaches the broker's stream
          Workers,      \* concurrent runs of manual_cache_warm
          TTL,          \* expires_in_seconds of both kinds of keys
          MaxFaults,    \* bound: processes that die and calls of Valkey that raise
          None

ASSUME WarmAssumptions ==
  /\ Accepted \subseteq Operations /\ TTL \in Nat \ {0} /\ MaxFaults \in Nat
  /\ None \notin [op : Operations, left : Nat]

VARIABLES
  record,    \* record[o]: the stored operation, or None
  latest,    \* the pointer to the latest operation, or None
  request,   \* request[o]: where enqueue_manual_warm stands
  message,   \* message[o]: the task in the broker's stream
  worker,    \* worker[w]: a delivery of the task
  faults,    \* processes that died and calls of Valkey that raised
  repeated,  \* history: operations delivered more than once
  unsure,    \* history: operations accepted by the broker whose enqueue raised
  untracked, \* history: operations stored without the pointer: their writer
             \* stopped between the two keys, or wrote after the pointer expired
  abandoned  \* history: operations of which a delivery stopped without storing
             \* the outcome and the task is acknowledged all the same: Valkey
             \* raised, or another delivery had stored its outcome before

storeVars == <<record, latest>>
historyVars == <<repeated, unsure, untracked, abandoned>>
vars == <<record, latest, request, message, worker, faults, historyVars>>

Ended == {"succeeded", "failed"}
IdleWorker == [pc |-> "idle", op |-> None, stored |-> None]

Init ==
  /\ record = [o \in Operations |-> None] /\ latest = None
  /\ request = [o \in Operations |-> "idle"]
  /\ message = [o \in Operations |-> "none"]
  /\ worker = [w \in Workers |-> IdleWorker]
  /\ faults = 0
  /\ repeated = {} /\ unsure = {} /\ untracked = {} /\ abandoned = {}

-----------------------------------------------------------------------------
(* ValkeyCacheWarmOperationStorage: each call writes two keys in turn. *)

Stored(status, summary) == [status |-> status, summary |-> summary, left |-> TTL]

SetRecord(o, status, summary) ==
  record' = [record EXCEPT ![o] = Stored(status, summary)]

SetLatest(o) == latest' = [op |-> o, left |-> TTL]

(* Deviation: update leaves the pointer's time to live alone. *)
RenewNothing(o) == UNCHANGED <<latest, untracked>>

(* The second half of update; a pointer that is gone is not made anew. *)
RenewLatest(o) ==
  /\ latest' = IF latest = None THEN None ELSE [latest EXCEPT !.left = TTL]
  /\ untracked' = IF latest = None THEN untracked \cup {o} ELSE untracked

-----------------------------------------------------------------------------
(* CacheToolsUseCase.enqueue_manual_warm *)

RequestAt(o, from, to) ==
  /\ request[o] = from
  /\ request' = [request EXCEPT ![o] = to]

CreateRecord(o) ==
  /\ RequestAt(o, "idle", "point")
  /\ SetRecord(o, "queued", FALSE)
  /\ UNCHANGED <<latest, message, worker, faults, historyVars>>

CreateLatest(o) ==
  /\ RequestAt(o, "point", "send")
  /\ SetLatest(o)
  /\ UNCHANGED <<record, message, worker, faults, historyVars>>

(* kiq: the broker appends the task ... *)
BrokerAccepts(o) ==
  /\ o \in Accepted
  /\ RequestAt(o, "send", "sent")
  /\ message' = [message EXCEPT ![o] = "waiting"]
  /\ UNCHANGED <<storeVars, worker, faults, historyVars>>

(* ... or refuses it, *)
BrokerRefuses(o) ==
  /\ RequestAt(o, "send", "raised")
  /\ UNCHANGED <<storeVars, message, worker, faults, historyVars>>

(* Deviation: the request stores the operation again with what it knows. *)
AnswerSaved(o) ==
  /\ RequestAt(o, "sent", "done")
  /\ SetRecord(o, "queued", FALSE)
  /\ UNCHANGED <<latest, message, worker, faults, historyVars>>

(* ... and the request answers 202, *)
Answer(o) ==
  /\ RequestAt(o, "sent", "done")
  /\ UNCHANGED <<storeVars, message, worker, faults, historyVars>>

(* ... unless the broker's answer is lost and kiq raises. *)
AnswerLost(o) ==
  /\ RequestAt(o, "sent", "raised")
  /\ unsure' = unsure \cup {o}
  /\ UNCHANGED <<storeVars, message, worker, faults, repeated, untracked, abandoned>>

MarkFailed(o) ==
  /\ RequestAt(o, "raised", "renew")
  /\ SetRecord(o, "failed", FALSE)
  /\ UNCHANGED <<latest, message, worker, faults, historyVars>>

FailedRenews(o) ==
  /\ RequestAt(o, "renew", "done")
  /\ RenewLatest(o)
  /\ UNCHANGED <<record, message, worker, faults, repeated, unsure, abandoned>>

(* Valkey raises: the request ends with the exception.  The command was not
   carried out ... *)
RequestStoreFails(o) ==
  /\ request[o] \in {"idle", "point", "raised", "renew"} /\ faults < MaxFaults
  /\ request' = [request EXCEPT ![o] = "done"]
  /\ faults' = faults + 1
  /\ untracked' = IF request[o] \in {"point", "renew"} THEN untracked \cup {o} ELSE untracked
  /\ UNCHANGED <<storeVars, message, worker, repeated, unsure, abandoned>>

(* ... or it was, and the answer is lost. *)
RequestStoreAnswerLost(o) ==
  /\ faults < MaxFaults
  /\ request' = [request EXCEPT ![o] = "done"]
  /\ faults' = faults + 1
  /\ \/ /\ request[o] \in {"idle", "raised"}
        /\ SetRecord(o, IF request[o] = "idle" THEN "queued" ELSE "failed", FALSE)
        /\ untracked' = untracked \cup {o}
        /\ UNCHANGED latest
     \/ request[o] = "point" /\ SetLatest(o) /\ UNCHANGED <<record, untracked>>
     \/ request[o] = "renew" /\ RenewLatest(o) /\ UNCHANGED record
  /\ UNCHANGED <<message, worker, repeated, unsure, abandoned>>

RequestDies(o) ==
  /\ request[o] \notin {"idle", "done"} /\ faults < MaxFaults
  /\ request' = [request EXCEPT ![o] = "done"]
  /\ faults' = faults + 1
  /\ untracked' = IF request[o] \in {"point", "renew"} THEN untracked \cup {o} ELSE untracked
  /\ UNCHANGED <<storeVars, message, worker, repeated, unsure, abandoned>>

-----------------------------------------------------------------------------
(* The task manual_cache_warm: ManualCacheWarmUseCase.run *)

WorkerAt(w, from, next) ==
  /\ worker[w].pc = from
  /\ worker' = [worker EXCEPT ![w] = next]

(* The stream hands out a task, and again one that is not acknowledged. *)
Deliver(w, o) ==
  /\ message[o] \in {"waiting", "taken"}
  /\ WorkerAt(w, "idle", [IdleWorker EXCEPT !.pc = "read", !.op = o])
  /\ message' = [message EXCEPT ![o] = "taken"]
  /\ repeated' = IF message[o] = "taken" THEN repeated \cup {o} ELSE repeated
  /\ UNCHANGED <<storeVars, request, faults, unsure, untracked, abandoned>>

(* An operation that is not stored raises: the task ends, and is
   acknowledged like every other outcome. *)
ReadOperation(w) ==
  LET o == worker[w].op IN
  /\ WorkerAt(w, "read", IF record[o] = None
                         THEN [worker[w] EXCEPT !.pc = "ack"]
                         ELSE [worker[w] EXCEPT !.pc = "start", !.stored = record[o].summary])
  /\ UNCHANGED <<storeVars, request, message, faults, historyVars>>

(* Deviation: the summary of the operation that was read is kept. *)
KeepSummary(summary) == summary

RunningSummary(summary) == FALSE

SetRunning(w) ==
  /\ WorkerAt(w, "start", [worker[w] EXCEPT !.pc = "started"])
  /\ SetRecord(worker[w].op, "running", RunningSummary(worker[w].stored))
  /\ UNCHANGED <<latest, request, message, faults, historyVars>>

RunningRenews(w) ==
  /\ WorkerAt(w, "started", [worker[w] EXCEPT !.pc = "warm"])
  /\ RenewLatest(worker[w].op)
  /\ UNCHANGED <<record, request, message, faults, repeated, unsure, abandoned>>

(* executor.warm_all has ended, and its outcome is stored. *)
SetEnded(w, status) ==
  /\ WorkerAt(w, "warm", [worker[w] EXCEPT !.pc = "ended"])
  /\ SetRecord(worker[w].op, status, status = "succeeded")
  /\ UNCHANGED <<latest, request, message, faults, historyVars>>

WarmReturns(w) == SetEnded(w, "succeeded")

(* Deviation: the exception passes through without being recorded. *)
WarmRaisesOut(w) ==
  /\ WorkerAt(w, "warm", [worker[w] EXCEPT !.pc = "ack"])
  /\ UNCHANGED <<storeVars, request, message, faults, historyVars>>

WarmRaises(w) == SetEnded(w, "failed")

EndedRenews(w) ==
  /\ WorkerAt(w, "ended", [worker[w] EXCEPT !.pc = "ack"])
  /\ RenewLatest(worker[w].op)
  /\ UNCHANGED <<record, request, message, faults, repeated, unsure, abandoned>>

Acknowledge(w) ==
  /\ WorkerAt(w, "ack", IdleWorker)
  /\ message' = [message EXCEPT ![worker[w].op] = "acked"]
  /\ UNCHANGED <<storeVars, request, faults, historyVars>>

(* Valkey raises: the exception leaves run, nothing records it and the task
   is acknowledged.  The command was not carried out ... *)
TaskStoreFails(w) ==
  LET o == worker[w].op IN
  /\ worker[w].pc \in {"read", "start", "started", "warm", "ended"} /\ faults < MaxFaults
  /\ worker' = [worker EXCEPT ![w].pc = "ack"]
  /\ faults' = faults + 1
  /\ untracked' = IF worker[w].pc \in {"started", "ended"} THEN untracked \cup {o} ELSE untracked
  /\ abandoned' = IF worker[w].pc # "ended" THEN abandoned \cup {o} ELSE abandoned
  /\ UNCHANGED <<storeVars, request, message, repeated, unsure>>

(* ... or it was, and the answer is lost. *)
TaskStoreAnswerLost(w) ==
  LET o == worker[w].op IN
  /\ faults < MaxFaults
  /\ worker' = [worker EXCEPT ![w].pc = "ack"]
  /\ faults' = faults + 1
  /\ \/ /\ \/ worker[w].pc = "start" /\ SetRecord(o, "running", RunningSummary(worker[w].stored))
           \/ /\ worker[w].pc = "warm"
              /\ \E status \in Ended : SetRecord(o, status, status = "succeeded")
        /\ untracked' = untracked \cup {o}
        /\ UNCHANGED latest
     \/ worker[w].pc \in {"started", "ended"} /\ RenewLatest(o) /\ UNCHANGED record
  /\ abandoned' = IF worker[w].pc \in {"start", "started"} THEN abandoned \cup {o} ELSE abandoned
  /\ UNCHANGED <<request, message, repeated, unsure>>

WorkerDies(w) ==
  /\ worker[w].pc # "idle" /\ faults < MaxFaults
  /\ worker' = [worker EXCEPT ![w] = IdleWorker]
  /\ faults' = faults + 1
  /\ untracked' = IF worker[w].pc \in {"started", "ended"}
                  THEN untracked \cup {worker[w].op} ELSE untracked
  /\ abandoned' = IF \/ message[worker[w].op] = "acked"
                     \/ \E v \in Workers \ {w} : /\ worker[v].op = worker[w].op
                                                 /\ worker[v].pc \in {"ended", "ack"}
                  THEN abandoned \cup {worker[w].op} ELSE abandoned
  /\ UNCHANGED <<storeVars, request, message, repeated, unsure>>

-----------------------------------------------------------------------------
BetweenKeys ==
  \/ \E o \in Operations : request[o] \in {"point", "renew"}
  \/ \E w \in Workers : worker[w].pc \in {"started", "ended"}

Aged(key) ==
  IF key = None THEN None ELSE IF key.left = 1 THEN None ELSE [key EXCEPT !.left = @ - 1]

(* Time passes and keys expire.  The two writes of a storage call are
   assumed to be much closer together than the time to live. *)
Tick ==
  /\ ~BetweenKeys
  /\ \E o \in Operations : record[o] # None
  /\ record' = [o \in Operations |-> Aged(record[o])]
  /\ latest' = Aged(latest)
  /\ UNCHANGED <<request, message, worker, faults, historyVars>>

(* Everybody has gone home: the run may end here. *)
Rest ==
  /\ \A o \in Operations : request[o] = "done" /\ message[o] \in {"none", "acked"}
  /\ \A w \in Workers : worker[w].pc = "idle"
  /\ UNCHANGED vars

RequestStep(o) ==
  \/ CreateLatest(o) \/ BrokerAccepts(o) \/ BrokerRefuses(o) \/ Answer(o)
  \/ AnswerLost(o) \/ MarkFailed(o) \/ FailedRenews(o)
WorkerStep(w) ==
  \/ ReadOperation(w) \/ SetRunning(w) \/ RunningRenews(w) \/ WarmReturns(w)
  \/ WarmRaises(w) \/ EndedRenews(w) \/ Acknowledge(w)

Next ==
  \/ \E o \in Operations :
       \/ CreateRecord(o) \/ RequestStep(o)
       \/ RequestStoreFails(o) \/ RequestStoreAnswerLost(o) \/ RequestDies(o)
  \/ \E w \in Workers :
       WorkerStep(w) \/ TaskStoreFails(w) \/ TaskStoreAnswerLost(w) \/ WorkerDies(w)
  \/ \E w \in Workers, o \in Operations : Deliver(w, o)
  \/ Tick
  \/ Rest

Spec == Init /\ [][Next]_vars

(* Requests and workers that live go on, and the stream hands out what is
   not acknowledged.  kiq and warm_all end, one way or the other; nothing is
   assumed of the clock. *)
FairSpec ==
  /\ Spec
  /\ \A o \in Operations :
       WF_vars(RequestStep(o)) /\ WF_vars(\E w \in Workers : Deliver(w, o))
  /\ \A w \in Workers : WF_vars(WorkerStep(w))

-----------------------------------------------------------------------------
Rank(status) ==
  CASE status = "queued" -> 1 [] status = "running" -> 2 [] status \in Ended -> 3

(* What the admin polls moves from queued over running to one outcome and
   stays there as long as it is stored, except for an operation that was
   delivered twice or whose enqueue raised although the broker had it. *)
StatusGoesForward ==
  [][\A o \in Operations \ (repeated \cup unsure) :
       record[o] # None /\ record'[o] # None =>
         \/ Rank(record[o].status) < Rank(record'[o].status)
         \/ record[o].status = record'[o].status]_vars

(* However deliveries of an operation overlap, a summary is shown with a
   success only and every success has one. *)
SummaryOfSuccess ==
  \A o \in Operations :
    record[o] # None => record[o].summary = (record[o].status = "succeeded")

(* As long as any operation is stored the pointer to the latest is too,
   unless its writer stopped between the two keys, dying or because Valkey
   raised, or ran longer than the time to live: the pointer never expires
   first. *)
LatestOutlives ==
  \A o \in Operations \ untracked :
    record[o] # None /\ ~BetweenKeys =>
      latest # None /\ latest.left >= record[o].left

(* A task the broker has accepted leads to an operation that has ended, or
   has expired, for good: a warm that raises is recorded, and a dead worker
   is replaced by another delivery.  Only two things leave it queued or
   running until its key expires: Valkey raises in run, and the task is
   acknowledged like any other; or a worker dies after an overlapping
   delivery has stored the outcome. *)
WarmEnds ==
  \A o \in Operations :
    message[o] = "waiting" ~>
      [](record[o] = None \/ record[o].status \in Ended \/ o \in abandoned)
=============================================================================
