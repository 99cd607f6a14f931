------------------------------ MODULE FileGrace ------------------------------
(***************************************************************************)
(* FileLifecycle with a history variable: the latest time at which a       *)
(* committed request was told that it may still use a file.  It shows what *)
(* orphaned_at and the retention are for: time to save an article with a   *)
(* file after it was uploaded or dropped by another article.               *)
(***************************************************************************)
EXTENDS FileLifecycle

VARIABLE promised    \* history: start of the latest upload that returned the
                     \* file, or of the save that dropped its last use

graceVars == <<vars, promised>>

(* The files a committed transaction leaves behind as usable orphans *)
Promises(t) == tx[t].orphan \cup (IF tx[t].op = "upload" THEN {tx[t].file} ELSE {})

GraceInit == Init /\ promised = [f \in Files |-> None]

GraceNext ==
  \/ \E t \in Tx :
       /\ Commit(t)
       /\ promised' = [f \in Files |->
                         IF f \in Promises(t) /\ (promised[f] = None \/ promised[f] < tx[t].start)
                         THEN tx[t].start ELSE promised[f]]
  \/ \E t \in Tx : (Request(t) \/ Step(t) \/ Fault(t)) /\ UNCHANGED promised
  \/ Tick /\ UNCHANGED promised

GraceSpec == GraceInit /\ [][GraceNext]_graceVars

(* The cleanup task takes no object before the retention has passed since
   the last upload that returned the file and the last save that dropped it.
   MaxLatency is the exact slack: orphaned_at is the start of the request that
   wrote it, and a slow request may overwrite the time of a later one. *)
GraceKept ==
  [][\A t \in Tx, f \in objects \ objects' :
       /\ tx[t].op = "prune" /\ flock[f] = t
       /\ promised[f] # None
       => promised[f] + Retention < now + MaxLatency]_graceVars
=============================================================================
