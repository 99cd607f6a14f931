--------------------------- MODULE MatrixStructure ---------------------------
(***************************************************************************)
(* The structure of the competency matrix under concurrent admin requests: *)
(* sheets, sections and subsections are created, reordered and deleted     *)
(* while questions are created, moved and deleted below them.  A request   *)
(* is one READ COMMITTED transaction, a member of Tx, that runs one SQL    *)
(* statement at a time.  A statement first takes the row locks `todo`, one *)
(* by one, and a lock lasts until the transaction ends; what a transaction *)
(* writes is seen by others once it commits.                               *)
(*                                                                         *)
(* The lock modes are PostgreSQL's: a foreign key check takes "keyShare"   *)
(* on the row it refers to, an UPDATE "noKeyUpdate", a DELETE and a        *)
(* SELECT ... FOR UPDATE "update".                                         *)
(***************************************************************************)
EXTENDS Naturals, FiniteSets, Sequences, SequencesExt

CONSTANTS Tx,                              \* concurrent requests
          Sheets, Sections, Subsections,   \* node ids
          SheetOf, SectionOf,              \* parents; no request changes them
          Items,                           \* question ids
          IdOrder,                         \* every node id once, in ORDER BY id order
          StartNodes, StartHome,           \* what the database holds at first
          Ops,                             \* the operations an instance allows
          MaxRequests,                     \* bound: requests in a behaviour
          None

VARIABLES nodes, home,   \* committed: see MatrixForest
          prio,          \* committed: priority of each node, 0 when it does not exist
          spent,         \* node and question ids that a request has used for a new row
          held,          \* the row locks of each transaction
          tx,            \* private state of each transaction
          left,          \* requests still to come
          raced          \* history: parents whose children a creation and another
                         \* creation or a reordering ordered at the same time

Forest == INSTANCE MatrixForest WITH nodes <- nodes, home <- home
RefinesForest == Forest!Spec

Nodes == Forest!Nodes
ParentOf(n) == Forest!ParentOf(n)
db == <<nodes, home, prio>>
vars == <<nodes, home, prio, spent, held, tx, left, raced>>

Lock(row, mode) == [row |-> row, mode |-> mode]
AllOps == {"createNode", "deleteNode", "reorder", "createItem", "updateItem", "deleteItem"}

ASSUME StructureAssumptions ==
  /\ SheetOf \in [Sections -> Sheets] /\ SectionOf \in [Subsections -> Sections]
  /\ Sheets \cap Sections = {} /\ Sheets \cap Subsections = {} /\ Sections \cap Subsections = {}
  /\ Nodes \cap Items = {} /\ None \notin Nodes \cup Items /\ IsFiniteSet(Items)
  /\ Ops \subseteq AllOps /\ MaxRequests \in Nat
  /\ IdOrder \in Seq(Nodes) /\ IsInjective(IdOrder) /\ Range(IdOrder) = Nodes
  /\ StartNodes \subseteq Nodes /\ StartHome \in [Items -> Subsections \cup {None}]
  /\ \A n \in StartNodes : ParentOf(n) \in StartNodes \cup {None}
  /\ \A i \in Items : StartHome[i] \in StartNodes \cup {None}

(* No transaction: what a slot of Tx holds between two requests. *)
Idle ==
  [op |-> "none", pc |-> "idle",
   node |-> None,     \* the structure node, or the parent whose children are reordered
   item |-> None,     \* the question
   sub |-> None,      \* the subsection the question is written under
   force |-> FALSE,   \* delete_with_questions
   order |-> <<>>,    \* ordered_ids
   prio |-> 0,        \* the priority read for a new node
   todo |-> <<>>,     \* locks the current statement has still to take
   got |-> {},        \* rows the current statement has locked
   gone |-> {}]       \* rows deleted so far

Siblings(n) == {m \in nodes : ParentOf(m) = n}

(* Where a node stands in ORDER BY id *)
Place(n) == CHOOSE k \in DOMAIN IdOrder : IdOrder[k] = n

(* S, ORDER BY id: a set that holds the one such list *)
Ordered(S) == {s \in SetToSeqs(S) : \A j, k \in DOMAIN s : j < k => Place(s[j]) < Place(s[k])}
ForUpdate(seq) == [k \in DOMAIN seq |-> Lock(seq[k], "update")]

(* The rows of a statement without ORDER BY come in any order. *)
AnyOrder(S, mode) == {[k \in DOMAIN s |-> Lock(s[k], mode)] : s \in SetToSeqs(S)}

(* Deviation: a count instead of max(priority) *)
NextPriorityByCount(n) == Cardinality(Siblings(n)) + 1

(* coalesce(max(priority), 0) + 1 over the children of n, read without a lock *)
NextPriority(n) ==
  1 + CHOOSE p \in {0} \cup {prio[m] : m \in Siblings(n)} :
        \A m \in Siblings(n) : prio[m] <= p

Init ==
  /\ nodes = StartNodes /\ home = StartHome
  /\ prio = [n \in Nodes |-> IF n \in StartNodes
               THEN Cardinality({m \in StartNodes : ParentOf(m) = ParentOf(n)
                      /\ Place(m) <= Place(n)})
               ELSE 0]
  /\ spent = StartNodes \cup {i \in Items : StartHome[i] # None}
  /\ held = [t \in Tx |-> {}] /\ tx = [t \in Tx |-> Idle]
  /\ left = MaxRequests /\ raced = {}

-----------------------------------------------------------------------------
(* Transactions and row locks *)

At(t, pc) == tx[t].pc = pc
Begin(t, op, rec) ==
  /\ At(t, "idle") /\ op \in Ops /\ left > 0
  /\ left' = left - 1
  /\ tx' = [tx EXCEPT ![t] = rec]
  /\ UNCHANGED <<db, held, raced>>

Release(t) == tx' = [tx EXCEPT ![t] = Idle] /\ held' = [held EXCEPT ![t] = {}]

(* The request raised and its session is rolled back. *)
Fail(t) == Release(t) /\ UNCHANGED <<db, spent, left, raced>>

(* The current statement of t has its locks. *)
Ready(t, pc) == At(t, pc) /\ tx[t].todo = <<>>

(* The next statement of t starts and finds the rows it has to lock. *)
Statement(t, pc, locks, rec) ==
  /\ tx' = [tx EXCEPT ![t] = [rec EXCEPT !.pc = pc, !.todo = locks, !.got = {}]]
  /\ UNCHANGED <<db, spent, held, left, raced>>

Conflict(m1, m2) == "update" \in {m1, m2} \/ (m1 = "noKeyUpdate" /\ m2 = "noKeyUpdate")

(* The transactions t waits for. *)
Blockers(t) ==
  IF tx[t].todo = <<>> THEN {}
  ELSE LET l == Head(tx[t].todo) IN
       {u \in Tx \ {t} : \E h \in held[u] : h.row = l.row /\ Conflict(h.mode, l.mode)}

(* The row, read again once it is free, still satisfies the statement. *)
Qualifies(t, row) ==
  IF row \in Items
  THEN IF At(t, "deleteItems") THEN home[row] \in tx[t].gone ELSE home[row] # None
  ELSE row \in nodes

Acquire(t) ==
  /\ tx[t].todo # <<>> /\ Blockers(t) = {}
  /\ LET l == Head(tx[t].todo) IN
     \/ /\ Qualifies(t, l.row)
        /\ held' = [held EXCEPT ![t] = @ \cup {l}]
        /\ tx' = [tx EXCEPT ![t].todo = Tail(@), ![t].got = @ \cup {l.row}]
        /\ UNCHANGED <<db, spent, left, raced>>
     \/ /\ ~Qualifies(t, l.row) /\ l.mode # "keyShare"   \* the row is passed over
        /\ tx' = [tx EXCEPT ![t].todo = Tail(@)]
        /\ UNCHANGED <<db, spent, held, left, raced>>
     \/ /\ ~Qualifies(t, l.row) /\ l.mode = "keyShare"   \* foreign key violation
        /\ Fail(t)

(* The requests D wait for each other in a ring. *)
Cycle(D) ==
  /\ D # {} /\ \A t \in D : Blockers(t) \cap D # {}
  /\ \A E \in (SUBSET D) \ {{}, D} : \E t \in E : Blockers(t) \cap E = {}

(* PostgreSQL's deadlock_timeout: one request of the ring is aborted. *)
AbortDeadlocked(t) == (\E D \in SUBSET Tx : t \in D /\ Cycle(D)) /\ Fail(t)

-----------------------------------------------------------------------------
(* Creation of a sheet, section or subsection *)

BeginCreateNode(t, n) ==
  /\ n \notin spent /\ ParentOf(n) \in spent \cup {None}
  /\ Begin(t, "createNode", [Idle EXCEPT !.op = "createNode", !.pc = "readParent", !.node = n])
  /\ spent' = spent \cup {n}

(* t has read what it needs to order a child, or the children, of p. *)
Orders(t, p) ==
  \/ tx[t].op = "createNode" /\ ~At(t, "readParent") /\ ParentOf(tx[t].node) = p
  \/ tx[t].op = "reorder" /\ ~At(t, "readSiblings") /\ tx[t].node = p

(* History: t reads the children of p while another request orders them. *)
NoteRace(t, p) ==
  raced' = IF \E u \in Tx \ {t} : Orders(u, p) /\ "createNode" \in {tx[t].op, tx[u].op}
           THEN raced \cup {p} ELSE raced

(* The parent's row is not found, or the key or a name exists already, in any
   case of letters: names are left out here, so a creation may always be
   refused. *)
RefuseNode(t) == Ready(t, "readParent") /\ Fail(t)

(* Otherwise the priority is read.  The INSERT then checks the parent's
   foreign key. *)
ReadParent(t) ==
  /\ Ready(t, "readParent")
  /\ LET n == tx[t].node  p == ParentOf(n) IN
     /\ p \in nodes \cup {None}
     /\ tx' = [tx EXCEPT ![t].pc = "write", ![t].prio = NextPriority(p),
                         ![t].todo = IF p = None THEN <<>> ELSE <<Lock(p, "keyShare")>>]
     /\ NoteRace(t, p)
     /\ UNCHANGED <<db, spent, held, left>>

-----------------------------------------------------------------------------
(* Deletion of a node *)

(* The SELECT ... FOR UPDATE of inspect_structure_deletion that comes first *)
BeginDeleteNode(t, n, force) ==
  /\ n \in spent
  /\ Begin(t, "deleteNode",
       [Idle EXCEPT !.op = "deleteNode", !.node = n, !.force = force,
                    !.pc = IF n \in Subsections THEN "lockSubsections" ELSE "lockRoot",
                    !.todo = ForUpdate(<<n>>)])
  /\ UNCHANGED spent

LockSubsectionsOf(t, sections, rec) ==
  \E subs \in Ordered({u \in nodes \cap Subsections : SectionOf[u] \in sections}) :
    Statement(t, "lockSubsections", ForUpdate(subs), rec)

(* Deviation: a sheet's sections are not locked before its subsections *)
LockRootPastSections(t) ==
  /\ Ready(t, "lockRoot")
  /\ \/ tx[t].got = {} /\ Fail(t)
     \/ /\ tx[t].got # {}
        /\ LockSubsectionsOf(t, {c \in Sections : tx[t].node \in {c, SheetOf[c]}}, tx[t])

(* Deviation: a node that is gone is looked for again *)
LockRootAgain(t) ==
  /\ Ready(t, "lockRoot")
  /\ LET n == tx[t].node IN
     \/ tx[t].got = {} /\ Statement(t, "lockRoot", ForUpdate(<<n>>), tx[t])
     \/ /\ tx[t].got # {} /\ n \in Sheets
        /\ \E sections \in Ordered(Siblings(n)) :
             Statement(t, "lockSections", ForUpdate(sections), tx[t])
     \/ /\ tx[t].got # {} /\ n \in Sections
        /\ LockSubsectionsOf(t, {n}, tx[t])

(* The sheet is locked first, then its sections, then their subsections;
   a section before its subsections. *)
LockRoot(t) ==
  /\ Ready(t, "lockRoot")
  /\ LET n == tx[t].node IN
     \/ tx[t].got = {} /\ Fail(t)
     \/ /\ tx[t].got # {} /\ n \in Sheets
        /\ \E sections \in Ordered(Siblings(n)) :
             Statement(t, "lockSections", ForUpdate(sections), tx[t])
     \/ /\ tx[t].got # {} /\ n \in Sections
        /\ LockSubsectionsOf(t, {n}, tx[t])

LockSections(t) ==
  /\ Ready(t, "lockSections")
  /\ LockSubsectionsOf(t, tx[t].got, tx[t])

(* Deviation: the subsections are read without a lock *)
InspectUnlocked(t) ==
  /\ At(t, "lockSubsections")
  /\ LET subs == Forest!SubsectionsUnder(tx[t].node) \cap nodes IN
     \/ /\ \E i \in Items : home[i] \in subs
        /\ ~tx[t].force
        /\ Fail(t)
     \/ /\ tx[t].force \/ \A i \in Items : home[i] \notin subs
        /\ Statement(t, "delete", <<>>, [tx[t] EXCEPT !.gone = subs])

(* Questions below the node stop the deletion unless delete_with_questions. *)
Inspect(t) ==
  /\ Ready(t, "lockSubsections")
  /\ LET subs == tx[t].got IN
     \/ /\ \/ subs = {} /\ tx[t].node \in Subsections
           \/ ~tx[t].force /\ \E i \in Items : home[i] \in subs
        /\ Fail(t)
     \/ /\ subs # {} \/ tx[t].node \notin Subsections
        /\ tx[t].force \/ \A i \in Items : home[i] \notin subs
        /\ Statement(t, "delete", <<>>, [tx[t] EXCEPT !.gone = subs])

(* DELETE of the questions whose subsection_id is in subsection_ids *)
DeleteItems(t) ==
  /\ Ready(t, "delete")
  /\ \E locks \in AnyOrder({i \in Items : home[i] \in tx[t].gone}, "update") :
       Statement(t, "deleteItems", locks, tx[t])

(* DELETE of the node; ON DELETE CASCADE takes the rows below it *)
DeleteNode(t) ==
  /\ Ready(t, "deleteItems")
  /\ LET n == tx[t].node  below == nodes \cap (Forest!Subtree(n) \ {n}) IN
     \E sections \in Ordered(below \cap Sections), subs \in Ordered(below \cap Subsections) :
       Statement(t, "cascade", ForUpdate(<<n>> \o sections \o subs),
                 [tx[t] EXCEPT !.gone = tx[t].got])

(* ON DELETE RESTRICT of the questions' foreign keys *)
Cascade(t) ==
  /\ Ready(t, "cascade")
  /\ LET stay == {i \in Items : home[i] \in tx[t].got} \ tx[t].gone IN
     \/ stay # {} /\ Fail(t)
     \/ /\ stay = {}
        /\ Statement(t, "commit", <<>>, [tx[t] EXCEPT !.gone = @ \cup tx[t].got])

-----------------------------------------------------------------------------
(* Reordering the children of a node, or the sheets *)

(* The orders a client may send: those of the children it was shown *)
Orderings(p) == SetToSeqs(Siblings(p))

BeginReorder(t, p, order) ==
  /\ Begin(t, "reorder", [Idle EXCEPT !.op = "reorder", !.pc = "readSiblings",
                                      !.node = p, !.order = order])
  /\ UNCHANGED spent

(* ordered_ids must be the existing children, each once; then one UPDATE. *)
ReadSiblings(t) ==
  /\ Ready(t, "readSiblings")
  /\ LET order == tx[t].order IN
     \/ Range(order) # Siblings(tx[t].node) /\ Fail(t)
     \/ /\ Range(order) = Siblings(tx[t].node)
        /\ \E locks \in AnyOrder(Range(order), "noKeyUpdate") :
             tx' = [tx EXCEPT ![t].pc = "write", ![t].todo = locks]
        /\ NoteRace(t, tx[t].node)
        /\ UNCHANGED <<db, spent, held, left>>

-----------------------------------------------------------------------------
(* Questions *)

BeginCreateItem(t, i, u) ==
  /\ i \notin spent
  /\ Begin(t, "createItem", [Idle EXCEPT !.op = "createItem", !.pc = "readStructure",
                                         !.item = i, !.sub = u])
  /\ spent' = spent \cup {i}

BeginUpdateItem(t, i, u) ==
  /\ i \in spent
  /\ Begin(t, "updateItem", [Idle EXCEPT !.op = "updateItem", !.pc = "readStructure",
                                         !.item = i, !.sub = u])
  /\ UNCHANGED spent

BeginDeleteItem(t, i) ==
  /\ i \in spent
  /\ Begin(t, "deleteItem", [Idle EXCEPT !.op = "deleteItem", !.pc = "lockItem",
                                         !.item = i, !.todo = ForUpdate(<<i>>)])
  /\ UNCHANGED spent

(* Deviation: columns without foreign keys *)
NoForeignKeys(u, old) == <<>>

(* The foreign keys of a question: its subsection and its sheet, checked in
   this order, each only when the column changes. *)
ForeignKeys(u, old) ==
  LET sheet(s) == IF s = None THEN None ELSE SheetOf[SectionOf[s]] IN
  (IF u = old THEN <<>> ELSE <<Lock(u, "keyShare")>>)
    \o (IF sheet(u) = sheet(old) THEN <<>> ELSE <<Lock(sheet(u), "keyShare")>>)

(* get_item_structure_by_subsection_id, without a lock *)
ReadStructure(t) ==
  /\ Ready(t, "readStructure")
  /\ \/ tx[t].sub \notin nodes /\ Fail(t)
     \/ /\ tx[t].sub \in nodes /\ tx[t].op = "createItem"
        /\ Statement(t, "write", ForeignKeys(tx[t].sub, None), tx[t])
     \/ /\ tx[t].sub \in nodes /\ tx[t].op = "updateItem"
        /\ Statement(t, "lockItem", ForUpdate(<<tx[t].item>>), tx[t])

(* get_competency_matrix_item(lock=True), then the UPDATE or DELETE *)
LockItem(t) ==
  /\ Ready(t, "lockItem")
  /\ \/ tx[t].got = {} /\ Fail(t)
     \/ /\ tx[t].got # {} /\ tx[t].op = "deleteItem"
        /\ Statement(t, "commit", <<>>, [tx[t] EXCEPT !.gone = {tx[t].item}])
     \/ /\ tx[t].got # {} /\ tx[t].op = "updateItem"
        /\ Statement(t, "write", ForeignKeys(tx[t].sub, home[tx[t].item]), tx[t])

-----------------------------------------------------------------------------
(* enumerate(ordered_ids, start=1) *)
Position(order, n) == CHOOSE k \in DOMAIN order : order[k] = n

Commit(t) ==
  /\ Ready(t, "write") \/ Ready(t, "commit")
  /\ LET x == tx[t] IN
     /\ nodes' = (nodes \cup (IF x.op = "createNode" THEN {x.node} ELSE {})) \ x.gone
     /\ home' = [i \in Items |-> IF i \in x.gone THEN None
                                 ELSE IF i = x.item THEN x.sub ELSE home[i]]
     /\ prio' = [n \in Nodes |->
                   IF n \in x.gone THEN 0
                   ELSE IF x.op = "createNode" /\ n = x.node THEN x.prio
                   ELSE IF x.op = "reorder" /\ n \in x.got THEN Position(x.order, n)
                   ELSE prio[n]]
  /\ Release(t)
  /\ UNCHANGED <<spent, left, raced>>

Step(t) ==
  \/ RefuseNode(t) \/ ReadParent(t) \/ LockRoot(t) \/ LockSections(t)
  \/ Inspect(t) \/ DeleteItems(t)
  \/ DeleteNode(t) \/ Cascade(t) \/ ReadSiblings(t) \/ ReadStructure(t) \/ LockItem(t)
  \/ Acquire(t) \/ AbortDeadlocked(t) \/ Commit(t)

Request(t) ==
  \/ \E n \in Nodes : BeginCreateNode(t, n)
  \/ \E n \in Nodes, force \in BOOLEAN : BeginDeleteNode(t, n, force)
  \/ \E p \in (nodes \ Subsections) \cup {None} :
       \E order \in Orderings(p) : BeginReorder(t, p, order)
  \/ \E i \in Items, u \in Subsections : BeginCreateItem(t, i, u) \/ BeginUpdateItem(t, i, u)
  \/ \E i \in Items : BeginDeleteItem(t, i)

(* Every request of the bound has come and ended. *)
Done == left = 0 /\ (\A t \in Tx : At(t, "idle")) /\ UNCHANGED vars

Next == (\E t \in Tx : Request(t) \/ Step(t)) \/ Done

Spec == Init /\ [][Next]_vars
FairSpec == Spec /\ \A t \in Tx : WF_vars(Step(t))

-----------------------------------------------------------------------------
(* delete_structure_node: a deletion that was not told to delete questions
   removes none, whatever was written between its inspection and its
   DELETEs. *)
QuestionsKept ==
  [][\A t \in Tx : tx[t].op = "deleteNode" /\ ~tx[t].force /\ ~At(t, "idle") /\ tx'[t] = Idle
                     => home' = home]_vars

(* _lock_structure_ids: structure deletions and creations lock from the
   sheet down, so they never wait for each other in a ring.  Every deadlock
   PostgreSQL has to break involves a question write or a reordering. *)
DeadlocksNeedOtherWrites ==
  \A D \in SUBSET Tx : Cycle(D) =>
    \E t \in D : tx[t].op \in {"createItem", "updateItem", "deleteItem", "reorder"}

(* _next_priority and _update_priorities use what was read without a lock.
   Two siblings have the same priority only if two creations under their
   parent overlapped, or a creation and a reordering: requests that follow
   each other, deletions among them, never cause it. *)
TiesNeedRaces ==
  \A n, m \in nodes :
    n # m /\ ParentOf(n) = ParentOf(m) /\ ParentOf(n) \notin raced => prio[n] # prio[m]

(* No request waits for ever: a wait ends with a commit, or PostgreSQL
   breaks the ring. *)
RequestsEnd == \A t \in Tx : (~At(t, "idle")) ~> At(t, "idle")
=============================================================================
