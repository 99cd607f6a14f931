------------------------ MODULE MatrixStructureProofs ------------------------
(***************************************************************************)
(* Proofs about MatrixStructure, for any tree of sheets, sections and      *)
(* subsections, any number of questions and of concurrent requests: the    *)
(* requests implement MatrixForest, a deletion that was not told to delete *)
(* questions removes none, equal priorities need a race, and every ring of *)
(* waiting requests contains a question write or a reordering.             *)
(*                                                                         *)
(* What a request has read stays true because of the rows it has locked,   *)
(* so the invariants say, label by label, what a request holds and what    *)
(* that protects.  They are stated for a request x, its locks H and a      *)
(* database of nodes N and homes M, so that a lemma can speak about the    *)
(* database before and after another request's commit.                     *)
(***************************************************************************)
EXTENDS MatrixStructure, CollectionTheorems

Modes == {"keyShare", "noKeyUpdate", "update"}
Rows == Nodes \cup Items
Locks == [row : Rows, mode : Modes]
Labels == {"idle", "readParent", "write", "lockRoot", "lockSections", "lockSubsections", "delete",
           "deleteItems", "cascade", "commit", "readSiblings", "readStructure", "lockItem"}

Requests ==
  [op : AllOps \cup {"none"}, pc : Labels, node : Nodes \cup {None}, item : Items \cup {None},
   sub : Subsections \cup {None}, force : BOOLEAN, order : Seq(Nodes), prio : Nat,
   todo : Seq(Locks), got : SUBSET Rows, gone : SUBSET Rows]

(* Every variable holds values of its kind. *)
TypeOK ==
  /\ nodes \subseteq Nodes /\ home \in [Items -> Subsections \cup {None}]
  /\ prio \in [Nodes -> Nat]
  /\ spent \subseteq Rows /\ held \in [Tx -> SUBSET Locks]
  /\ tx \in [Tx -> Requests] /\ left \in 0 .. MaxRequests
  /\ raced \subseteq Nodes \cup {None}

-----------------------------------------------------------------------------
(* The rows a statement has still to lock *)
Listed(x) == {x.todo[k].row : k \in DOMAIN x.todo}
Owns(H, row) == Lock(row, "update") \in H

(* What goes with a node *)
Below(n) == Forest!SubsectionsUnder(n)
Tree(n) == Forest!Subtree(n)

(* Two requests never hold conflicting locks on a row. *)
LocksApart ==
  \A t, u \in Tx : t # u =>
    \A g \in held[t], h \in held[u] : g.row = h.row => ~Conflict(g.mode, h.mode)

(* A row that is locked exists. *)
Live(H, N, M) == \A h \in H : h.row \in N \/ (h.row \in Items /\ M[h.row] # None)

(* A node is created once: no other request creates it and no row has it. *)
Fresh ==
  /\ nodes \subseteq spent /\ \A i \in Items : home[i] # None => i \in spent
  /\ \A t \in Tx : tx[t].op = "createNode" => tx[t].node \in spent \ nodes
  /\ \A t \in Tx : tx[t].op = "createItem" => tx[t].item \in spent /\ home[tx[t].item] = None
  /\ \A t, u \in Tx : t # u /\ tx[t].op = "createNode" /\ tx[u].op = "createNode"
                        => tx[t].node # tx[u].node
  /\ \A t, u \in Tx : t # u /\ tx[t].op = "createItem" /\ tx[u].op = "createItem"
                        => tx[t].item # tx[u].item

(* Outside deletions nothing is deleted. *)
IdleSafe(x) ==
  x.op = "none" => x.pc = "idle" /\ x.item = None /\ x.gone = {} /\ x.todo = <<>>

CreateSafe(x, H) ==
  x.op = "createNode" =>
    /\ x.node \in Nodes /\ x.item = None /\ x.gone = {} /\ x.pc \in {"readParent", "write"}
    /\ x.pc = "readParent" => x.todo = <<>>
    /\ x.pc = "write" /\ ParentOf(x.node) # None =>
         \/ Lock(ParentOf(x.node), "keyShare") \in H
         \/ x.todo = <<Lock(ParentOf(x.node), "keyShare")>>

(* A reordering numbers rows of its own list, each of them once. *)
ReorderSafe(x) ==
  x.op = "reorder" =>
    /\ x.item = None /\ x.gone = {} /\ x.pc \in {"readSiblings", "write"}
    /\ x.pc = "readSiblings" => x.todo = <<>> /\ x.got = {}
    /\ IsInjective(x.order)
    /\ \A m \in x.got \cup Listed(x) : m \in Range(x.order) /\ ParentOf(m) = x.node

(* A question is written under a subsection that its foreign key locks, or
   that it stands in already. *)
ItemSafe(x, H, M) ==
  /\ x.op \in {"createItem", "updateItem"} =>
       /\ x.item \in Items /\ x.sub \in Subsections /\ x.gone = {}
       /\ x.pc \in {"readStructure", "lockItem", "write"}
       /\ x.pc = "readStructure" => x.todo = <<>>
       /\ x.pc = "lockItem" => x.op = "updateItem"
       /\ x.pc = "write" =>
            \/ Lock(x.sub, "keyShare") \in H
            \/ \E k \in DOMAIN x.todo : x.todo[k] = Lock(x.sub, "keyShare")
            \/ x.op = "updateItem" /\ M[x.item] = x.sub
       /\ x.pc = "write" /\ x.op = "updateItem" => Owns(H, x.item)
  /\ x.op = "deleteItem" =>
       /\ x.item \in Items /\ x.pc \in {"lockItem", "commit"}
       /\ x.pc = "lockItem" => x.gone = {}
       /\ x.pc = "commit" => x.gone = {x.item} /\ Owns(H, x.item) /\ x.todo = <<>>
  /\ x.pc = "lockItem" =>
       /\ \A k \in DOMAIN x.todo : x.todo[k] = Lock(x.item, "update")
       /\ \A row \in x.got : row = x.item /\ Owns(H, row)

(* delete_structure_node, label by label: what is locked, what is still to
   be locked, and that nothing below the node is left out. *)
DeleteSafe(x, H, N, M) ==
  x.op = "deleteNode" =>
    LET n == x.node IN
    /\ n \in Nodes /\ x.item = None
    /\ x.pc \in {"lockRoot", "lockSections", "lockSubsections", "delete", "deleteItems",
                 "cascade", "commit"}
    /\ \A k \in DOMAIN x.todo : x.todo[k].mode = "update"
    /\ x.pc # "delete" => \A row \in x.got : Owns(H, row)
    /\ x.pc = "lockRoot" =>
         n \notin Subsections /\ x.got \subseteq {n} /\ Listed(x) \subseteq {n}
    /\ x.pc = "lockSections" =>
         /\ n \in Sheets \cap N /\ Owns(H, n)
         /\ \A c \in x.got \cup Listed(x) : c \in Sections /\ SheetOf[c] = n
         /\ \A c \in Sections \cap N : SheetOf[c] = n => c \in x.got \cup Listed(x)
    /\ x.pc = "lockSubsections" =>
         /\ \A m \in (N \cap Tree(n)) \ Subsections : Owns(H, m)
         /\ x.got \cup Listed(x) \subseteq Below(n)
         /\ n \notin Subsections => n \in N /\ N \cap Below(n) \subseteq x.got \cup Listed(x)
    /\ x.pc \in {"delete", "deleteItems", "cascade", "commit"} =>
         /\ n \in N /\ \A m \in N \cap Tree(n) : Owns(H, m)
         /\ ~x.force => \A i \in Items : M[i] \notin Below(n)
    /\ x.pc \in {"delete", "deleteItems"} => x.gone = N \cap Below(n)
    /\ x.pc \in {"delete", "commit"} => x.todo = <<>>
    /\ x.pc = "deleteItems" =>
         /\ x.got \cup Listed(x) \subseteq Items /\ \A i \in x.got : M[i] \in x.gone
         /\ \A i \in Items : M[i] \in x.gone => i \in x.got \cup Listed(x)
    /\ x.pc \in {"cascade", "commit"} =>
         /\ \A i \in Items : i \in x.gone <=> M[i] \in Below(n)
         /\ \A i \in Items \cap x.gone : Owns(H, i)
    /\ x.pc = "cascade" => x.gone \subseteq Items /\ x.got \cup Listed(x) = N \cap Tree(n)
    /\ x.pc = "commit" => \A m \in Nodes : m \in x.gone <=> m \in N \cap Tree(n)

Safe(x, H, N, M) ==
  IdleSafe(x) /\ CreateSafe(x, H) /\ ReorderSafe(x) /\ ItemSafe(x, H, M) /\ DeleteSafe(x, H, N, M)

SafeInv ==
  /\ TypeOK /\ Forest!Whole /\ LocksApart /\ Fresh
  /\ \A t \in Tx : Live(held[t], nodes, home) /\ Safe(tx[t], held[t], nodes, home)
-----------------------------------------------------------------------------
(* What priorities are decided on, as long as nothing raced: for a request x
   and a database of nodes N, priorities P and noted races R *)

(* The request has read the children whose order it decides, and their parent. *)
Ordering(x) == x.op \in {"createNode", "reorder"} /\ x.pc = "write"
Under(x) == IF x.op = "createNode" THEN ParentOf(x.node) ELSE x.node

(* The race of a creation with another request that orders the same children
   is noted. *)
RacesNoted(w, R) ==
  \A t, u \in Tx :
    t # u /\ Ordering(w[t]) /\ Ordering(w[u]) /\ w[t].op = "createNode" /\ Under(w[t]) = Under(w[u])
      => Under(w[t]) \in R

(* The priority of a new node is above those of its siblings, and a reordering
   numbers every child there is. *)
Ranked(x, N, P, R) ==
  Ordering(x) /\ Under(x) \notin R =>
    \A m \in N : ParentOf(m) = Under(x) =>
      /\ x.op = "createNode" => P[m] < x.prio
      /\ x.op = "reorder" => m \in x.got \cup Listed(x)

Apart(N, P, R) ==
  \A n, m \in N : n # m /\ ParentOf(n) = ParentOf(m) /\ ParentOf(n) \notin R => P[n] # P[m]

TiesInv ==
  /\ SafeInv /\ RacesNoted(tx, raced) /\ Apart(nodes, prio, raced)
  /\ \A t \in Tx : Ranked(tx[t], nodes, prio, raced)

-----------------------------------------------------------------------------
(* Deletions lock from the sheet down and by id. *)
Level(n) == IF n \in Sheets THEN 1 ELSE IF n \in Sections THEN 2 ELSE 3
Before(m, n) == Level(m) < Level(n) \/ (Level(m) = Level(n) /\ Place(m) < Place(n))

(* Structure requests lock upwards in this order, and a creation waits for one
   lock only, holding none. *)
Upwards(x, H) ==
  /\ x.op = "none" => H = {}
  /\ x.op = "createNode" =>
       /\ H = {} \/ (x.pc = "write" /\ x.todo = <<>>)
       /\ \A k \in DOMAIN x.todo : k = 1
  /\ x.op = "deleteNode" /\ x.pc \in {"lockRoot", "lockSections", "lockSubsections"} =>
       /\ \A h \in H : h.row \in Nodes
       /\ \A j, k \in DOMAIN x.todo : j < k => Before(x.todo[j].row, x.todo[k].row)
       /\ \A h \in H, k \in DOMAIN x.todo : Before(h.row, x.todo[k].row)
       /\ x.pc = "lockRoot" => \A h \in H : h.row = x.node
       /\ x.pc = "lockSections" => \A h \in H : h.row \notin Subsections
  /\ x.op = "deleteNode" /\ x.pc = "delete" => \A h \in H : h.row \in Nodes
  /\ x.op = "deleteNode" /\ x.pc = "deleteItems" =>
       \A h \in H : h.row \in Items => h.row \in x.got

Deleting(x) == x.op = "deleteNode" /\ x.pc = "deleteItems"

(* Of the requests w that delete questions, one waits for no question that is
   below another one's node: the one whose DELETE started last.  A question of
   its list may have left its tree, but not for a tree that was locked. *)
NoItemRing(w, M) ==
  \A D \in SUBSET Tx : D # {} /\ (\A t \in D : Deleting(w[t])) =>
    \E t \in D : \A u \in D \ {t} : \A i \in Listed(w[t]) : M[i] \notin w[u].gone

WaitInv == SafeInv /\ NoItemRing(tx, home) /\ \A t \in Tx : Upwards(tx[t], held[t])

-----------------------------------------------------------------------------
(* The kinds of rows *)
LEMMA Kinds ==
  /\ Nodes = Sheets \cup Sections \cup Subsections
  /\ SheetOf \in [Sections -> Sheets] /\ SectionOf \in [Subsections -> Sections]
  /\ Sheets \cap Sections = {} /\ Sheets \cap Subsections = {} /\ Sections \cap Subsections = {}
  /\ Nodes \cap Items = {} /\ None \notin Nodes /\ None \notin Items
BY StructureAssumptions DEF Nodes, Forest!Nodes

(* What a node is filed under, and what goes with it, by kind *)
LEMMA Parents ==
  /\ \A n \in Sheets : ParentOf(n) = None
  /\ \A n \in Sections : ParentOf(n) = SheetOf[n] /\ ParentOf(n) \in Sheets
  /\ \A n \in Subsections : ParentOf(n) = SectionOf[n] /\ ParentOf(n) \in Sections
  /\ \A n \in Nodes : ParentOf(n) \in Nodes \cup {None}
BY Kinds DEF ParentOf, Forest!ParentOf

LEMMA Trees ==
  ASSUME NEW n \in Nodes
  PROVE  /\ n \in Tree(n) /\ Tree(n) \subseteq Nodes /\ Below(n) \subseteq Subsections
         /\ \A m : m \in Below(n) <=> m \in Tree(n) /\ m \in Subsections
         /\ \A m \in Nodes : ParentOf(m) \in Tree(n) => m \in Tree(n)
         /\ \A m \in Tree(n) : m # n => ParentOf(m) \in Tree(n)
         /\ n \in Subsections => Tree(n) = {n} /\ Below(n) = {n}
         /\ \A m \in Below(n) : n \notin Subsections => SectionOf[m] \in Tree(n)
         /\ \A m \in Sheets : m \in Tree(n) => m = n
         /\ \A m \in Sections : m \in Tree(n) => m = n \/ (SheetOf[m] = n /\ n \in Sheets)
<1>1. n \in Tree(n) /\ Tree(n) \subseteq Nodes /\ Below(n) \subseteq Subsections
  BY Kinds DEF Tree, Below, Forest!Subtree, Forest!SubsectionsUnder
<1>2. \A m : m \in Below(n) <=> m \in Tree(n) /\ m \in Subsections
  BY Kinds DEF Tree, Below, Forest!Subtree, Forest!SubsectionsUnder
<1>3. ASSUME NEW m \in Nodes, ParentOf(m) \in Tree(n) PROVE m \in Tree(n)
  <2>1. m \notin Sheets
    BY <1>1, <1>3, Parents, Kinds
  <2>2. CASE m \in Sections
    BY <1>3, <2>2, Parents, Kinds DEF Tree, Forest!Subtree, Forest!SubsectionsUnder
  <2>3. CASE m \in Subsections
    BY <1>3, <2>3, Parents, Kinds DEF Tree, Forest!Subtree, Forest!SubsectionsUnder
  <2> QED BY <2>1, <2>2, <2>3, Kinds
<1>4. ASSUME NEW m \in Tree(n), m # n PROVE ParentOf(m) \in Tree(n)
  <2>1. CASE m \in Sections
    BY <1>4, <2>1, Parents, Kinds DEF Tree, Forest!Subtree, Forest!SubsectionsUnder
  <2>2. CASE m \in Subsections
    BY <1>4, <2>2, Parents, Kinds DEF Tree, Forest!Subtree, Forest!SubsectionsUnder
  <2> QED BY <1>4, <2>1, <2>2 DEF Tree, Forest!Subtree, Forest!SubsectionsUnder
<1>5. n \in Subsections => Tree(n) = {n} /\ Below(n) = {n}
  BY Kinds DEF Tree, Below, Forest!Subtree, Forest!SubsectionsUnder
<1>6. ASSUME NEW m \in Below(n), n \notin Subsections PROVE SectionOf[m] \in Tree(n)
  BY <1>6, Kinds DEF Tree, Below, Forest!Subtree, Forest!SubsectionsUnder
<1>7. \A m \in Sheets : m \in Tree(n) => m = n
  BY Kinds DEF Tree, Forest!Subtree, Forest!SubsectionsUnder
<1>8. \A m \in Sections : m \in Tree(n) => m = n \/ (SheetOf[m] = n /\ n \in Sheets)
  BY Kinds DEF Tree, Forest!Subtree, Forest!SubsectionsUnder
<1> QED BY <1>1, <1>2, <1>3, <1>4, <1>5, <1>6, <1>7, <1>8

LEMMA NodesFinite == \A S \in SUBSET Nodes : IsFiniteSet(S)
<1>1. IdOrder \in [1 .. Len(IdOrder) -> Nodes] /\ Len(IdOrder) \in Nat /\ Range(IdOrder) = Nodes
  BY StructureAssumptions
<1>2. PICK n, f : n \in Nat /\ f \in [1 .. n -> Nodes] /\ Range(f) = Nodes
  BY <1>1
<1>3. f \in Surjection(1 .. n, Nodes)
  BY <1>2 DEF Surjection, Range
<1>4. IsFiniteSet(1 .. n)
  BY <1>2, FS_Interval
<1>5. IsFiniteSet(Nodes)
  BY <1>3, <1>4, FS_Surjection
<1> QED BY <1>5, FS_Subset

LEMMA ItemsFinite == \A S \in SUBSET Items : IsFiniteSet(S)
BY StructureAssumptions, FS_Subset

(* What a list of locks asks for *)
LEMMA LocksTyped ==
  ASSUME NEW s \in Seq(Rows), NEW mode \in Modes, NEW locks,
         locks = [k \in DOMAIN s |-> Lock(s[k], mode)]
  PROVE  /\ locks \in Seq(Locks) /\ DOMAIN locks = DOMAIN s
         /\ \A k \in DOMAIN s : locks[k] = Lock(s[k], mode) /\ locks[k].row = s[k]
                                /\ locks[k].mode = mode
<1>1. \A k \in DOMAIN s : Lock(s[k], mode) \in Locks
  BY DEF Lock, Locks
<1>2. \A k \in DOMAIN s : Lock(s[k], mode).row = s[k] /\ Lock(s[k], mode).mode = mode
  BY DEF Lock
<1>3. locks \in Seq(Locks)
  BY <1>1
<1> QED BY <1>2, <1>3

LEMMA LockFields ==
  ASSUME NEW row, NEW mode
  PROVE  Lock(row, mode).row = row /\ Lock(row, mode).mode = mode
BY DEF Lock

LEMMA OneLock ==
  ASSUME NEW row \in Rows, NEW mode \in Modes
  PROVE  /\ <<Lock(row, mode)>> \in Seq(Locks)
         /\ \A k \in DOMAIN <<Lock(row, mode)>> : <<Lock(row, mode)>>[k] = Lock(row, mode)
         /\ <<Lock(row, mode)>> # <<>>
<1>1. PICK l : l = Lock(row, mode)
  OBVIOUS
<1>2. l \in Locks
  BY <1>1 DEF Lock, Locks
<1>3. <<l>> \in Seq(Locks) /\ (\A k \in DOMAIN <<l>> : <<l>>[k] = l) /\ <<l>> # <<>>
  BY <1>2
<1> QED BY <1>1, <1>3

LEMMA OneForUpdate ==
  ASSUME NEW row \in Rows
  PROVE  ForUpdate(<<row>>) = <<Lock(row, "update")>>
<1>1. PICK l : l = Lock(row, "update")
  OBVIOUS
<1>2. ForUpdate(<<row>>) = [k \in 1 .. 1 |-> l]
  BY <1>1 DEF ForUpdate
<1>3. [k \in 1 .. 1 |-> l] = <<l>>
  OBVIOUS
<1> QED BY <1>1, <1>2, <1>3

(* The head of a list is served, the rest is still to come. *)
LEMMA Served ==
  ASSUME NEW S, NEW s \in Seq(S), s # <<>>
  PROVE  /\ Head(s) \in S /\ Tail(s) \in Seq(S) /\ Head(s) = s[1] /\ 1 \in DOMAIN s
         /\ \A k \in DOMAIN Tail(s) : k + 1 \in DOMAIN s /\ Tail(s)[k] = s[k + 1] /\ k \in Nat
         /\ \A k \in DOMAIN s : k = 1 \/ (k - 1 \in DOMAIN Tail(s) /\ Tail(s)[k - 1] = s[k])
OBVIOUS

LEMMA ListServed ==
  ASSUME NEW x \in Requests, x.todo # <<>>, NEW y \in Requests, y.todo = Tail(x.todo)
  PROVE  /\ Head(x.todo) \in Locks
         /\ Listed(x) = Listed(y) \cup {Head(x.todo).row}
         /\ \A k \in DOMAIN y.todo : \E j \in DOMAIN x.todo : y.todo[k] = x.todo[j]
         /\ \E j \in DOMAIN x.todo : Head(x.todo) = x.todo[j]
         /\ \A j \in DOMAIN x.todo :
              x.todo[j] = Head(x.todo) \/ \E k \in DOMAIN y.todo : y.todo[k] = x.todo[j]
<1>1. PICK s, r : s = x.todo /\ r = y.todo
  OBVIOUS
<1>2. s \in Seq(Locks) /\ r = Tail(s) /\ s # <<>>
  BY <1>1 DEF Requests
<1>3. /\ Head(s) \in Locks /\ Head(s) = s[1] /\ 1 \in DOMAIN s
      /\ \A k \in DOMAIN r : k + 1 \in DOMAIN s /\ r[k] = s[k + 1]
      /\ \A k \in DOMAIN s : k = 1 \/ (k - 1 \in DOMAIN r /\ r[k - 1] = s[k])
  BY <1>2, Served
<1>4. \A k \in DOMAIN r : \E j \in DOMAIN s : r[k] = s[j]
  BY <1>3
<1>5. \A j \in DOMAIN s : s[j] = Head(s) \/ \E k \in DOMAIN r : r[k] = s[j]
  BY <1>3
<1>6. {s[k].row : k \in DOMAIN s} = {r[k].row : k \in DOMAIN r} \cup {Head(s).row}
  <2>1. \A k \in DOMAIN s : s[k].row = Head(s).row \/ \E j \in DOMAIN r : r[j].row = s[k].row
    BY <1>5
  <2>2. \A k \in DOMAIN r : \E j \in DOMAIN s : r[k].row = s[j].row
    BY <1>4
  <2>3. \E j \in DOMAIN s : s[j].row = Head(s).row
    BY <1>3
  <2>4. {s[k].row : k \in DOMAIN s} \subseteq {r[k].row : k \in DOMAIN r} \cup {Head(s).row}
    BY <2>1
  <2>5. {r[k].row : k \in DOMAIN r} \cup {Head(s).row} \subseteq {s[k].row : k \in DOMAIN s}
    BY <2>2, <2>3
  <2> QED BY <2>4, <2>5
<1> QED BY <1>1, <1>3, <1>4, <1>5, <1>6 DEF Listed

(* Nothing is to be locked. *)
LEMMA NothingListed ==
  ASSUME NEW x, x.todo = <<>>
  PROVE  Listed(x) = {}
BY DEF Listed

-----------------------------------------------------------------------------
(* What stays of a request from one statement to the next *)
Keeps(x, y) ==
  /\ y \in Requests
  /\ y.op = x.op /\ y.node = x.node /\ y.item = x.item /\ y.sub = x.sub /\ y.force = x.force
  /\ y.order = x.order

LEMMA IdleFields ==
  /\ Idle \in Requests /\ Idle.op = "none" /\ Idle.pc = "idle" /\ Idle.node = None
  /\ Idle.item = None /\ Idle.sub = None /\ Idle.gone = {} /\ Idle.todo = <<>>
  /\ Idle.got = {} /\ Idle.prio = 0
<1>1. <<>> \in Seq(Nodes) /\ <<>> \in Seq(Locks)
  OBVIOUS
<1> QED BY <1>1 DEF Idle, Requests, Labels

(* A step of t gives it y and leaves the other requests where they are. *)
Becomes(t, y) ==
  y \in Requests /\ tx'[t] = y /\ tx' \in [Tx -> Requests] /\ \A u \in Tx \ {t} : tx'[u] = tx[u]

LEMMA Replaced ==
  ASSUME TypeOK, NEW t \in Tx, NEW y \in Requests, tx' = [tx EXCEPT ![t] = y]
  PROVE  Becomes(t, y)
BY DEF TypeOK, Becomes

LEMMA GoneFields ==
  ASSUME NEW x \in Requests, NEW gone \in SUBSET Rows, NEW y, y = [x EXCEPT !.gone = gone]
  PROVE  /\ Keeps(x, y) /\ y.pc = x.pc /\ y.todo = x.todo /\ y.got = x.got
         /\ y.gone = gone /\ y.prio = x.prio
BY DEF Requests, Keeps

LEMMA StatementStarts ==
  ASSUME TypeOK, NEW t \in Tx, NEW x \in Requests, NEW pc \in Labels, NEW locks \in Seq(Locks),
         Statement(t, pc, locks, x)
  PROVE  \E y : /\ Becomes(t, y) /\ Keeps(x, y) /\ y.pc = pc /\ y.todo = locks /\ y.got = {}
                /\ y.gone = x.gone /\ y.prio = x.prio
<1>1. PICK y : y = [x EXCEPT !.pc = pc, !.todo = locks, !.got = {}]
  OBVIOUS
<1>2. /\ Keeps(x, y) /\ y.pc = pc /\ y.todo = locks /\ y.got = {}
      /\ y.gone = x.gone /\ y.prio = x.prio
  BY <1>1 DEF Requests, Keeps
<1>3. tx' = [tx EXCEPT ![t] = y]
  BY <1>1 DEF Statement
<1>4. y \in Requests
  BY <1>2 DEF Keeps
<1>5. Becomes(t, y)
  BY <1>3, <1>4, Replaced
<1> QED BY <1>2, <1>5

-----------------------------------------------------------------------------
(* What another request's commit may do to a database in which H is locked:
   the locked rows stay, and nothing comes below a row locked for update. *)
Spared(H, N, M, N2, M2) ==
  /\ N2 \subseteq Nodes
  /\ \A h \in H : h.row \in N => h.row \in N2
  /\ \A h \in H : h.row \in Items => M2[h.row] = M[h.row]
  /\ \A m \in N2 \ N : ParentOf(m) = None \/ (ParentOf(m) \in N /\ ~Owns(H, ParentOf(m)))
  /\ \A i \in Items : M2[i] = M[i] \/ M2[i] = None \/ (M2[i] \in N /\ ~Owns(H, M2[i]))

LEMMA LiveSpared ==
  ASSUME NEW H, NEW N, NEW M, NEW N2, NEW M2, Live(H, N, M), Spared(H, N, M, N2, M2)
  PROVE  Live(H, N2, M2)
BY DEF Live, Spared

LEMMA OwnedSpared ==
  ASSUME NEW H, NEW N, NEW M, NEW N2, NEW M2, Spared(H, N, M, N2, M2), NEW row, Owns(H, row)
  PROVE  (row \in N => row \in N2) /\ (row \in Items => M2[row] = M[row])
BY LockFields DEF Owns, Spared

(* A tree that is locked from its root down stays as it is, and no question
   comes into it. *)
LEMMA TreeSpared ==
  ASSUME NEW H, NEW N, NEW M, NEW N2, NEW M2, Spared(H, N, M, N2, M2), N \subseteq Nodes,
         NEW n \in Nodes, n \in N, \A m \in N \cap Tree(n) : Owns(H, m)
  PROVE  /\ N2 \cap Tree(n) = N \cap Tree(n) /\ n \in N2
         /\ N2 \cap Below(n) = N \cap Below(n)
         /\ \A i \in Items : M2[i] \in Below(n) => M2[i] = M[i]
<1>1. ASSUME NEW m \in N \cap Tree(n) PROVE m \in N2
  BY <1>1, OwnedSpared
<1>2. ASSUME NEW m \in N2 \cap Tree(n), m \notin N PROVE FALSE
  <2>1. m \in N2 \ N /\ m # n /\ m \in Tree(n)
    BY <1>2
  <2>2. ParentOf(m) \in Tree(n)
    BY <2>1, Trees
  <2>3. ParentOf(m) # None
    BY <2>2, Trees, Kinds
  <2>4. ParentOf(m) \in N /\ ~Owns(H, ParentOf(m))
    BY <2>1, <2>3 DEF Spared
  <2> QED BY <2>2, <2>4
<1>3. N2 \cap Tree(n) = N \cap Tree(n) /\ n \in N2
  BY <1>1, <1>2, Trees
<1>4. N2 \cap Below(n) = N \cap Below(n)
  BY <1>3, Trees
<1>5. ASSUME NEW i \in Items, M2[i] \in Below(n), M2[i] # M[i] PROVE FALSE
  <2>1. M2[i] \in Tree(n) /\ M2[i] # None
    BY <1>5, Trees, Kinds
  <2>2. M2[i] \in N /\ ~Owns(H, M2[i])
    BY <1>5, <2>1 DEF Spared
  <2> QED BY <2>1, <2>2
<1> QED BY <1>3, <1>4, <1>5

LEMMA DeleteSpared ==
  ASSUME NEW H, NEW N, NEW M, NEW N2, NEW M2, Spared(H, N, M, N2, M2), N \subseteq Nodes,
         Live(H, N, M), NEW x \in Requests, x.op = "deleteNode", DeleteSafe(x, H, N, M)
  PROVE  DeleteSafe(x, H, N2, M2)
<1> DEFINE n == x.node
<1>0. n \in Nodes /\ x.item = None
      /\ x.pc \in {"lockRoot", "lockSections", "lockSubsections", "delete", "deleteItems",
                   "cascade", "commit"}
      /\ (\A k \in DOMAIN x.todo : x.todo[k].mode = "update")
      /\ (x.pc # "delete" => \A row \in x.got : Owns(H, row))
  BY DEF DeleteSafe
<1>1. CASE x.pc = "lockRoot"
  BY <1>1 DEF DeleteSafe
<1>2. CASE x.pc = "lockSections"
  <2>1. /\ n \in Sheets \cap N /\ Owns(H, n)
        /\ \A c \in x.got \cup Listed(x) : c \in Sections /\ SheetOf[c] = n
        /\ \A c \in Sections \cap N : SheetOf[c] = n => c \in x.got \cup Listed(x)
    BY <1>2 DEF DeleteSafe
  <2>2. n \in N2
    BY <2>1, OwnedSpared
  <2>3. ASSUME NEW c \in Sections \cap N2, SheetOf[c] = n PROVE c \in x.got \cup Listed(x)
    <3>1. CASE c \in N
      BY <2>1, <2>3, <3>1
    <3>2. CASE c \notin N
      <4>1. ParentOf(c) = n /\ n # None
        BY <2>3, <1>0, Parents, Kinds
      <4>2. c \in N2 \ N
        BY <3>2, <2>3
      <4> QED BY <4>1, <4>2, <2>1 DEF Spared
    <3> QED BY <3>1, <3>2
  <2> QED BY <1>0, <1>2, <2>1, <2>2, <2>3 DEF DeleteSafe
<1>3. CASE x.pc = "lockSubsections"
  <2>1. /\ \A m \in (N \cap Tree(n)) \ Subsections : Owns(H, m)
        /\ x.got \cup Listed(x) \subseteq Below(n)
        /\ n \notin Subsections => n \in N /\ N \cap Below(n) \subseteq x.got \cup Listed(x)
    BY <1>3 DEF DeleteSafe
  <2>2. CASE n \in Subsections
    <3>1. Tree(n) = {n}
      BY <1>0, <2>2, Trees
    <3> QED BY <1>0, <1>3, <2>1, <2>2, <3>1 DEF DeleteSafe
  <2>3. CASE n \notin Subsections
    <3>1. n \in N2
      BY <1>0, <2>1, <2>3, OwnedSpared, Trees
    <3>2. ASSUME NEW m \in N2 \cap Tree(n), m \notin N PROVE m \in Subsections /\ FALSE
      <4>1. m \in N2 \ N /\ m # n /\ m \in Tree(n) /\ m \in Nodes
        BY <3>2, <2>1, <2>3 DEF Spared
      <4>2. ParentOf(m) \in Tree(n) /\ ParentOf(m) # None
        BY <1>0, <4>1, Trees, Kinds
      <4>3. ParentOf(m) \in N /\ ~Owns(H, ParentOf(m))
        BY <4>1, <4>2 DEF Spared
      <4>4. ParentOf(m) \notin Subsections
        BY <4>1, <4>2, Parents, Kinds
      <4> QED BY <2>1, <4>2, <4>3, <4>4
    <3>3. \A m \in (N2 \cap Tree(n)) \ Subsections : Owns(H, m)
      BY <2>1, <3>2
    <3>4. N2 \cap Below(n) \subseteq x.got \cup Listed(x)
      BY <1>0, <2>1, <2>3, <3>2, Trees
    <3> QED BY <1>0, <1>3, <2>1, <2>3, <3>1, <3>3, <3>4 DEF DeleteSafe
  <2> QED BY <2>2, <2>3
<1>4. CASE x.pc \in {"delete", "deleteItems", "cascade", "commit"}
  <2>1. /\ n \in N /\ \A m \in N \cap Tree(n) : Owns(H, m)
        /\ ~x.force => \A i \in Items : M[i] \notin Below(n)
    BY <1>4 DEF DeleteSafe
  <2>2. /\ N2 \cap Tree(n) = N \cap Tree(n) /\ n \in N2 /\ N2 \cap Below(n) = N \cap Below(n)
        /\ \A i \in Items : M2[i] \in Below(n) => M2[i] = M[i]
    BY <1>0, <2>1, TreeSpared
  <2>3. /\ n \in N2 /\ \A m \in N2 \cap Tree(n) : Owns(H, m)
        /\ ~x.force => \A i \in Items : M2[i] \notin Below(n)
    BY <2>1, <2>2
  <2>4. CASE x.pc = "delete"
    BY <1>0, <2>2, <2>3, <2>4 DEF DeleteSafe
  <2>5. CASE x.pc = "deleteItems"
    <3>1. /\ x.got \cup Listed(x) \subseteq Items /\ (\A i \in x.got : M[i] \in x.gone)
          /\ (\A i \in Items : M[i] \in x.gone => i \in x.got \cup Listed(x))
          /\ x.gone = N \cap Below(n)
      BY <2>5 DEF DeleteSafe
    <3>2. \A i \in x.got : M2[i] \in x.gone
      BY <1>0, <2>5, <3>1, OwnedSpared
    <3>3. \A i \in Items : M2[i] \in x.gone => i \in x.got \cup Listed(x)
      BY <2>2, <3>1
    <3> QED BY <1>0, <2>2, <2>3, <2>5, <3>1, <3>2, <3>3 DEF DeleteSafe
  <2>6. CASE x.pc \in {"cascade", "commit"}
    <3>1. /\ \A i \in Items : i \in x.gone <=> M[i] \in Below(n)
          /\ \A i \in Items \cap x.gone : Owns(H, i)
      BY <2>6 DEF DeleteSafe
    <3>2. \A i \in Items \cap x.gone : M2[i] = M[i]
      BY <3>1, OwnedSpared
    <3>3. \A i \in Items : i \in x.gone <=> M2[i] \in Below(n)
      BY <2>2, <3>1, <3>2
    <3>4. CASE x.pc = "cascade"
      <4>1. x.gone \subseteq Items /\ x.got \cup Listed(x) = N \cap Tree(n)
        BY <3>4 DEF DeleteSafe
      <4> QED BY <1>0, <2>2, <2>3, <3>1, <3>3, <3>4, <4>1 DEF DeleteSafe
    <3>5. CASE x.pc = "commit"
      <4>1. (\A m \in Nodes : m \in x.gone <=> m \in N \cap Tree(n)) /\ x.todo = <<>>
        BY <3>5 DEF DeleteSafe
      <4> QED BY <1>0, <2>2, <2>3, <3>1, <3>3, <3>5, <4>1 DEF DeleteSafe
    <3> QED BY <2>6, <3>4, <3>5
  <2> QED BY <1>4, <2>4, <2>5, <2>6
<1> QED BY <1>0, <1>1, <1>2, <1>3, <1>4

LEMMA SafeSpared ==
  ASSUME NEW H, NEW N, NEW M, NEW N2, NEW M2, Spared(H, N, M, N2, M2), N \subseteq Nodes,
         Live(H, N, M), NEW x \in Requests, Safe(x, H, N, M)
  PROVE  Safe(x, H, N2, M2)
<1>1. DeleteSafe(x, H, N2, M2)
  BY DeleteSpared DEF Safe, DeleteSafe
<1>2. ItemSafe(x, H, M2)
  <2>1. x.op = "updateItem" /\ x.pc = "write" => M2[x.item] = M[x.item]
    BY OwnedSpared DEF Safe, ItemSafe
  <2> QED BY <2>1 DEF Safe, ItemSafe
<1> QED BY <1>1, <1>2 DEF Safe

-----------------------------------------------------------------------------
(* Steps that neither write nor lock *)
LEMMA PrivateKeeps ==
  ASSUME SafeInv, NEW t \in Tx, NEW y, Becomes(t, y), UNCHANGED <<db, held>>, spent' \subseteq Rows,
         left' \in 0 .. MaxRequests, raced' \subseteq Nodes \cup {None}, Fresh',
         Safe(y, held[t], nodes, home)
  PROVE  SafeInv'
<1>1. nodes' = nodes /\ home' = home /\ prio' = prio /\ held' = held
  BY DEF db
<1>2. TypeOK'
  BY <1>1 DEF SafeInv, TypeOK, Becomes
<1>3. Forest!Whole'
  BY <1>1 DEF SafeInv, Forest!Whole, Forest!ParentOf
<1>4. LocksApart'
  BY <1>1 DEF SafeInv, LocksApart
<1>5. ASSUME NEW u \in Tx
      PROVE Live(held'[u], nodes', home') /\ Safe(tx'[u], held'[u], nodes', home')
  <2>1. tx'[u] = IF u = t THEN y ELSE tx[u]
    BY DEF Becomes
  <2>2. Safe(tx[u], held[u], nodes, home) /\ Live(held[u], nodes, home)
    BY DEF SafeInv
  <2> QED BY <1>1, <2>1, <2>2
<1> QED BY <1>2, <1>3, <1>4, <1>5 DEF SafeInv

LEMMA FreshStays ==
  ASSUME SafeInv, NEW t \in Tx, NEW y, Becomes(t, y), UNCHANGED <<nodes, home, spent>>,
         y.op = tx[t].op, y.node = tx[t].node, y.item = tx[t].item
  PROVE  Fresh'
<1>1. \A u \in Tx : tx'[u].op = tx[u].op /\ tx'[u].node = tx[u].node /\ tx'[u].item = tx[u].item
  BY DEF Becomes
<1> QED BY <1>1 DEF SafeInv, Fresh

(* A request that has just arrived *)
LEMMA ArrivalKeeps ==
  ASSUME SafeInv, NEW t \in Tx, NEW op, NEW y \in Requests, Begin(t, op, y), spent' \subseteq Rows,
         Fresh', Safe(y, held[t], nodes, home)
  PROVE  SafeInv'
<1>1. Becomes(t, y)
  BY Replaced DEF Begin, SafeInv
<1>2. left' \in 0 .. MaxRequests
  BY StructureAssumptions DEF Begin, SafeInv, TypeOK
<1>3. raced' = raced /\ UNCHANGED <<db, held>>
  BY DEF Begin
<1> QED BY <1>1, <1>2, <1>3, PrivateKeeps DEF SafeInv, TypeOK

LEMMA CreateNodeArrives ==
  ASSUME SafeInv, NEW t \in Tx, NEW n \in Nodes, BeginCreateNode(t, n)
  PROVE  SafeInv'
<1>0. Idle \in Requests
  BY IdleFields
<1>1. PICK y : y = [Idle EXCEPT !.op = "createNode", !.pc = "readParent", !.node = n]
  OBVIOUS
<1>2. /\ y \in Requests /\ y.op = "createNode" /\ y.pc = "readParent" /\ y.node = n
      /\ y.item = Idle.item /\ y.gone = Idle.gone /\ y.todo = Idle.todo
  BY <1>0, <1>1 DEF Requests, AllOps, Labels
<1>3. Safe(y, held[t], nodes, home)
  BY <1>2, IdleFields
  DEF Safe, IdleSafe, CreateSafe, ReorderSafe, ItemSafe, DeleteSafe
<1>4. Begin(t, "createNode", y) /\ n \notin spent /\ spent' = spent \cup {n}
  BY <1>1 DEF BeginCreateNode
<1>5. Becomes(t, y) /\ nodes' = nodes /\ home' = home
  BY <1>2, <1>4, Replaced DEF Begin, SafeInv, db
<1>6. Fresh'
  BY <1>2, <1>4, <1>5, Kinds DEF SafeInv, Fresh, Becomes
<1> QED BY <1>2, <1>3, <1>4, <1>6, ArrivalKeeps DEF SafeInv, TypeOK, Rows

LEMMA DeleteNodeArrives ==
  ASSUME SafeInv, NEW t \in Tx, NEW n \in Nodes, NEW force \in BOOLEAN, BeginDeleteNode(t, n, force)
  PROVE  SafeInv'
<1>0. Idle \in Requests
  BY IdleFields
<1>1. PICK y, pc, locks :
        /\ pc = IF n \in Subsections THEN "lockSubsections" ELSE "lockRoot"
        /\ locks = <<Lock(n, "update")>>
        /\ y = [Idle EXCEPT !.op = "deleteNode", !.node = n, !.force = force, !.pc = pc,
                            !.todo = locks]
  OBVIOUS
<1>2. /\ locks \in Seq(Locks) /\ \A k \in DOMAIN locks : locks[k] = Lock(n, "update")
  BY <1>1, OneLock DEF Rows, Modes
<1>3. /\ y \in Requests /\ y.op = "deleteNode" /\ y.pc = pc /\ y.node = n /\ y.todo = locks
      /\ y.item = Idle.item /\ y.gone = Idle.gone /\ y.got = Idle.got
  <2>1. pc \in Labels /\ "deleteNode" \in AllOps \cup {"none"} /\ n \in Nodes \cup {None}
    BY <1>1 DEF Labels, AllOps
  <2>2. PICK i : i = Idle
    OBVIOUS
  <2>3. i \in Requests /\ y = [i EXCEPT !.op = "deleteNode", !.node = n, !.force = force, !.pc = pc,
                                        !.todo = locks]
    BY <1>0, <1>1, <2>2
  <2>4. y \in Requests
    BY <1>2, <2>1, <2>3 DEF Requests
  <2>5. y.op = "deleteNode" /\ y.pc = pc /\ y.node = n /\ y.todo = locks
        /\ y.item = i.item /\ y.gone = i.gone /\ y.got = i.got
    BY <2>3 DEF Requests
  <2> QED BY <2>2, <2>4, <2>5
<1>4. Listed(y) \subseteq {n} /\ \A k \in DOMAIN y.todo : y.todo[k].mode = "update"
  BY <1>2, <1>3, LockFields DEF Listed
<1>5. DeleteSafe(y, held[t], nodes, home)
  <2>1. CASE n \in Subsections
    <3>1. Tree(n) = {n} /\ Below(n) = {n}
      BY <2>1, Trees
    <3> QED BY <1>1, <1>3, <1>4, <2>1, <3>1, IdleFields DEF DeleteSafe
  <2>2. CASE n \notin Subsections
    BY <1>1, <1>3, <1>4, <2>2, IdleFields DEF DeleteSafe
  <2> QED BY <2>1, <2>2
<1>6. Safe(y, held[t], nodes, home)
  BY <1>1, <1>3, <1>5, IdleFields DEF Safe, IdleSafe, CreateSafe, ReorderSafe, ItemSafe
<1>7. Begin(t, "deleteNode", y) /\ spent' = spent
  BY <1>1, OneForUpdate DEF BeginDeleteNode, Rows
<1>8. Becomes(t, y) /\ nodes' = nodes /\ home' = home
  BY <1>3, <1>7, Replaced DEF Begin, SafeInv, db
<1>9. Fresh'
  BY <1>3, <1>7, <1>8 DEF SafeInv, Fresh, Becomes
<1> QED BY <1>3, <1>6, <1>7, <1>9, ArrivalKeeps DEF SafeInv, TypeOK

LEMMA SiblingsFinite ==
  ASSUME TypeOK, NEW p
  PROVE  Siblings(p) \subseteq Nodes /\ IsFiniteSet(Siblings(p))
<1>1. Siblings(p) \subseteq Nodes
  BY DEF TypeOK, Siblings
<1> QED BY <1>1, NodesFinite

LEMMA ReorderArrives ==
  ASSUME SafeInv, NEW t \in Tx, NEW p \in (nodes \ Subsections) \cup {None},
         NEW order \in Orderings(p), BeginReorder(t, p, order)
  PROVE  SafeInv'
<1>0. Idle \in Requests /\ p \in Nodes \cup {None}
  BY IdleFields DEF SafeInv, TypeOK
<1>1. PICK y : y = [Idle EXCEPT !.op = "reorder", !.pc = "readSiblings", !.node = p, !.order = order]
  OBVIOUS
<1>2. order \in Seq(Nodes) /\ IsInjective(order)
  <2>1. order \in Seq(Siblings(p)) /\ IsInjective(order)
    BY SiblingsFinite, ListsAll DEF Orderings, SafeInv
  <2> QED BY <2>1, SiblingsFinite DEF SafeInv
<1>3. /\ y \in Requests /\ y.op = "reorder" /\ y.pc = "readSiblings" /\ y.order = order
      /\ y.item = Idle.item /\ y.gone = Idle.gone /\ y.todo = Idle.todo /\ y.got = Idle.got
  <2>1. "readSiblings" \in Labels /\ "reorder" \in AllOps \cup {"none"} /\ p \in Nodes \cup {None}
    BY <1>0 DEF Labels, AllOps
  <2>2. PICK i : i = Idle
    OBVIOUS
  <2>3. i \in Requests
        /\ y = [i EXCEPT !.op = "reorder", !.pc = "readSiblings", !.node = p, !.order = order]
    BY <1>0, <1>1, <2>2
  <2>4. y \in Requests
    BY <1>2, <2>1, <2>3 DEF Requests
  <2>5. y.op = "reorder" /\ y.pc = "readSiblings" /\ y.order = order
        /\ y.item = i.item /\ y.gone = i.gone /\ y.todo = i.todo /\ y.got = i.got
    BY <2>3 DEF Requests
  <2> QED BY <2>2, <2>4, <2>5
<1>4. Safe(y, held[t], nodes, home)
  BY <1>2, <1>3, IdleFields, NothingListed
  DEF Safe, IdleSafe, CreateSafe, ReorderSafe, ItemSafe, DeleteSafe
<1>5. Begin(t, "reorder", y) /\ spent' = spent
  BY <1>1 DEF BeginReorder
<1>6. Becomes(t, y) /\ nodes' = nodes /\ home' = home
  BY <1>3, <1>5, Replaced DEF Begin, SafeInv, db
<1>7. Fresh'
  BY <1>3, <1>5, <1>6 DEF SafeInv, Fresh, Becomes
<1> QED BY <1>3, <1>4, <1>5, <1>7, ArrivalKeeps DEF SafeInv, TypeOK

LEMMA CreateItemArrives ==
  ASSUME SafeInv, NEW t \in Tx, NEW i \in Items, NEW u \in Subsections, BeginCreateItem(t, i, u)
  PROVE  SafeInv'
<1>0. Idle \in Requests
  BY IdleFields
<1>1. PICK y : y = [Idle EXCEPT !.op = "createItem", !.pc = "readStructure", !.item = i, !.sub = u]
  OBVIOUS
<1>2. /\ y \in Requests /\ y.op = "createItem" /\ y.pc = "readStructure" /\ y.item = i /\ y.sub = u
      /\ y.gone = Idle.gone /\ y.todo = Idle.todo
  BY <1>0, <1>1 DEF Requests, AllOps, Labels
<1>3. Safe(y, held[t], nodes, home)
  BY <1>2, IdleFields
  DEF Safe, IdleSafe, CreateSafe, ReorderSafe, ItemSafe, DeleteSafe
<1>4. Begin(t, "createItem", y) /\ i \notin spent /\ spent' = spent \cup {i}
  BY <1>1 DEF BeginCreateItem
<1>5. Becomes(t, y) /\ nodes' = nodes /\ home' = home
  BY <1>2, <1>4, Replaced DEF Begin, SafeInv, db
<1>6. Fresh'
  BY <1>2, <1>4, <1>5, Kinds DEF SafeInv, Fresh, Becomes
<1> QED BY <1>2, <1>3, <1>4, <1>6, ArrivalKeeps DEF SafeInv, TypeOK, Rows

LEMMA UpdateItemArrives ==
  ASSUME SafeInv, NEW t \in Tx, NEW i \in Items, NEW u \in Subsections, BeginUpdateItem(t, i, u)
  PROVE  SafeInv'
<1>0. Idle \in Requests
  BY IdleFields
<1>1. PICK y : y = [Idle EXCEPT !.op = "updateItem", !.pc = "readStructure", !.item = i, !.sub = u]
  OBVIOUS
<1>2. /\ y \in Requests /\ y.op = "updateItem" /\ y.pc = "readStructure" /\ y.item = i /\ y.sub = u
      /\ y.gone = Idle.gone /\ y.todo = Idle.todo
  BY <1>0, <1>1 DEF Requests, AllOps, Labels
<1>3. Safe(y, held[t], nodes, home)
  BY <1>2, IdleFields
  DEF Safe, IdleSafe, CreateSafe, ReorderSafe, ItemSafe, DeleteSafe
<1>4. Begin(t, "updateItem", y) /\ spent' = spent
  BY <1>1 DEF BeginUpdateItem
<1>5. Becomes(t, y) /\ nodes' = nodes /\ home' = home
  BY <1>2, <1>4, Replaced DEF Begin, SafeInv, db
<1>6. Fresh'
  BY <1>2, <1>4, <1>5 DEF SafeInv, Fresh, Becomes
<1> QED BY <1>2, <1>3, <1>4, <1>6, ArrivalKeeps DEF SafeInv, TypeOK

LEMMA DeleteItemArrives ==
  ASSUME SafeInv, NEW t \in Tx, NEW i \in Items, BeginDeleteItem(t, i)
  PROVE  SafeInv'
<1>0. Idle \in Requests
  BY IdleFields
<1>1. PICK y, locks :
        /\ locks = <<Lock(i, "update")>>
        /\ y = [Idle EXCEPT !.op = "deleteItem", !.pc = "lockItem", !.item = i, !.todo = locks]
  OBVIOUS
<1>2. /\ locks \in Seq(Locks) /\ \A k \in DOMAIN locks : locks[k] = Lock(i, "update")
  BY <1>1, OneLock DEF Rows, Modes
<1>3. /\ y \in Requests /\ y.op = "deleteItem" /\ y.pc = "lockItem" /\ y.item = i /\ y.todo = locks
      /\ y.gone = Idle.gone /\ y.got = Idle.got
  <2>1. "lockItem" \in Labels /\ "deleteItem" \in AllOps \cup {"none"}
    BY DEF Labels, AllOps
  <2>2. PICK r : r = Idle
    OBVIOUS
  <2>3. r \in Requests
        /\ y = [r EXCEPT !.op = "deleteItem", !.pc = "lockItem", !.item = i, !.todo = locks]
    BY <1>0, <1>1, <2>2
  <2>4. y \in Requests
    BY <1>2, <2>1, <2>3 DEF Requests
  <2>5. y.op = "deleteItem" /\ y.pc = "lockItem" /\ y.item = i /\ y.todo = locks
        /\ y.gone = r.gone /\ y.got = r.got
    BY <2>3 DEF Requests
  <2> QED BY <2>2, <2>4, <2>5
<1>4. Safe(y, held[t], nodes, home)
  BY <1>2, <1>3, IdleFields DEF Safe, IdleSafe, CreateSafe, ReorderSafe, ItemSafe, DeleteSafe
<1>5. Begin(t, "deleteItem", y) /\ spent' = spent
  BY <1>1, OneForUpdate DEF BeginDeleteItem, Rows
<1>6. Becomes(t, y) /\ nodes' = nodes /\ home' = home
  BY <1>3, <1>5, Replaced DEF Begin, SafeInv, db
<1>7. Fresh'
  BY <1>3, <1>5, <1>6 DEF SafeInv, Fresh, Becomes
<1> QED BY <1>3, <1>4, <1>5, <1>7, ArrivalKeeps DEF SafeInv, TypeOK

LEMMA RequestKeeps ==
  ASSUME SafeInv, NEW t \in Tx, Request(t)
  PROVE  SafeInv'
BY CreateNodeArrives, DeleteNodeArrives, ReorderArrives, CreateItemArrives, UpdateItemArrives,
   DeleteItemArrives DEF Request

-----------------------------------------------------------------------------
(* The request raised. *)
LEMMA FailKeeps ==
  ASSUME SafeInv, NEW t \in Tx, Fail(t)
  PROVE  SafeInv'
<1>1. /\ Becomes(t, Idle) /\ held' = [held EXCEPT ![t] = {}]
      /\ nodes' = nodes /\ home' = home /\ prio' = prio /\ spent' = spent /\ left' = left
      /\ raced' = raced
  BY Replaced, IdleFields DEF SafeInv, Fail, Release, db
<1>2. \A u \in Tx : held'[u] = IF u = t THEN {} ELSE held[u]
  BY <1>1 DEF SafeInv, TypeOK
<1>3. TypeOK'
  BY <1>1 DEF SafeInv, TypeOK, Becomes
<1>4. Forest!Whole'
  BY <1>1 DEF SafeInv, Forest!Whole, Forest!ParentOf
<1>5. LocksApart'
  BY <1>2 DEF SafeInv, LocksApart
<1>6. Fresh'
  BY <1>1, IdleFields DEF SafeInv, Fresh, Becomes
<1>7. ASSUME NEW u \in Tx
      PROVE Live(held'[u], nodes', home') /\ Safe(tx'[u], held'[u], nodes', home')
  <2>1. CASE u = t
    <3>1. tx'[u] = Idle /\ held'[u] = {}
      BY <1>1, <1>2, <2>1 DEF Becomes
    <3>2. Live({}, nodes, home) /\ Safe(Idle, {}, nodes, home)
      BY IdleFields DEF Live, Safe, IdleSafe, CreateSafe, ReorderSafe, ItemSafe, DeleteSafe
    <3> QED BY <1>1, <3>1, <3>2
  <2>2. CASE u # t
    <3>1. tx'[u] = tx[u] /\ held'[u] = held[u]
      BY <1>1, <1>2, <2>2 DEF Becomes
    <3> QED BY <1>1, <3>1 DEF SafeInv
  <2> QED BY <2>1, <2>2
<1> QED BY <1>3, <1>4, <1>5, <1>6, <1>7 DEF SafeInv

-----------------------------------------------------------------------------
(* Where a request stands tells what it is about. *)
LEMMA Standing ==
  ASSUME SafeInv, NEW t \in Tx
  PROVE  /\ tx[t] \in Requests /\ held[t] \subseteq Locks
         /\ Safe(tx[t], held[t], nodes, home) /\ Live(held[t], nodes, home)
         /\ At(t, "readParent") => tx[t].op = "createNode"
         /\ tx[t].pc \in {"lockRoot", "lockSections", "lockSubsections", "delete", "deleteItems",
                          "cascade"} => tx[t].op = "deleteNode"
         /\ At(t, "readSiblings") => tx[t].op = "reorder"
         /\ At(t, "readStructure") => tx[t].op \in {"createItem", "updateItem"}
         /\ At(t, "lockItem") => tx[t].op \in {"updateItem", "deleteItem"}
         /\ At(t, "write") => tx[t].op \in {"createNode", "reorder", "createItem", "updateItem"}
         /\ At(t, "commit") => tx[t].op \in {"deleteNode", "deleteItem"}
         /\ At(t, "idle") => tx[t].op = "none"
<1>1. tx[t] \in Requests /\ held[t] \subseteq Locks
      /\ Safe(tx[t], held[t], nodes, home) /\ Live(held[t], nodes, home)
  BY DEF SafeInv, TypeOK
<1>2. PICK x, H : x = tx[t] /\ H = held[t]
  OBVIOUS
<1>3. x.op \in AllOps \cup {"none"} /\ Safe(x, H, nodes, home)
  BY <1>1, <1>2 DEF Requests
<1>4. /\ x.op = "none" => x.pc = "idle"
      /\ x.op = "createNode" => x.pc \in {"readParent", "write"}
      /\ x.op = "reorder" => x.pc \in {"readSiblings", "write"}
      /\ x.op = "createItem" => x.pc \in {"readStructure", "write"}
      /\ x.op = "updateItem" => x.pc \in {"readStructure", "lockItem", "write"}
      /\ x.op = "deleteItem" => x.pc \in {"lockItem", "commit"}
      /\ x.op = "deleteNode" => x.pc \in {"lockRoot", "lockSections", "lockSubsections", "delete",
                                          "deleteItems", "cascade", "commit"}
  BY <1>3 DEF Safe, IdleSafe, CreateSafe, ReorderSafe, ItemSafe, DeleteSafe
<1> QED BY <1>1, <1>2, <1>3, <1>4 DEF At, AllOps

(* A step on to the next statement *)
LEMMA StatementKeeps ==
  ASSUME SafeInv, NEW t \in Tx, NEW x \in Requests, NEW pc \in Labels, NEW locks \in Seq(Locks),
         Statement(t, pc, locks, x), Keeps(tx[t], x),
         \A y : /\ Keeps(x, y) /\ y.pc = pc /\ y.todo = locks /\ y.got = {} /\ y.gone = x.gone
                => Safe(y, held[t], nodes, home)
  PROVE  SafeInv'
<1>1. PICK y : /\ Becomes(t, y) /\ Keeps(x, y) /\ y.pc = pc /\ y.todo = locks /\ y.got = {}
               /\ y.gone = x.gone /\ y.prio = x.prio
  BY StatementStarts DEF SafeInv
<1>2. UNCHANGED <<db, held>> /\ spent' = spent /\ left' = left /\ raced' = raced
      /\ UNCHANGED <<nodes, home, spent>>
  BY DEF Statement, db
<1>3. Fresh'
  BY <1>1, <1>2, FreshStays DEF Keeps
<1>4. Safe(y, held[t], nodes, home)
  BY <1>1
<1> QED BY <1>1, <1>2, <1>3, <1>4, PrivateKeeps DEF SafeInv, TypeOK

LEMMA ReadParentKeeps ==
  ASSUME SafeInv, NEW t \in Tx, ReadParent(t), NextPriority(ParentOf(tx[t].node)) \in Nat
  PROVE  SafeInv'
<1>1. /\ tx[t] \in Requests /\ tx[t].op = "createNode"
      /\ Safe(tx[t], held[t], nodes, home) /\ tx[t].pc = "readParent"
  BY Standing DEF ReadParent, Ready, At
<1>2. PICK x, p, k, locks :
        /\ x = tx[t] /\ p = ParentOf(x.node) /\ k = NextPriority(p)
        /\ locks = IF p = None THEN <<>> ELSE <<Lock(p, "keyShare")>>
  OBVIOUS
<1>3. /\ x \in Requests /\ x.op = "createNode" /\ x.pc = "readParent" /\ x.node \in Nodes
      /\ x.item = None /\ x.gone = {} /\ k \in Nat
  BY <1>1, <1>2 DEF Safe, CreateSafe
<1>4. p \in Nodes \cup {None}
  BY <1>2, <1>3, Parents
<1>5. locks \in Seq(Locks)
  <2>1. CASE p = None
    BY <1>2, <2>1
  <2>2. CASE p # None
    <3>1. p \in Rows /\ "keyShare" \in Modes
      BY <1>4, <2>2 DEF Rows, Modes
    <3> QED BY <1>2, <2>2, <3>1, OneLock
  <2> QED BY <2>1, <2>2
<1>6. /\ tx' = [tx EXCEPT ![t] = [x EXCEPT !.pc = "write", !.prio = k, !.todo = locks]]
      /\ NoteRace(t, p) /\ UNCHANGED <<db, spent, held, left>>
  <2>1. /\ tx' = [tx EXCEPT ![t].pc = "write", ![t].prio = k, ![t].todo = locks]
        /\ NoteRace(t, p) /\ UNCHANGED <<db, spent, held, left>>
    BY <1>2 DEF ReadParent
  <2>2. tx \in [Tx -> Requests]
    BY DEF SafeInv, TypeOK
  <2>3. [tx EXCEPT ![t].pc = "write", ![t].prio = k, ![t].todo = locks]
          = [tx EXCEPT ![t] = [tx[t] EXCEPT !.pc = "write", !.prio = k, !.todo = locks]]
    BY <2>2
  <2> QED BY <1>2, <2>1, <2>3
<1>7. PICK y : y = [x EXCEPT !.pc = "write", !.prio = k, !.todo = locks]
  OBVIOUS
<1>8. /\ y \in Requests /\ y.op = x.op /\ y.node = x.node /\ y.item = x.item /\ y.gone = x.gone
      /\ y.pc = "write" /\ y.todo = locks
  BY <1>3, <1>5, <1>7 DEF Requests, Labels
<1>9. Safe(y, held[t], nodes, home)
  BY <1>2, <1>3, <1>8 DEF Safe, IdleSafe, CreateSafe, ReorderSafe, ItemSafe, DeleteSafe
<1>10. Becomes(t, y)
  BY <1>6, <1>7, <1>8, Replaced DEF SafeInv
<1>11. Fresh'
  BY <1>2, <1>6, <1>8, <1>10, FreshStays DEF db
<1>12. raced' \subseteq Nodes \cup {None}
  BY <1>4, <1>6 DEF NoteRace, SafeInv, TypeOK
<1> QED BY <1>6, <1>9, <1>10, <1>11, <1>12, PrivateKeeps DEF SafeInv, TypeOK

-----------------------------------------------------------------------------
(* The locks a list of statements asks for are those of the rows it names. *)
Asks(locks, S, mode) ==
  /\ locks \in Seq(Locks)
  /\ \A k \in DOMAIN locks : locks[k].row \in S /\ locks[k].mode = mode
                             /\ locks[k] = Lock(locks[k].row, mode)
  /\ \A m \in S : \E k \in DOMAIN locks : locks[k].row = m

LEMMA AsksListed ==
  ASSUME NEW locks, NEW S, NEW mode, Asks(locks, S, mode), NEW y, y.todo = locks
  PROVE  Listed(y) = S /\ \A k \in DOMAIN y.todo : y.todo[k].mode = mode
<1>1. \A k \in DOMAIN locks : locks[k].row \in S /\ locks[k].mode = mode
  BY DEF Asks
<1>2. \A m \in S : \E k \in DOMAIN locks : locks[k].row = m
  BY DEF Asks
<1>3. {locks[k].row : k \in DOMAIN locks} = S
  BY <1>1, <1>2
<1> QED BY <1>1, <1>3 DEF Listed

LEMMA ListAsks ==
  ASSUME NEW S, IsFiniteSet(S), S \subseteq Rows, NEW mode \in Modes, NEW s \in SetToSeqs(S),
         NEW locks, locks = [k \in DOMAIN s |-> Lock(s[k], mode)]
  PROVE  Asks(locks, S, mode)
<1>1. /\ s \in Seq(S) /\ (\A k \in DOMAIN s : s[k] \in S)
      /\ (\A m \in S : \E k \in DOMAIN s : s[k] = m)
  BY ListsAll
<1>2. s \in Seq(Rows)
  BY <1>1
<1>3. /\ locks \in Seq(Locks) /\ DOMAIN locks = DOMAIN s
      /\ \A k \in DOMAIN s : locks[k] = Lock(s[k], mode) /\ locks[k].row = s[k]
                             /\ locks[k].mode = mode
  BY <1>2, LocksTyped
<1> QED BY <1>1, <1>3 DEF Asks

LEMMA OrderedAsks ==
  ASSUME NEW S, S \subseteq Nodes, NEW s \in Ordered(S)
  PROVE  Asks(ForUpdate(s), S, "update")
<1>1. s \in SetToSeqs(S) /\ IsFiniteSet(S) /\ S \subseteq Rows /\ "update" \in Modes
  BY NodesFinite DEF Ordered, Rows, Modes
<1>2. ForUpdate(s) = [k \in DOMAIN s |-> Lock(s[k], "update")]
  BY DEF ForUpdate
<1> QED BY <1>1, <1>2, ListAsks

LEMMA AnyOrderAsks ==
  ASSUME NEW S, IsFiniteSet(S), S \subseteq Rows, NEW mode \in Modes, NEW locks \in AnyOrder(S, mode)
  PROVE  Asks(locks, S, mode)
<1>1. PICK s \in SetToSeqs(S) : locks = [k \in DOMAIN s |-> Lock(s[k], mode)]
  BY DEF AnyOrder
<1> QED BY <1>1, ListAsks

LEMMA SameKeeps ==
  ASSUME NEW x \in Requests
  PROVE  Keeps(x, x)
BY DEF Keeps

(* The statement that locks the subsections of some sections, all of which,
   and what else of the tree is no subsection, are locked. *)
LEMMA LockSubsectionsKeeps ==
  ASSUME SafeInv, NEW t \in Tx, tx[t].op = "deleteNode", NEW sections, sections \subseteq Sections,
         LockSubsectionsOf(t, sections, tx[t]),
         tx[t].node \in nodes \ Subsections,
         \A c \in sections : c \in Tree(tx[t].node),
         \A m \in (nodes \cap Tree(tx[t].node)) \ Subsections : Owns(held[t], m),
         \A c \in nodes \cap Sections : c \in Tree(tx[t].node) => c \in sections
  PROVE  SafeInv'
<1>1. tx[t] \in Requests /\ Safe(tx[t], held[t], nodes, home)
  BY Standing
<1>2. PICK x, n, S, H : /\ x = tx[t] /\ n = x.node /\ H = held[t]
                        /\ S = {u \in nodes \cap Subsections : SectionOf[u] \in sections}
  OBVIOUS
<1>3. /\ x \in Requests /\ x.op = "deleteNode" /\ n \in Nodes /\ x.item = None
  BY <1>1, <1>2 DEF Safe, DeleteSafe
<1>4. S \subseteq Nodes
  BY <1>2, Kinds
<1>5. S = nodes \cap Below(n)
  <2>1. ASSUME NEW u \in S PROVE u \in nodes \cap Below(n)
    <3>1. u \in nodes /\ u \in Subsections /\ SectionOf[u] \in Tree(n)
      BY <1>2, <2>1
    <3>2. u \in Tree(n)
      BY <1>3, <3>1, Trees, Parents, Kinds
    <3> QED BY <1>3, <3>1, <3>2, Trees
  <2>2. ASSUME NEW u \in nodes \cap Below(n) PROVE u \in S
    <3>1. u \in Subsections /\ n \notin Subsections /\ SectionOf[u] \in Tree(n)
      BY <1>2, <1>3, <2>2, Trees
    <3>2. ParentOf(u) = SectionOf[u] /\ SectionOf[u] \in Sections
      BY <3>1, Parents
    <3>3. SectionOf[u] \in nodes
      <4>1. Forest!ParentOf(u) \in nodes \cup {None}
        BY <2>2 DEF SafeInv, Forest!Whole
      <4>2. ParentOf(u) \in nodes \cup {None}
        BY <4>1 DEF ParentOf
      <4> QED BY <3>2, <4>2, Kinds
    <3> QED BY <1>2, <2>2, <3>1, <3>2, <3>3
  <2> QED BY <2>1, <2>2
<1>6. PICK subs \in Ordered(S) : Statement(t, "lockSubsections", ForUpdate(subs), x)
  BY <1>2 DEF LockSubsectionsOf
<1>7. Asks(ForUpdate(subs), S, "update")
  BY <1>4, OrderedAsks
<1>8. PICK locks : locks = ForUpdate(subs)
  OBVIOUS
<1>9. ASSUME NEW y, Keeps(x, y), y.pc = "lockSubsections", y.todo = locks, y.got = {}, y.gone = x.gone
      PROVE  Safe(y, H, nodes, home)
  <2>1. Listed(y) = S /\ \A k \in DOMAIN y.todo : y.todo[k].mode = "update"
    BY <1>7, <1>8, <1>9, AsksListed
  <2>2. y.op = "deleteNode" /\ y.node = n /\ y.item = None
    BY <1>2, <1>3, <1>9 DEF Keeps
  <2>3. DeleteSafe(y, H, nodes, home)
    BY <1>2, <1>3, <1>5, <1>9, <2>1, <2>2 DEF DeleteSafe
  <2> QED BY <1>9, <2>2, <2>3 DEF Safe, IdleSafe, CreateSafe, ReorderSafe, ItemSafe
<1>10. locks \in Seq(Locks) /\ "lockSubsections" \in Labels /\ Keeps(tx[t], x)
  BY <1>2, <1>3, <1>7, <1>8, SameKeeps DEF Asks, Labels
<1> QED BY <1>2, <1>3, <1>6, <1>8, <1>9, <1>10, StatementKeeps

LEMMA LockRootKeeps ==
  ASSUME SafeInv, NEW t \in Tx, LockRoot(t), ~Fail(t)
  PROVE  SafeInv'
<1>1. /\ tx[t] \in Requests /\ tx[t].op = "deleteNode" /\ Live(held[t], nodes, home)
      /\ Safe(tx[t], held[t], nodes, home) /\ tx[t].pc = "lockRoot"
  BY Standing DEF LockRoot, Ready, At
<1>2. PICK x, n, H : x = tx[t] /\ n = x.node /\ H = held[t]
  OBVIOUS
<1>3. /\ x \in Requests /\ x.op = "deleteNode" /\ n \in Nodes /\ x.item = None
      /\ n \notin Subsections /\ x.got \subseteq {n} /\ \A row \in x.got : Owns(H, row)
  BY <1>1, <1>2 DEF Safe, DeleteSafe
<1>4. x.got # {}
  BY <1>2 DEF LockRoot
<1>5. Owns(H, n) /\ n \in nodes
  BY <1>1, <1>2, <1>3, <1>4, Kinds, LockFields DEF Owns, Live
<1>6. CASE n \in Sheets
  <2>1. PICK sections \in Ordered(Siblings(n)) :
          Statement(t, "lockSections", ForUpdate(sections), x)
    BY <1>2, <1>6, Kinds DEF LockRoot
  <2>2. PICK locks : locks = ForUpdate(sections)
    OBVIOUS
  <2>3. Asks(locks, Siblings(n), "update")
    BY <2>1, <2>2, OrderedAsks, SiblingsFinite DEF SafeInv
  <2>4. \A c : c \in Siblings(n) <=> c \in Sections /\ SheetOf[c] = n /\ c \in nodes
    <3>1. nodes \subseteq Nodes
      BY DEF SafeInv, TypeOK
    <3> QED BY <1>6, <3>1, Parents, Kinds DEF Siblings
  <2>5. ASSUME NEW y, Keeps(x, y), y.pc = "lockSections", y.todo = locks, y.got = {}, y.gone = x.gone
        PROVE  Safe(y, H, nodes, home)
    <3>1. Listed(y) = Siblings(n) /\ \A k \in DOMAIN y.todo : y.todo[k].mode = "update"
      BY <2>3, <2>5, AsksListed
    <3>2. y.op = "deleteNode" /\ y.node = n /\ y.item = None
      BY <1>2, <1>3, <2>5 DEF Keeps
    <3>3. DeleteSafe(y, H, nodes, home)
      BY <1>3, <1>5, <1>6, <2>4, <2>5, <3>1, <3>2 DEF DeleteSafe
    <3> QED BY <2>5, <3>2, <3>3 DEF Safe, IdleSafe, CreateSafe, ReorderSafe, ItemSafe
  <2>6. locks \in Seq(Locks) /\ "lockSections" \in Labels /\ Keeps(tx[t], x)
    BY <1>2, <1>3, <2>3, SameKeeps DEF Asks, Labels
  <2> QED BY <1>2, <1>3, <2>1, <2>2, <2>5, <2>6, StatementKeeps
<1>7. CASE n \in Sections
  <2>1. LockSubsectionsOf(t, {n}, tx[t])
    BY <1>2, <1>7, Kinds DEF LockRoot
  <2>2. \A m \in (nodes \cap Tree(n)) \ Subsections : m = n
    <3>1. nodes \subseteq Nodes
      BY DEF SafeInv, TypeOK
    <3> QED BY <1>3, <1>7, <3>1, Trees, Kinds
  <2>3. n \in Tree(n) /\ \A c \in nodes \cap Sections : c \in Tree(n) => c \in {n}
    BY <1>3, <1>7, Trees, Kinds
  <2> QED BY <1>2, <1>3, <1>5, <1>7, <2>1, <2>2, <2>3, LockSubsectionsKeeps
<1> QED BY <1>3, <1>6, <1>7, Kinds

LEMMA LockSectionsKeeps ==
  ASSUME SafeInv, NEW t \in Tx, LockSections(t)
  PROVE  SafeInv'
<1>1. /\ tx[t] \in Requests /\ tx[t].op = "deleteNode" /\ Live(held[t], nodes, home)
      /\ Safe(tx[t], held[t], nodes, home) /\ tx[t].pc = "lockSections" /\ tx[t].todo = <<>>
  BY Standing DEF LockSections, Ready, At
<1>2. PICK x, n, H : x = tx[t] /\ n = x.node /\ H = held[t]
  OBVIOUS
<1>3. /\ n \in Sheets \cap nodes /\ Owns(H, n) /\ \A row \in x.got : Owns(H, row)
      /\ \A c \in x.got \cup Listed(x) : c \in Sections /\ SheetOf[c] = n
      /\ \A c \in Sections \cap nodes : SheetOf[c] = n => c \in x.got \cup Listed(x)
  BY <1>1, <1>2 DEF Safe, DeleteSafe
<1>4. Listed(x) = {}
  BY <1>1, <1>2, NothingListed
<1>5. n \in Nodes /\ n \notin Subsections
  BY <1>3, Kinds
<1>6. \A c \in x.got : c \in Sections /\ c \in Tree(n)
  BY <1>3, <1>5, Trees, Parents, Kinds
<1>7. \A c \in nodes \cap Sections : c \in Tree(n) => c \in x.got
  BY <1>3, <1>4, <1>5, Trees, Kinds
<1>8. \A m \in (nodes \cap Tree(n)) \ Subsections : Owns(H, m)
  <2> SUFFICES ASSUME NEW m \in (nodes \cap Tree(n)) \ Subsections PROVE Owns(H, m)
    OBVIOUS
  <2>1. m \in Sheets \/ m \in Sections
    BY <1>5, Trees, Kinds
  <2> QED BY <1>3, <1>5, <1>7, <2>1, Trees
<1> QED BY <1>1, <1>2, <1>3, <1>5, <1>6, <1>7, <1>8, LockSubsectionsKeeps DEF LockSections

LEMMA InspectKeeps ==
  ASSUME SafeInv, NEW t \in Tx, Inspect(t), ~Fail(t)
  PROVE  SafeInv'
<1>1. /\ tx[t] \in Requests /\ tx[t].op = "deleteNode" /\ Live(held[t], nodes, home)
      /\ Safe(tx[t], held[t], nodes, home) /\ tx[t].pc = "lockSubsections" /\ tx[t].todo = <<>>
  BY Standing DEF Inspect, Ready, At
<1>2. PICK x, n, H : x = tx[t] /\ n = x.node /\ H = held[t]
  OBVIOUS
<1>3. /\ x \in Requests /\ x.op = "deleteNode" /\ n \in Nodes /\ x.item = None
      /\ (\A row \in x.got : Owns(H, row))
      /\ (\A m \in (nodes \cap Tree(n)) \ Subsections : Owns(H, m))
      /\ x.got \cup Listed(x) \subseteq Below(n)
      /\ (n \notin Subsections => n \in nodes /\ nodes \cap Below(n) \subseteq x.got \cup Listed(x))
  BY <1>1, <1>2 DEF Safe, DeleteSafe
<1>4. Listed(x) = {}
  BY <1>1, <1>2, NothingListed
<1>5. /\ x.got # {} \/ n \notin Subsections
      /\ x.force \/ \A i \in Items : home[i] \notin x.got
      /\ Statement(t, "delete", <<>>, [x EXCEPT !.gone = x.got])
  BY <1>2 DEF Inspect
<1>6. \A m \in x.got : m \in nodes /\ m \in Below(n)
  <2>1. \A m \in x.got : m \in Nodes /\ m \notin Items
    BY <1>3, Trees, Kinds
  <2> QED BY <1>1, <1>2, <1>3, <2>1, LockFields DEF Owns, Live
<1>7. x.got = nodes \cap Below(n) /\ n \in nodes
  <2>1. CASE n \in Subsections
    <3>1. Below(n) = {n}
      BY <1>3, <2>1, Trees
    <3> QED BY <1>5, <1>6, <2>1, <3>1
  <2>2. CASE n \notin Subsections
    BY <1>3, <1>4, <1>6, <2>2
  <2> QED BY <2>1, <2>2
<1>8. \A m \in nodes \cap Tree(n) : Owns(H, m)
  BY <1>3, <1>7, Trees
<1>9. ~x.force => \A i \in Items : home[i] \notin Below(n)
  <2>1. \A i \in Items : home[i] \in nodes \/ home[i] = None
    BY DEF SafeInv, Forest!Whole
  <2>2. None \notin Below(n)
    BY <1>3, Trees, Kinds
  <2> QED BY <1>5, <1>7, <2>1, <2>2
<1>10. PICK g, z : g = x.got /\ z = [x EXCEPT !.gone = g]
  OBVIOUS
<1>11. g \in SUBSET Rows
  BY <1>3, <1>10 DEF Requests
<1>12. Keeps(x, z) /\ z.gone = x.got /\ z \in Requests
  <2>1. x \in Requests
    BY <1>3
  <2> QED BY <1>10, <1>11, <2>1, GoneFields DEF Keeps
<1>13. ASSUME NEW y, Keeps(z, y), y.pc = "delete", y.todo = <<>>, y.got = {}, y.gone = z.gone
       PROVE  Safe(y, H, nodes, home)
  <2>1. y.op = "deleteNode" /\ y.node = n /\ y.item = None /\ y.gone = x.got /\ y.force = x.force
    BY <1>2, <1>3, <1>12, <1>13 DEF Keeps
  <2>2. DeleteSafe(y, H, nodes, home)
    BY <1>3, <1>7, <1>8, <1>9, <1>13, <2>1 DEF DeleteSafe
  <2> QED BY <1>13, <2>1, <2>2 DEF Safe, IdleSafe, CreateSafe, ReorderSafe, ItemSafe
<1>14. <<>> \in Seq(Locks) /\ "delete" \in Labels
  BY DEF Labels
<1> QED BY <1>2, <1>5, <1>10, <1>12, <1>13, <1>14, StatementKeeps

LEMMA DeleteItemsKeeps ==
  ASSUME SafeInv, NEW t \in Tx, DeleteItems(t)
  PROVE  SafeInv'
<1>1. /\ tx[t] \in Requests /\ tx[t].op = "deleteNode"
      /\ Safe(tx[t], held[t], nodes, home) /\ tx[t].pc = "delete" /\ tx[t].todo = <<>>
  BY Standing DEF DeleteItems, Ready, At
<1>2. PICK x, n, H, S : /\ x = tx[t] /\ n = x.node /\ H = held[t]
                        /\ S = {i \in Items : home[i] \in x.gone}
  OBVIOUS
<1>3. /\ x \in Requests /\ x.op = "deleteNode" /\ n \in Nodes /\ x.item = None
      /\ n \in nodes /\ \A m \in nodes \cap Tree(n) : Owns(H, m)
      /\ ~x.force => \A i \in Items : home[i] \notin Below(n)
      /\ x.gone = nodes \cap Below(n)
  BY <1>1, <1>2 DEF Safe, DeleteSafe
<1>4. PICK locks \in AnyOrder(S, "update") : Statement(t, "deleteItems", locks, x)
  BY <1>2 DEF DeleteItems
<1>5. Asks(locks, S, "update")
  <2>1. IsFiniteSet(S) /\ S \subseteq Rows /\ "update" \in Modes
    BY <1>2, ItemsFinite DEF Rows, Modes
  <2> QED BY <1>4, <2>1, AnyOrderAsks
<1>6. ASSUME NEW y, Keeps(x, y), y.pc = "deleteItems", y.todo = locks, y.got = {}, y.gone = x.gone
      PROVE  Safe(y, H, nodes, home)
  <2>1. Listed(y) = S /\ \A k \in DOMAIN y.todo : y.todo[k].mode = "update"
    BY <1>5, <1>6, AsksListed
  <2>2. y.op = "deleteNode" /\ y.node = n /\ y.item = None /\ y.force = x.force
    BY <1>2, <1>3, <1>6 DEF Keeps
  <2>3. DeleteSafe(y, H, nodes, home)
    BY <1>2, <1>3, <1>6, <2>1, <2>2 DEF DeleteSafe
  <2> QED BY <1>6, <2>2, <2>3 DEF Safe, IdleSafe, CreateSafe, ReorderSafe, ItemSafe
<1>7. locks \in Seq(Locks) /\ "deleteItems" \in Labels /\ Keeps(tx[t], x)
  BY <1>2, <1>3, <1>5, SameKeeps DEF Asks, Labels
<1> QED BY <1>2, <1>3, <1>4, <1>6, <1>7, StatementKeeps

(* A node and two lists of what is below it, locked in this order *)
LEMMA ThreeLists ==
  ASSUME NEW n \in Nodes, NEW A \in SUBSET Nodes, NEW B \in SUBSET Nodes,
         NEW a \in Ordered(A), NEW b \in Ordered(B)
  PROVE  Asks(ForUpdate(<<n>> \o a \o b), {n} \cup A \cup B, "update")
<1>1. /\ a \in Seq(A) /\ (\A k \in DOMAIN a : a[k] \in A) /\ (\A m \in A : \E k \in DOMAIN a : a[k] = m)
      /\ b \in Seq(B) /\ (\A k \in DOMAIN b : b[k] \in B) /\ (\A m \in B : \E k \in DOMAIN b : b[k] = m)
  <2>1. a \in SetToSeqs(A) /\ b \in SetToSeqs(B) /\ IsFiniteSet(A) /\ IsFiniteSet(B)
    BY NodesFinite DEF Ordered
  <2> QED BY <2>1, ListsAll
<1>2. a \in Seq(Nodes) /\ b \in Seq(Nodes) /\ <<n>> \in Seq(Nodes)
  BY <1>1
<1>3. PICK s : s = <<n>> \o a \o b
  OBVIOUS
<1>4. /\ s \in Seq(Nodes) /\ DOMAIN s = 1 .. (1 + Len(a) + Len(b)) /\ s[1] = n
      /\ \A k \in 1 .. Len(a) : s[k + 1] = a[k]
      /\ \A k \in 1 .. Len(b) : s[k + 1 + Len(a)] = b[k]
  BY <1>2, <1>3
<1>5. \A k \in DOMAIN s : s[k] \in {n} \cup A \cup B
  <2> SUFFICES ASSUME NEW k \in DOMAIN s PROVE s[k] \in {n} \cup A \cup B
    OBVIOUS
  <2>1. k \in Nat /\ Len(a) \in Nat /\ Len(b) \in Nat /\ k >= 1 /\ k <= 1 + Len(a) + Len(b)
    BY <1>2, <1>4
  <2>2. CASE k = 1
    BY <1>4, <2>2
  <2>3. CASE k > 1 /\ k <= 1 + Len(a)
    <3>1. k - 1 \in 1 .. Len(a) /\ (k - 1) + 1 = k
      BY <2>1, <2>3
    <3>2. s[k] = a[k - 1] /\ k - 1 \in DOMAIN a
      BY <1>2, <1>4, <3>1
    <3> QED BY <1>1, <3>2
  <2>4. CASE k > 1 + Len(a)
    <3>1. k - 1 - Len(a) \in 1 .. Len(b) /\ (k - 1 - Len(a)) + 1 + Len(a) = k
      BY <2>1, <2>4
    <3>2. s[k] = b[k - 1 - Len(a)] /\ k - 1 - Len(a) \in DOMAIN b
      BY <1>2, <1>4, <3>1
    <3> QED BY <1>1, <3>2
  <2> QED BY <2>1, <2>2, <2>3, <2>4
<1>6. \A m \in {n} \cup A \cup B : \E k \in DOMAIN s : s[k] = m
  <2>0. Len(a) \in Nat /\ Len(b) \in Nat /\ DOMAIN a = 1 .. Len(a) /\ DOMAIN b = 1 .. Len(b)
    BY <1>2
  <2>1. 1 \in DOMAIN s
    BY <1>4, <2>0
  <2>2. \A m \in A : \E k \in DOMAIN s : s[k] = m
    <3> SUFFICES ASSUME NEW m \in A PROVE \E k \in DOMAIN s : s[k] = m
      OBVIOUS
    <3>1. PICK j \in DOMAIN a : a[j] = m
      BY <1>1
    <3>2. j + 1 \in DOMAIN s /\ s[j + 1] = m
      BY <1>4, <2>0, <3>1
    <3> QED BY <3>2
  <2>3. \A m \in B : \E k \in DOMAIN s : s[k] = m
    <3> SUFFICES ASSUME NEW m \in B PROVE \E k \in DOMAIN s : s[k] = m
      OBVIOUS
    <3>1. PICK j \in DOMAIN b : b[j] = m
      BY <1>1
    <3>2. j + 1 + Len(a) \in DOMAIN s /\ s[j + 1 + Len(a)] = m
      BY <1>4, <2>0, <3>1
    <3> QED BY <3>2
  <2> QED BY <1>4, <2>1, <2>2, <2>3
<1>7. s \in Seq(Rows) /\ "update" \in Modes
  BY <1>4 DEF Rows, Modes
<1>8. PICK locks : locks = [k \in DOMAIN s |-> Lock(s[k], "update")]
  OBVIOUS
<1>9. /\ locks \in Seq(Locks) /\ DOMAIN locks = DOMAIN s
      /\ \A k \in DOMAIN s : locks[k] = Lock(s[k], "update") /\ locks[k].row = s[k]
                             /\ locks[k].mode = "update"
  BY <1>7, <1>8, LocksTyped
<1>10. Asks(locks, {n} \cup A \cup B, "update")
  BY <1>5, <1>6, <1>9 DEF Asks
<1> QED BY <1>3, <1>8, <1>10 DEF ForUpdate

LEMMA DeleteNodeKeeps ==
  ASSUME SafeInv, NEW t \in Tx, DeleteNode(t)
  PROVE  SafeInv'
<1>1. /\ tx[t] \in Requests /\ tx[t].op = "deleteNode" /\ Live(held[t], nodes, home)
      /\ Safe(tx[t], held[t], nodes, home) /\ tx[t].pc = "deleteItems" /\ tx[t].todo = <<>>
  BY Standing DEF DeleteNode, Ready, At
<1>2. PICK x, n, H, A, B : /\ x = tx[t] /\ n = x.node /\ H = held[t]
                           /\ A = (nodes \cap (Tree(n) \ {n})) \cap Sections
                           /\ B = (nodes \cap (Tree(n) \ {n})) \cap Subsections
  OBVIOUS
<1>3. /\ x \in Requests /\ x.op = "deleteNode" /\ n \in Nodes /\ x.item = None
      /\ (\A row \in x.got : Owns(H, row))
      /\ n \in nodes /\ (\A m \in nodes \cap Tree(n) : Owns(H, m))
      /\ (~x.force => \A i \in Items : home[i] \notin Below(n))
      /\ x.gone = nodes \cap Below(n)
      /\ x.got \cup Listed(x) \subseteq Items /\ (\A i \in x.got : home[i] \in x.gone)
      /\ (\A i \in Items : home[i] \in x.gone => i \in x.got \cup Listed(x))
  BY <1>1, <1>2 DEF Safe, DeleteSafe
<1>4. Listed(x) = {}
  BY <1>1, <1>2, NothingListed
<1>5. PICK sections \in Ordered(A), subs \in Ordered(B) :
        Statement(t, "cascade", ForUpdate(<<n>> \o sections \o subs), [x EXCEPT !.gone = x.got])
  BY <1>2 DEF DeleteNode, Tree
<1>6. PICK locks : locks = ForUpdate(<<n>> \o sections \o subs)
  OBVIOUS
<1>7. Asks(locks, {n} \cup A \cup B, "update")
  <2>1. A \in SUBSET Nodes /\ B \in SUBSET Nodes
    BY <1>2, Kinds
  <2> QED BY <1>3, <1>5, <1>6, <2>1, ThreeLists
<1>8. {n} \cup A \cup B = nodes \cap Tree(n)
  <2>1. \A m \in Tree(n) : m \in Sheets => m = n
    BY <1>3, Trees
  <2>2. Tree(n) \subseteq Sheets \cup Sections \cup Subsections /\ n \in Tree(n)
    BY <1>3, Trees, Kinds
  <2> QED BY <1>2, <1>3, <2>1, <2>2
<1>9. \A i \in Items : i \in x.got <=> home[i] \in Below(n)
  <2>1. \A i \in Items : home[i] \in nodes \/ home[i] = None
    BY DEF SafeInv, Forest!Whole
  <2>2. None \notin Below(n)
    BY <1>3, Trees, Kinds
  <2> QED BY <1>3, <1>4, <2>1, <2>2
<1>10. PICK g, z : g = x.got /\ z = [x EXCEPT !.gone = g]
  OBVIOUS
<1>11. g \in SUBSET Rows
  BY <1>3, <1>10 DEF Requests
<1>12. Keeps(x, z) /\ z.gone = x.got /\ z \in Requests
  <2>1. x \in Requests
    BY <1>3
  <2> QED BY <1>10, <1>11, <2>1, GoneFields DEF Keeps
<1>13. ASSUME NEW y, Keeps(z, y), y.pc = "cascade", y.todo = locks, y.got = {}, y.gone = z.gone
       PROVE  Safe(y, H, nodes, home)
  <2>1. y.op = "deleteNode" /\ y.node = n /\ y.item = None /\ y.gone = x.got /\ y.force = x.force
    BY <1>2, <1>3, <1>12, <1>13 DEF Keeps
  <2>2. Listed(y) = nodes \cap Tree(n) /\ \A k \in DOMAIN y.todo : y.todo[k].mode = "update"
    BY <1>7, <1>8, <1>13, AsksListed
  <2>3. DeleteSafe(y, H, nodes, home)
    BY <1>3, <1>4, <1>9, <1>13, <2>1, <2>2 DEF DeleteSafe
  <2> QED BY <1>13, <2>1, <2>3 DEF Safe, IdleSafe, CreateSafe, ReorderSafe, ItemSafe
<1>14. locks \in Seq(Locks) /\ "cascade" \in Labels
  BY <1>7 DEF Asks, Labels
<1> QED BY <1>2, <1>5, <1>6, <1>10, <1>12, <1>13, <1>14, StatementKeeps

LEMMA CascadeKeeps ==
  ASSUME SafeInv, NEW t \in Tx, Cascade(t), ~Fail(t)
  PROVE  SafeInv'
<1>1. /\ tx[t] \in Requests /\ tx[t].op = "deleteNode" /\ Live(held[t], nodes, home)
      /\ Safe(tx[t], held[t], nodes, home) /\ tx[t].pc = "cascade" /\ tx[t].todo = <<>>
  BY Standing DEF Cascade, Ready, At
<1>2. PICK x, n, H : x = tx[t] /\ n = x.node /\ H = held[t]
  OBVIOUS
<1>3. /\ x \in Requests /\ x.op = "deleteNode" /\ n \in Nodes /\ x.item = None
      /\ n \in nodes /\ (\A m \in nodes \cap Tree(n) : Owns(H, m))
      /\ (~x.force => \A i \in Items : home[i] \notin Below(n))
      /\ (\A i \in Items : i \in x.gone <=> home[i] \in Below(n))
      /\ (\A i \in Items \cap x.gone : Owns(H, i))
      /\ x.gone \subseteq Items /\ x.got \cup Listed(x) = nodes \cap Tree(n)
  BY <1>1, <1>2 DEF Safe, DeleteSafe
<1>4. x.got = nodes \cap Tree(n)
  BY <1>1, <1>2, <1>3, NothingListed
<1>5. PICK g, z : g = x.gone \cup x.got /\ z = [x EXCEPT !.gone = g]
  OBVIOUS
<1>6. Statement(t, "commit", <<>>, z)
  BY <1>2, <1>5 DEF Cascade
<1>7. g \in SUBSET Rows
  BY <1>3, <1>5 DEF Requests
<1>8. Keeps(x, z) /\ z.gone = g /\ z \in Requests
  BY <1>3, <1>5, <1>7, GoneFields DEF Keeps
<1>9. /\ \A i \in Items : i \in g <=> i \in x.gone
      /\ \A m \in Nodes : m \in g <=> m \in nodes \cap Tree(n)
  <2>1. nodes \subseteq Nodes /\ \A m \in Nodes : m \notin Items
    BY Kinds DEF SafeInv, TypeOK
  <2> QED BY <1>3, <1>4, <1>5, <2>1
<1>10. ASSUME NEW y, Keeps(z, y), y.pc = "commit", y.todo = <<>>, y.got = {}, y.gone = z.gone
       PROVE  Safe(y, H, nodes, home)
  <2>1. y.op = "deleteNode" /\ y.node = n /\ y.item = None /\ y.gone = g /\ y.force = x.force
    BY <1>2, <1>3, <1>8, <1>10 DEF Keeps
  <2>2. DeleteSafe(y, H, nodes, home)
    BY <1>3, <1>9, <1>10, <2>1 DEF DeleteSafe
  <2> QED BY <1>10, <2>1, <2>2 DEF Safe, IdleSafe, CreateSafe, ReorderSafe, ItemSafe
<1>11. <<>> \in Seq(Locks) /\ "commit" \in Labels
  BY DEF Labels
<1> QED BY <1>2, <1>6, <1>8, <1>10, <1>11, StatementKeeps

LEMMA ReadSiblingsKeeps ==
  ASSUME SafeInv, NEW t \in Tx, ReadSiblings(t), ~Fail(t)
  PROVE  SafeInv'
<1>1. /\ tx[t] \in Requests /\ tx[t].op = "reorder"
      /\ Safe(tx[t], held[t], nodes, home) /\ tx[t].pc = "readSiblings"
  BY Standing DEF ReadSiblings, Ready, At
<1>2. PICK x, S : x = tx[t] /\ S = Siblings(x.node)
  OBVIOUS
<1>3. /\ x \in Requests /\ x.op = "reorder" /\ x.item = None /\ x.gone = {} /\ x.got = {}
      /\ IsInjective(x.order) /\ S = Range(x.order)
  <2>1. Range(x.order) = Siblings(x.node)
    BY <1>2 DEF ReadSiblings
  <2> QED BY <1>1, <1>2, <2>1 DEF Safe, ReorderSafe
<1>4. PICK locks \in AnyOrder(S, "noKeyUpdate") :
        tx' = [tx EXCEPT ![t].pc = "write", ![t].todo = locks]
  BY <1>2 DEF ReadSiblings
<1>5. NoteRace(t, x.node) /\ UNCHANGED <<db, spent, held, left>>
  BY <1>2 DEF ReadSiblings
<1>6. Asks(locks, S, "noKeyUpdate")
  <2>1. IsFiniteSet(S) /\ S \subseteq Rows /\ "noKeyUpdate" \in Modes
    BY <1>2, SiblingsFinite DEF Rows, Modes, SafeInv
  <2> QED BY <1>4, <2>1, AnyOrderAsks
<1>7. tx' = [tx EXCEPT ![t] = [x EXCEPT !.pc = "write", !.todo = locks]]
  <2>1. tx \in [Tx -> Requests]
    BY DEF SafeInv, TypeOK
  <2>2. [tx EXCEPT ![t].pc = "write", ![t].todo = locks]
          = [tx EXCEPT ![t] = [tx[t] EXCEPT !.pc = "write", !.todo = locks]]
    BY <2>1
  <2> QED BY <1>2, <1>4, <2>2
<1>8. PICK y : y = [x EXCEPT !.pc = "write", !.todo = locks]
  OBVIOUS
<1>9. /\ y \in Requests /\ y.op = x.op /\ y.node = x.node /\ y.item = x.item /\ y.gone = x.gone
      /\ y.pc = "write" /\ y.todo = locks /\ y.order = x.order /\ y.got = x.got
  <2>1. locks \in Seq(Locks)
    BY <1>6 DEF Asks
  <2> QED BY <1>3, <1>8, <2>1 DEF Requests, Labels
<1>10. Safe(y, held[t], nodes, home)
  <2>1. Listed(y) = S /\ y.got = {}
    BY <1>3, <1>6, <1>9, AsksListed
  <2>2. \A m \in S : m \in Range(x.order) /\ ParentOf(m) = x.node
    BY <1>2, <1>3 DEF Siblings
  <2> QED BY <1>3, <1>9, <2>1, <2>2 DEF Safe, IdleSafe, CreateSafe, ReorderSafe, ItemSafe, DeleteSafe
<1>11. Becomes(t, y)
  BY <1>7, <1>8, <1>9, Replaced DEF SafeInv
<1>12. Fresh'
  BY <1>2, <1>5, <1>9, <1>11, FreshStays DEF db
<1>13. raced' \subseteq Nodes \cup {None}
  <2>1. x.node \in Nodes \cup {None}
    BY <1>3 DEF Requests
  <2> QED BY <1>5, <2>1 DEF NoteRace, SafeInv, TypeOK
<1> QED BY <1>5, <1>10, <1>11, <1>12, <1>13, PrivateKeeps DEF SafeInv, TypeOK

LEMMA ForeignKeysTyped ==
  ASSUME NEW u \in Subsections, NEW old \in Subsections \cup {None}
  PROVE  /\ ForeignKeys(u, old) \in Seq(Locks)
         /\ u # old => \E k \in DOMAIN ForeignKeys(u, old) :
                         ForeignKeys(u, old)[k] = Lock(u, "keyShare")
<1>1. PICK s, r, a, b :
        /\ s = SheetOf[SectionOf[u]]
        /\ r = IF old = None THEN None ELSE SheetOf[SectionOf[old]]
        /\ a = IF u = old THEN <<>> ELSE <<Lock(u, "keyShare")>>
        /\ b = IF s = r THEN <<>> ELSE <<Lock(s, "keyShare")>>
  OBVIOUS
<1>2. ForeignKeys(u, old) = a \o b
  <2>1. u # None
    BY Kinds
  <2> QED BY <1>1, <2>1 DEF ForeignKeys
<1>3. u \in Rows /\ s \in Rows /\ "keyShare" \in Modes
  BY <1>1, Kinds DEF Rows, Modes
<1>4. <<>> \in Seq(Locks) /\ <<Lock(u, "keyShare")>> \in Seq(Locks)
      /\ <<Lock(s, "keyShare")>> \in Seq(Locks)
  <2>1. <<>> \in Seq(Locks)
    OBVIOUS
  <2>2. <<Lock(u, "keyShare")>> \in Seq(Locks)
    BY <1>3, OneLock
  <2>3. <<Lock(s, "keyShare")>> \in Seq(Locks)
    BY <1>3, OneLock
  <2> QED BY <2>1, <2>2, <2>3
<1>5. a \in Seq(Locks) /\ b \in Seq(Locks)
  BY <1>1, <1>4
<1>6. ASSUME u # old PROVE 1 \in DOMAIN (a \o b) /\ (a \o b)[1] = Lock(u, "keyShare")
  <2>1. PICK l : l = Lock(u, "keyShare")
    OBVIOUS
  <2>2. a = <<l>>
    BY <1>1, <1>6, <2>1
  <2>3. b \in Seq(Locks) /\ l \in Locks
    BY <1>3, <1>5, <2>1 DEF Lock, Locks
  <2>4. 1 \in DOMAIN (<<l>> \o b) /\ (<<l>> \o b)[1] = l
    BY <2>3
  <2> QED BY <2>1, <2>2, <2>4
<1> QED BY <1>2, <1>5, <1>6

LEMMA ReadStructureKeeps ==
  ASSUME SafeInv, NEW t \in Tx, ReadStructure(t), ~Fail(t)
  PROVE  SafeInv'
<1>1. /\ tx[t] \in Requests /\ tx[t].op \in {"createItem", "updateItem"}
      /\ Safe(tx[t], held[t], nodes, home) /\ tx[t].pc = "readStructure"
  BY Standing DEF ReadStructure, Ready, At
<1>2. PICK x, H : x = tx[t] /\ H = held[t]
  OBVIOUS
<1>3. /\ x \in Requests /\ x.op \in {"createItem", "updateItem"} /\ x.item \in Items
      /\ x.sub \in Subsections /\ x.gone = {} /\ Keeps(tx[t], x)
  BY <1>1, <1>2, SameKeeps DEF Safe, ItemSafe
<1>4. CASE x.op = "createItem"
  <2>1. PICK locks : locks = ForeignKeys(x.sub, None)
    OBVIOUS
  <2>2. Statement(t, "write", locks, x)
    BY <1>2, <1>4, <2>1 DEF ReadStructure
  <2>3. locks \in Seq(Locks) /\ \E k \in DOMAIN locks : locks[k] = Lock(x.sub, "keyShare")
    <3>1. x.sub # None
      BY <1>3, Kinds
    <3> QED BY <1>3, <2>1, <3>1, ForeignKeysTyped
  <2>4. ASSUME NEW y, Keeps(x, y), y.pc = "write", y.todo = locks, y.got = {}, y.gone = x.gone
        PROVE  Safe(y, H, nodes, home)
    <3>1. y.op = "createItem" /\ y.item = x.item /\ y.sub = x.sub /\ y.gone = {}
      BY <1>3, <1>4, <2>4 DEF Keeps
    <3> QED BY <1>3, <2>3, <2>4, <3>1
        DEF Safe, IdleSafe, CreateSafe, ReorderSafe, ItemSafe, DeleteSafe
  <2> QED BY <1>2, <1>3, <2>2, <2>3, <2>4, StatementKeeps DEF Labels
<1>5. CASE x.op = "updateItem"
  <2>1. PICK locks : locks = <<Lock(x.item, "update")>>
    OBVIOUS
  <2>2. x.item \in Rows /\ "update" \in Modes
    BY <1>3 DEF Rows, Modes
  <2>3. Statement(t, "lockItem", locks, x)
    BY <1>2, <1>5, <2>1, <2>2, OneForUpdate DEF ReadStructure
  <2>4. locks \in Seq(Locks) /\ \A k \in DOMAIN locks : locks[k] = Lock(x.item, "update")
    BY <2>1, <2>2, OneLock
  <2>5. ASSUME NEW y, Keeps(x, y), y.pc = "lockItem", y.todo = locks, y.got = {}, y.gone = x.gone
        PROVE  Safe(y, H, nodes, home)
    <3>1. y.op = "updateItem" /\ y.item = x.item /\ y.sub = x.sub /\ y.gone = {}
      BY <1>3, <1>5, <2>5 DEF Keeps
    <3> QED BY <1>3, <2>4, <2>5, <3>1
        DEF Safe, IdleSafe, CreateSafe, ReorderSafe, ItemSafe, DeleteSafe
  <2> QED BY <1>2, <1>3, <2>3, <2>4, <2>5, StatementKeeps DEF Labels
<1> QED BY <1>3, <1>4, <1>5

LEMMA LockItemKeeps ==
  ASSUME SafeInv, NEW t \in Tx, LockItem(t), ~Fail(t)
  PROVE  SafeInv'
<1>1. /\ tx[t] \in Requests /\ tx[t].op \in {"updateItem", "deleteItem"}
      /\ Safe(tx[t], held[t], nodes, home) /\ tx[t].pc = "lockItem"
  BY Standing DEF LockItem, Ready, At
<1>2. PICK x, H : x = tx[t] /\ H = held[t]
  OBVIOUS
<1>3. /\ x \in Requests /\ x.op \in {"updateItem", "deleteItem"} /\ x.item \in Items
      /\ Keeps(tx[t], x) /\ \A row \in x.got : row = x.item /\ Owns(H, row)
  BY <1>1, <1>2, SameKeeps DEF Safe, ItemSafe
<1>4. x.got # {}
  BY <1>2 DEF LockItem
<1>5. Owns(H, x.item)
  BY <1>3, <1>4
<1>6. CASE x.op = "deleteItem"
  <2>1. PICK g, z : g = {x.item} /\ z = [x EXCEPT !.gone = g]
    OBVIOUS
  <2>2. Statement(t, "commit", <<>>, z)
    BY <1>2, <1>6, <2>1 DEF LockItem
  <2>3. g \in SUBSET Rows
    BY <1>3, <2>1 DEF Rows
  <2>4. Keeps(x, z) /\ z.gone = g /\ z \in Requests
    <3>1. x \in Requests
      BY <1>3
    <3> QED BY <2>1, <2>3, <3>1, GoneFields DEF Keeps
  <2>5. ASSUME NEW y, Keeps(z, y), y.pc = "commit", y.todo = <<>>, y.got = {}, y.gone = z.gone
        PROVE  Safe(y, H, nodes, home)
    <3>1. y.op = "deleteItem" /\ y.item = x.item /\ y.gone = {x.item}
      BY <1>6, <2>1, <2>4, <2>5 DEF Keeps
    <3> QED BY <1>3, <1>5, <2>5, <3>1
        DEF Safe, IdleSafe, CreateSafe, ReorderSafe, ItemSafe, DeleteSafe
  <2>6. <<>> \in Seq(Locks) /\ "commit" \in Labels
    BY DEF Labels
  <2> QED BY <1>2, <2>2, <2>4, <2>5, <2>6, StatementKeeps
<1>7. CASE x.op = "updateItem"
  <2>1. PICK locks, old : old = home[x.item] /\ locks = ForeignKeys(x.sub, old)
    OBVIOUS
  <2>2. Statement(t, "write", locks, x)
    BY <1>2, <1>7, <2>1 DEF LockItem
  <2>3. old \in Subsections \cup {None} /\ x.sub \in Subsections /\ x.gone = {}
    BY <1>1, <1>2, <1>3, <1>7, <2>1 DEF SafeInv, TypeOK, Safe, ItemSafe
  <2>4. /\ locks \in Seq(Locks)
        /\ x.sub # old => \E k \in DOMAIN locks : locks[k] = Lock(x.sub, "keyShare")
    BY <2>1, <2>3, ForeignKeysTyped
  <2>5. ASSUME NEW y, Keeps(x, y), y.pc = "write", y.todo = locks, y.got = {}, y.gone = x.gone
        PROVE  Safe(y, H, nodes, home)
    <3>1. y.op = "updateItem" /\ y.item = x.item /\ y.sub = x.sub /\ y.gone = {}
      BY <1>3, <1>7, <2>3, <2>5 DEF Keeps
    <3> QED BY <1>3, <1>5, <2>1, <2>3, <2>4, <2>5, <3>1
        DEF Safe, IdleSafe, CreateSafe, ReorderSafe, ItemSafe, DeleteSafe
  <2> QED BY <1>2, <1>3, <2>2, <2>4, <2>5, StatementKeeps DEF Labels
<1> QED BY <1>3, <1>6, <1>7

-----------------------------------------------------------------------------
(* Taking a lock, or passing over a row that is no longer there *)
Fits(x, row, N, M) ==
  IF row \in Items
  THEN IF x.pc = "deleteItems" THEN M[row] \in x.gone ELSE M[row] # None
  ELSE row \in N

Serves(x, y, H, H2, N, M) ==
  /\ x \in Requests /\ x.todo # <<>> /\ Keeps(x, y)
  /\ y.todo = Tail(x.todo) /\ y.pc = x.pc /\ y.gone = x.gone /\ y.prio = x.prio
  /\ LET l == Head(x.todo) IN
     \/ Fits(x, l.row, N, M) /\ H2 = H \cup {l} /\ y.got = x.got \cup {l.row}
     \/ ~Fits(x, l.row, N, M) /\ l.mode # "keyShare" /\ H2 = H /\ y.got = x.got

LEMMA DeleteServed ==
  ASSUME NEW x, NEW y, NEW H, NEW H2, NEW N, NEW M, Serves(x, y, H, H2, N, M), N \subseteq Nodes,
         x.op = "deleteNode", DeleteSafe(x, H, N, M)
  PROVE  DeleteSafe(y, H2, N, M)
<1>1. PICK l, n : l = Head(x.todo) /\ n = x.node
  OBVIOUS
<1>2. /\ x \in Requests /\ y \in Requests /\ y.op = x.op /\ y.node = n /\ y.item = x.item
      /\ y.force = x.force /\ y.pc = x.pc /\ y.gone = x.gone /\ x.todo # <<>>
      /\ y.todo = Tail(x.todo)
  BY <1>1 DEF Serves, Keeps
<1>3. \/ Fits(x, l.row, N, M) /\ H2 = H \cup {l} /\ y.got = x.got \cup {l.row}
      \/ ~Fits(x, l.row, N, M) /\ l.mode # "keyShare" /\ H2 = H /\ y.got = x.got
  BY <1>1 DEF Serves
<1>4. /\ l \in Locks /\ Listed(x) = Listed(y) \cup {l.row}
      /\ (\A k \in DOMAIN y.todo : \E j \in DOMAIN x.todo : y.todo[k] = x.todo[j])
      /\ (\E j \in DOMAIN x.todo : l = x.todo[j])
  BY <1>1, <1>2, ListServed
<1>5. /\ n \in Nodes /\ x.item = None
      /\ x.pc \in {"lockRoot", "lockSections", "lockSubsections", "delete", "deleteItems",
                   "cascade", "commit"}
      /\ \A k \in DOMAIN x.todo : x.todo[k].mode = "update"
      /\ x.pc # "delete" => \A row \in x.got : Owns(H, row)
  BY <1>1 DEF DeleteSafe
<1>6. l.mode = "update" /\ l = Lock(l.row, "update") /\ l.row \in Listed(x)
      /\ \A k \in DOMAIN y.todo : y.todo[k].mode = "update"
  <2>1. l.mode = "update" /\ l.row \in Listed(x) /\ \A k \in DOMAIN y.todo : y.todo[k].mode = "update"
    BY <1>4, <1>5
  <2>2. l = Lock(l.row, "update")
    BY <1>4, <2>1 DEF Lock, Locks
  <2> QED BY <2>1, <2>2
<1>7. \A row : Owns(H, row) => Owns(H2, row)
  BY <1>3 DEF Owns
<1>8. x.pc # "delete" => \A row \in y.got : Owns(H2, row)
  BY <1>3, <1>5, <1>6, <1>7 DEF Owns
<1>9. x.got \cup Listed(x) = y.got \cup Listed(y) \/ (y.got = x.got /\ H2 = H)
  BY <1>3, <1>4
<1>10. y.got \cup Listed(y) \subseteq x.got \cup Listed(x)
  BY <1>3, <1>4
<1>11. \A row \in x.got \cup Listed(x) :
         row \in y.got \cup Listed(y) \/ (row = l.row /\ ~Fits(x, row, N, M))
  BY <1>3, <1>4
<1>12. CASE x.pc = "lockRoot"
  <2>1. n \notin Subsections /\ x.got \subseteq {n} /\ Listed(x) \subseteq {n}
    BY <1>1, <1>12 DEF DeleteSafe
  <2> QED BY <1>2, <1>5, <1>6, <1>8, <1>10, <1>12, <2>1 DEF DeleteSafe
<1>13. CASE x.pc = "lockSections"
  <2>1. /\ n \in Sheets \cap N /\ Owns(H, n)
        /\ \A c \in x.got \cup Listed(x) : c \in Sections /\ SheetOf[c] = n
        /\ \A c \in Sections \cap N : SheetOf[c] = n => c \in x.got \cup Listed(x)
    BY <1>1, <1>13 DEF DeleteSafe
  <2>2. \A c \in Sections \cap N : Fits(x, c, N, M)
    BY Kinds DEF Fits
  <2> QED BY <1>2, <1>5, <1>6, <1>7, <1>8, <1>10, <1>11, <1>13, <2>1, <2>2 DEF DeleteSafe
<1>14. CASE x.pc = "lockSubsections"
  <2>1. /\ \A m \in (N \cap Tree(n)) \ Subsections : Owns(H, m)
        /\ x.got \cup Listed(x) \subseteq Below(n)
        /\ n \notin Subsections => n \in N /\ N \cap Below(n) \subseteq x.got \cup Listed(x)
    BY <1>1, <1>14 DEF DeleteSafe
  <2>2. \A m \in N \cap Below(n) : Fits(x, m, N, M)
    BY Kinds DEF Fits
  <2>3. n \notin Subsections => N \cap Below(n) \subseteq y.got \cup Listed(y)
    BY <1>11, <2>1, <2>2
  <2> QED BY <1>2, <1>5, <1>6, <1>7, <1>8, <1>10, <1>14, <2>1, <2>3 DEF DeleteSafe
<1>15. CASE x.pc \in {"delete", "commit"}
  BY <1>2, <1>15 DEF DeleteSafe
<1>16. CASE x.pc = "deleteItems"
  <2>1. /\ x.got \cup Listed(x) \subseteq Items /\ (\A i \in x.got : M[i] \in x.gone)
        /\ (\A i \in Items : M[i] \in x.gone => i \in x.got \cup Listed(x))
        /\ x.gone = N \cap Below(n)
    BY <1>1, <1>16 DEF DeleteSafe
  <2>2. /\ n \in N /\ \A m \in N \cap Tree(n) : Owns(H, m)
        /\ ~x.force => \A i \in Items : M[i] \notin Below(n)
    BY <1>1, <1>16 DEF DeleteSafe
  <2>3. \A i \in Items : M[i] \in x.gone <=> Fits(x, i, N, M)
    BY <1>16 DEF Fits
  <2>4. \A i \in Items : M[i] \in x.gone => i \in y.got \cup Listed(y)
    BY <1>11, <2>1, <2>3
  <2>5. \A i \in y.got : M[i] \in x.gone
    BY <1>3, <1>6, <2>1, <2>3
  <2>6. y.got \cup Listed(y) \subseteq Items
    BY <1>10, <2>1
  <2> QED BY <1>2, <1>5, <1>6, <1>7, <1>8, <1>16, <2>1, <2>2, <2>4, <2>5, <2>6 DEF DeleteSafe
<1>17. CASE x.pc = "cascade"
  <2>1. /\ n \in N /\ (\A m \in N \cap Tree(n) : Owns(H, m))
        /\ (~x.force => \A i \in Items : M[i] \notin Below(n))
        /\ (\A i \in Items : i \in x.gone <=> M[i] \in Below(n))
        /\ (\A i \in Items \cap x.gone : Owns(H, i))
        /\ x.gone \subseteq Items /\ x.got \cup Listed(x) = N \cap Tree(n)
    BY <1>1, <1>17 DEF DeleteSafe
  <2>2. l.row \in N /\ l.row \notin Items
    BY <1>6, <2>1, Kinds
  <2>3. Fits(x, l.row, N, M)
    BY <2>2 DEF Fits
  <2>4. y.got \cup Listed(y) = N \cap Tree(n)
    BY <1>3, <1>4, <2>1, <2>3
  <2> QED BY <1>2, <1>5, <1>6, <1>7, <1>8, <1>17, <2>1, <2>4 DEF DeleteSafe
<1> QED BY <1>5, <1>12, <1>13, <1>14, <1>15, <1>16, <1>17

LEMMA ItemServed ==
  ASSUME NEW x, NEW y, NEW H, NEW H2, NEW N, NEW M, Serves(x, y, H, H2, N, M),
         x.op \in {"createItem", "updateItem", "deleteItem"}, ItemSafe(x, H, M)
  PROVE  ItemSafe(y, H2, M)
<1>1. PICK l : l = Head(x.todo)
  OBVIOUS
<1>2. /\ x \in Requests /\ y \in Requests /\ y.op = x.op /\ y.item = x.item /\ y.sub = x.sub
      /\ y.pc = x.pc /\ y.gone = x.gone /\ x.todo # <<>> /\ y.todo = Tail(x.todo)
  BY <1>1 DEF Serves, Keeps
<1>3. \/ H2 = H \cup {l} /\ y.got = x.got \cup {l.row}
      \/ l.mode # "keyShare" /\ H2 = H /\ y.got = x.got
  BY <1>1 DEF Serves
<1>4. /\ (\A k \in DOMAIN y.todo : \E j \in DOMAIN x.todo : y.todo[k] = x.todo[j])
      /\ (\E j \in DOMAIN x.todo : l = x.todo[j])
      /\ (\A j \in DOMAIN x.todo : x.todo[j] = l \/ \E k \in DOMAIN y.todo : y.todo[k] = x.todo[j])
  BY <1>1, <1>2, ListServed
<1>5. \A row : Owns(H, row) => Owns(H2, row)
  BY <1>3 DEF Owns
<1>6. CASE x.pc = "lockItem"
  <2>1. /\ \A k \in DOMAIN x.todo : x.todo[k] = Lock(x.item, "update")
        /\ \A row \in x.got : row = x.item /\ Owns(H, row)
    BY <1>6 DEF ItemSafe
  <2>2. l = Lock(x.item, "update") /\ l.row = x.item
    BY <1>4, <2>1, LockFields
  <2>3. \A row \in y.got : row = x.item /\ Owns(H2, row)
    BY <1>3, <1>5, <2>1, <2>2 DEF Owns
  <2>4. \A k \in DOMAIN y.todo : y.todo[k] = Lock(x.item, "update")
    BY <1>4, <2>1
  <2> QED BY <1>2, <1>6, <2>3, <2>4 DEF ItemSafe
<1>7. CASE x.pc = "write"
  <2>1. /\ x.op \in {"createItem", "updateItem"} /\ x.item \in Items /\ x.sub \in Subsections
        /\ x.gone = {}
        /\ \/ Lock(x.sub, "keyShare") \in H
           \/ \E k \in DOMAIN x.todo : x.todo[k] = Lock(x.sub, "keyShare")
           \/ x.op = "updateItem" /\ M[x.item] = x.sub
        /\ x.op = "updateItem" => Owns(H, x.item)
    BY <1>7 DEF ItemSafe
  <2>2. \/ Lock(x.sub, "keyShare") \in H2
        \/ \E k \in DOMAIN y.todo : y.todo[k] = Lock(x.sub, "keyShare")
        \/ x.op = "updateItem" /\ M[x.item] = x.sub
    <3>1. Lock(x.sub, "keyShare").mode = "keyShare"
      BY LockFields
    <3> QED BY <1>3, <1>4, <2>1, <3>1
  <2> QED BY <1>2, <1>5, <1>7, <2>1, <2>2 DEF ItemSafe
<1>8. CASE x.pc \in {"readStructure", "commit"}
  BY <1>2, <1>8 DEF ItemSafe
<1> QED BY <1>6, <1>7, <1>8 DEF ItemSafe

LEMMA SafeServed ==
  ASSUME NEW x, NEW y, NEW H, NEW H2, NEW N, NEW M, Serves(x, y, H, H2, N, M), N \subseteq Nodes,
         Safe(x, H, N, M)
  PROVE  Safe(y, H2, N, M)
<1>1. PICK l : l = Head(x.todo)
  OBVIOUS
<1>2. /\ x \in Requests /\ y \in Requests /\ y.op = x.op /\ y.item = x.item /\ y.node = x.node
      /\ y.pc = x.pc /\ y.gone = x.gone /\ x.todo # <<>> /\ y.todo = Tail(x.todo)
  BY <1>1 DEF Serves, Keeps
<1>3. x.op \in AllOps \cup {"none"} /\ x.op # "none"
  BY <1>2 DEF Requests, Safe, IdleSafe
<1>4. CASE x.op = "deleteNode"
  <2>1. DeleteSafe(y, H2, N, M)
    BY <1>4, DeleteServed DEF Safe
  <2>2. y.pc # "lockItem"
    BY <1>2, <1>4 DEF Safe, DeleteSafe
  <2> QED BY <1>2, <1>4, <2>1, <2>2 DEF Safe, IdleSafe, CreateSafe, ReorderSafe, ItemSafe
<1>5. CASE x.op \in {"createItem", "updateItem", "deleteItem"}
  <2>1. ItemSafe(y, H2, M)
    BY <1>5, ItemServed DEF Safe
  <2> QED BY <1>2, <1>5, <2>1 DEF Safe, IdleSafe, CreateSafe, ReorderSafe, DeleteSafe
<1>6. CASE x.op = "createNode"
  <2>1. \/ H2 = H \cup {l}
        \/ l.mode # "keyShare" /\ H2 = H
    BY <1>1 DEF Serves
  <2>2. ASSUME x.pc = "write", ParentOf(x.node) # None
        PROVE  Lock(ParentOf(x.node), "keyShare") \in H2
    <3>1. PICK p : p = Lock(ParentOf(x.node), "keyShare")
      OBVIOUS
    <3>2. p \in H \/ x.todo = <<p>>
      BY <1>6, <2>2, <3>1 DEF Safe, CreateSafe
    <3>3. x.todo = <<p>> => l = p
      BY <1>1
    <3>4. p.mode = "keyShare"
      BY <3>1, LockFields
    <3> QED BY <2>1, <3>1, <3>2, <3>3, <3>4
  <2>3. CreateSafe(y, H2)
    BY <1>2, <1>6, <2>2 DEF Safe, CreateSafe
  <2>4. y.pc # "lockItem"
    BY <1>2, <1>6 DEF Safe, CreateSafe
  <2> QED BY <1>2, <1>6, <2>3, <2>4 DEF Safe, IdleSafe, DeleteSafe, ReorderSafe, ItemSafe
<1>7. CASE x.op = "reorder"
  <2>1. y.got \subseteq x.got \cup {l.row} /\ y.order = x.order
    BY <1>1 DEF Serves, Keeps
  <2>2. Listed(x) = Listed(y) \cup {l.row}
    BY <1>1, <1>2, ListServed
  <2>3. y.pc = "write"
    BY <1>2, <1>7 DEF Safe, ReorderSafe
  <2> QED BY <1>2, <1>7, <2>1, <2>2, <2>3
      DEF Safe, IdleSafe, CreateSafe, ReorderSafe, ItemSafe, DeleteSafe
<1> QED BY <1>3, <1>4, <1>5, <1>6, <1>7 DEF AllOps

LEMMA AcquireServes ==
  ASSUME SafeInv, NEW t \in Tx, Acquire(t), ~Fail(t)
  PROVE  /\ \E y : Becomes(t, y) /\ Serves(tx[t], y, held[t], held'[t], nodes, home)
         /\ held' \in [Tx -> SUBSET Locks] /\ \A u \in Tx \ {t} : held'[u] = held[u]
         /\ UNCHANGED <<db, spent, left, raced>>
<1>1. PICK x, l, s : x = tx[t] /\ l = Head(x.todo) /\ s = Tail(x.todo)
  OBVIOUS
<1>2. x \in Requests /\ x.todo # <<>> /\ tx \in [Tx -> Requests] /\ held \in [Tx -> SUBSET Locks]
  BY <1>1 DEF Acquire, SafeInv, TypeOK
<1>3. l \in Locks /\ s \in Seq(Locks)
  <2>1. PICK q : q = x.todo
    OBVIOUS
  <2>2. q \in Seq(Locks) /\ q # <<>>
    BY <1>2, <2>1 DEF Requests
  <2> QED BY <1>1, <2>1, <2>2, Served
<1>4. Fits(x, l.row, nodes, home) <=> Qualifies(t, l.row)
  BY <1>1 DEF Fits, Qualifies, At
<1>5. CASE Qualifies(t, l.row)
  <2>1. /\ held' = [held EXCEPT ![t] = @ \cup {l}]
        /\ tx' = [tx EXCEPT ![t].todo = Tail(@), ![t].got = @ \cup {l.row}]
        /\ UNCHANGED <<db, spent, left, raced>>
    BY <1>1, <1>5 DEF Acquire
  <2>2. PICK g, y : g = x.got \cup {l.row} /\ y = [x EXCEPT !.todo = s, !.got = g]
    OBVIOUS
  <2>3. tx' = [tx EXCEPT ![t] = y]
    <3>1. [tx EXCEPT ![t].todo = Tail(@), ![t].got = @ \cup {l.row}]
            = [tx EXCEPT ![t] = [tx[t] EXCEPT !.todo = Tail(tx[t].todo), !.got = tx[t].got \cup {l.row}]]
      BY <1>2
    <3> QED BY <1>1, <2>1, <2>2, <3>1
  <2>4. g \in SUBSET Rows
    BY <1>2, <1>3, <2>2 DEF Requests, Locks
  <2>5. Keeps(x, y) /\ y.todo = s /\ y.pc = x.pc /\ y.gone = x.gone /\ y.got = g /\ y.prio = x.prio
    BY <1>2, <1>3, <2>2, <2>4 DEF Requests, Keeps
  <2>6. Becomes(t, y)
    BY <2>3, <2>5, Replaced DEF SafeInv, Keeps
  <2>7. held'[t] = held[t] \cup {l} /\ held' \in [Tx -> SUBSET Locks]
        /\ \A u \in Tx \ {t} : held'[u] = held[u]
    BY <1>2, <1>3, <2>1
  <2>8. Serves(x, y, held[t], held'[t], nodes, home)
    BY <1>1, <1>2, <1>4, <1>5, <2>2, <2>5, <2>7 DEF Serves
  <2> QED BY <1>1, <2>1, <2>6, <2>7, <2>8
<1>6. CASE ~Qualifies(t, l.row)
  <2>1. /\ tx' = [tx EXCEPT ![t].todo = Tail(@)] /\ l.mode # "keyShare"
        /\ UNCHANGED <<db, spent, held, left, raced>>
    BY <1>1, <1>6 DEF Acquire
  <2>2. PICK y : y = [x EXCEPT !.todo = s]
    OBVIOUS
  <2>3. tx' = [tx EXCEPT ![t] = y]
    <3>1. [tx EXCEPT ![t].todo = Tail(@)] = [tx EXCEPT ![t] = [tx[t] EXCEPT !.todo = Tail(tx[t].todo)]]
      BY <1>2
    <3> QED BY <1>1, <2>1, <2>2, <3>1
  <2>4. Keeps(x, y) /\ y.todo = s /\ y.pc = x.pc /\ y.gone = x.gone /\ y.got = x.got /\ y.prio = x.prio
    BY <1>2, <1>3, <2>2 DEF Requests, Keeps
  <2>5. Becomes(t, y)
    BY <2>3, <2>4, Replaced DEF SafeInv, Keeps
  <2>6. held' = held
    BY <2>1
  <2>7. Serves(x, y, held[t], held'[t], nodes, home)
    BY <1>1, <1>2, <1>4, <1>6, <2>1, <2>4, <2>6 DEF Serves
  <2> QED BY <1>1, <1>2, <2>1, <2>5, <2>6, <2>7
<1> QED BY <1>5, <1>6

LEMMA ConflictSymmetric ==
  ASSUME NEW a, NEW b
  PROVE  Conflict(a, b) <=> Conflict(b, a)
BY DEF Conflict

LEMMA AcquireKeeps ==
  ASSUME SafeInv, NEW t \in Tx, Acquire(t), ~Fail(t)
  PROVE  SafeInv'
<1>1. PICK y : Becomes(t, y) /\ Serves(tx[t], y, held[t], held'[t], nodes, home)
  BY AcquireServes
<1>2. /\ held' \in [Tx -> SUBSET Locks] /\ \A u \in Tx \ {t} : held'[u] = held[u]
      /\ nodes' = nodes /\ home' = home /\ prio' = prio /\ spent' = spent /\ left' = left
      /\ raced' = raced
  BY AcquireServes DEF db
<1>3. PICK x, l : x = tx[t] /\ l = Head(x.todo)
  OBVIOUS
<1>4. /\ Keeps(x, y) /\ held[t] \subseteq held'[t] /\ held'[t] \subseteq held[t] \cup {l}
      /\ l \in held'[t] /\ l \notin held[t] => Fits(x, l.row, nodes, home)
  BY <1>1, <1>3 DEF Serves
<1>5. TypeOK'
  BY <1>1, <1>2 DEF SafeInv, TypeOK, Becomes
<1>6. Forest!Whole'
  BY <1>2 DEF SafeInv, Forest!Whole, Forest!ParentOf
<1>7. LocksApart'
  <2>1. x.todo # <<>> /\ Blockers(t) = {}
    BY <1>3 DEF Acquire
  <2>2. \A u \in Tx \ {t} : \A h \in held[u] : ~(h.row = l.row /\ Conflict(h.mode, l.mode))
    BY <1>3, <2>1 DEF Blockers
  <2>3. ASSUME NEW u \in Tx, NEW v \in Tx, u # v, NEW g \in held'[u], NEW h \in held'[v],
               g.row = h.row
        PROVE  ~Conflict(g.mode, h.mode)
    <3>1. CASE u = t
      <4>1. held'[v] = held[v] /\ g \in held[t] \cup {l}
        BY <1>2, <1>4, <2>3, <3>1
      <4>2. CASE g = l
        BY <2>2, <2>3, <3>1, <4>1, <4>2, ConflictSymmetric
      <4>3. CASE g \in held[t]
        BY <2>3, <3>1, <4>1, <4>3 DEF SafeInv, LocksApart
      <4> QED BY <4>1, <4>2, <4>3
    <3>2. CASE v = t
      <4>1. held'[u] = held[u] /\ h \in held[t] \cup {l}
        BY <1>2, <1>4, <2>3, <3>2
      <4>2. CASE h = l
        BY <2>2, <2>3, <3>2, <4>1, <4>2
      <4>3. CASE h \in held[t]
        BY <2>3, <3>2, <4>1, <4>3 DEF SafeInv, LocksApart
      <4> QED BY <4>1, <4>2, <4>3
    <3>3. CASE u # t /\ v # t
      <4>1. held'[u] = held[u] /\ held'[v] = held[v]
        BY <1>2, <3>3
      <4> QED BY <2>3, <4>1 DEF SafeInv, LocksApart
    <3> QED BY <3>1, <3>2, <3>3
  <2> QED BY <2>3 DEF LocksApart
<1>8. Fresh'
  <2>1. y.op = tx[t].op /\ y.node = tx[t].node /\ y.item = tx[t].item
    BY <1>3, <1>4 DEF Keeps
  <2> QED BY <1>1, <1>2, <2>1, FreshStays
<1>9. Live(held'[t], nodes, home)
  <2>1. Live(held[t], nodes, home) /\ x \in Requests
    BY <1>3, Standing
  <2>2. Fits(x, l.row, nodes, home) => l.row \in nodes \/ (l.row \in Items /\ home[l.row] # None)
    <3>1. x.gone \subseteq Rows /\ None \notin Rows
      BY <2>1, Kinds DEF Requests, Rows
    <3> QED BY <3>1 DEF Fits
  <2> QED BY <1>4, <2>1, <2>2 DEF Live
<1>10. Safe(y, held'[t], nodes, home)
  <2>1. Safe(tx[t], held[t], nodes, home) /\ nodes \subseteq Nodes
    BY Standing DEF SafeInv, TypeOK
  <2> QED BY <1>1, <2>1, SafeServed
<1>11. ASSUME NEW u \in Tx
       PROVE Live(held'[u], nodes', home') /\ Safe(tx'[u], held'[u], nodes', home')
  <2>1. CASE u = t
    BY <1>1, <1>2, <1>9, <1>10, <2>1 DEF Becomes
  <2>2. CASE u # t
    <3>1. tx'[u] = tx[u] /\ held'[u] = held[u]
      BY <1>1, <1>2, <2>2 DEF Becomes
    <3> QED BY <1>2, <3>1 DEF SafeInv
  <2> QED BY <2>1, <2>2
<1> QED BY <1>5, <1>6, <1>7, <1>8, <1>11 DEF SafeInv

-----------------------------------------------------------------------------
(* What a commit does, by operation, and the locks that allow it *)
AddsNode(x, H) ==
  /\ x.node \in Nodes /\ x.node \notin nodes
  /\ nodes' = nodes \cup {x.node} /\ home' = home
  /\ \/ ParentOf(x.node) = None
     \/ ParentOf(x.node) \in nodes /\ Lock(ParentOf(x.node), "keyShare") \in H

PlacesItem(x, H) ==
  /\ x.item \in Items /\ x.sub \in Subsections /\ x.sub \in nodes
  /\ nodes' = nodes /\ home' = [home EXCEPT ![x.item] = x.sub]
  /\ home[x.item] = x.sub \/ Lock(x.sub, "keyShare") \in H
  /\ Owns(H, x.item) \/ (home[x.item] = None /\ x.op = "createItem")

TakesItem(x, H) ==
  /\ x.item \in Items /\ Owns(H, x.item)
  /\ nodes' = nodes /\ home' = [home EXCEPT ![x.item] = None]

TakesTree(x, H) ==
  /\ x.node \in Nodes /\ x.node \in nodes
  /\ nodes' = nodes \ Tree(x.node)
  /\ home' = [i \in Items |-> IF home[i] \in Below(x.node) THEN None ELSE home[i]]
  /\ \A m \in nodes \cap Tree(x.node) : Owns(H, m)
  /\ \A i \in Items : home[i] \in Below(x.node) => Owns(H, i)
  /\ ~x.force => home' = home

Writes(x, H) ==
  \/ x.op = "createNode" /\ AddsNode(x, H)
  \/ x.op = "reorder" /\ nodes' = nodes /\ home' = home
  \/ x.op \in {"createItem", "updateItem"} /\ PlacesItem(x, H)
  \/ x.op = "deleteItem" /\ TakesItem(x, H)
  \/ x.op = "deleteNode" /\ TakesTree(x, H)

LEMMA CommitWrites ==
  ASSUME SafeInv, NEW t \in Tx, Commit(t)
  PROVE  Writes(tx[t], held[t])
<1>1. PICK x, H : x = tx[t] /\ H = held[t]
  OBVIOUS
<1>2. /\ x \in Requests /\ Safe(x, H, nodes, home) /\ Live(H, nodes, home) /\ x.todo = <<>>
      /\ \/ x.pc = "write" /\ x.op \in {"createNode", "reorder", "createItem", "updateItem"}
         \/ x.pc = "commit" /\ x.op \in {"deleteNode", "deleteItem"}
  BY <1>1, Standing DEF Commit, Ready, At
<1>3. /\ nodes' = (nodes \cup (IF x.op = "createNode" THEN {x.node} ELSE {})) \ x.gone
      /\ home' = [i \in Items |-> IF i \in x.gone THEN None
                                  ELSE IF i = x.item THEN x.sub ELSE home[i]]
  BY <1>1 DEF Commit
<1>4. nodes \subseteq Nodes /\ home \in [Items -> Subsections \cup {None}]
  BY DEF SafeInv, TypeOK
<1>5. x.item = None /\ x.gone = {} => home' = home
  BY <1>3, <1>4, Kinds
<1>6. CASE x.op = "createNode"
  <2>1. /\ x.node \in Nodes /\ x.item = None /\ x.gone = {}
        /\ \/ ParentOf(x.node) = None \/ Lock(ParentOf(x.node), "keyShare") \in H
    <3>1. PICK l : l = Lock(ParentOf(x.node), "keyShare")
      OBVIOUS
    <3>2. <<l>> # <<>>
      OBVIOUS
    <3> QED BY <1>2, <1>6, <3>1, <3>2 DEF Safe, CreateSafe
  <2>2. x.node \notin nodes
    BY <1>1, <1>6 DEF SafeInv, Fresh
  <2>3. nodes' = nodes \cup {x.node} /\ home' = home
    BY <1>3, <1>5, <1>6, <2>1
  <2>4. Lock(ParentOf(x.node), "keyShare") \in H => ParentOf(x.node) \in nodes \/ ParentOf(x.node) = None
    <3>1. ParentOf(x.node) \notin Items
      BY <2>1, Parents, Kinds
    <3> QED BY <1>2, <3>1, LockFields DEF Live
  <2> QED BY <1>1, <1>6, <2>1, <2>2, <2>3, <2>4 DEF Writes, AddsNode
<1>7. CASE x.op = "reorder"
  <2>1. x.item = None /\ x.gone = {}
    BY <1>2, <1>7 DEF Safe, ReorderSafe
  <2> QED BY <1>1, <1>3, <1>5, <1>7, <2>1 DEF Writes
<1>8. CASE x.op \in {"createItem", "updateItem"}
  <2>1. /\ x.item \in Items /\ x.sub \in Subsections /\ x.gone = {}
        /\ \/ Lock(x.sub, "keyShare") \in H
           \/ \E k \in DOMAIN x.todo : x.todo[k] = Lock(x.sub, "keyShare")
           \/ x.op = "updateItem" /\ home[x.item] = x.sub
        /\ x.op = "updateItem" => Owns(H, x.item)
    BY <1>2, <1>8 DEF Safe, ItemSafe
  <2>2. Lock(x.sub, "keyShare") \in H \/ home[x.item] = x.sub
    <3>1. DOMAIN x.todo = {}
      BY <1>2
    <3> QED BY <2>1, <3>1
  <2>3. x.op = "createItem" => home[x.item] = None
    BY <1>1 DEF SafeInv, Fresh
  <2>4. nodes' = nodes /\ home' = [home EXCEPT ![x.item] = x.sub]
    BY <1>3, <1>4, <1>8, <2>1
  <2>5. x.sub \in nodes
    <3>1. x.sub \notin Items /\ x.sub # None
      BY <2>1, Kinds
    <3>2. Lock(x.sub, "keyShare") \in H => x.sub \in nodes
      BY <1>2, <3>1, LockFields DEF Live
    <3>3. home[x.item] = x.sub => x.sub \in nodes
      BY <2>1, <3>1 DEF SafeInv, Forest!Whole
    <3> QED BY <2>2, <3>2, <3>3
  <2>6. PlacesItem(x, H)
    BY <1>8, <2>1, <2>2, <2>3, <2>4, <2>5 DEF PlacesItem
  <2> QED BY <1>1, <1>8, <2>6 DEF Writes
<1>9. CASE x.op = "deleteItem"
  <2>1. x.item \in Items /\ x.gone = {x.item} /\ Owns(H, x.item)
    BY <1>2, <1>9 DEF Safe, ItemSafe
  <2>2. nodes' = nodes
    BY <1>3, <1>4, <1>9, <2>1, Kinds
  <2>3. PICK i : i = x.item
    OBVIOUS
  <2>4. \A j \in Items : home'[j] = IF j = i THEN None ELSE home[j]
    BY <1>3, <2>1, <2>3
  <2>5. home' = [home EXCEPT ![i] = None]
    BY <1>3, <1>4, <2>1, <2>3, <2>4
  <2> QED BY <1>1, <1>9, <2>1, <2>2, <2>3, <2>5 DEF Writes, TakesItem
<1>10. CASE x.op = "deleteNode"
  <2>1. PICK n : n = x.node
    OBVIOUS
  <2>2. /\ n \in Nodes /\ x.item = None /\ n \in nodes /\ (\A m \in nodes \cap Tree(n) : Owns(H, m))
        /\ (~x.force => \A i \in Items : home[i] \notin Below(n))
        /\ (\A i \in Items : i \in x.gone <=> home[i] \in Below(n))
        /\ (\A i \in Items \cap x.gone : Owns(H, i))
        /\ (\A m \in Nodes : m \in x.gone <=> m \in nodes \cap Tree(n))
    BY <1>2, <1>10, <2>1 DEF Safe, DeleteSafe
  <2>3. nodes' = nodes \ Tree(n)
    BY <1>3, <1>4, <1>10, <2>2
  <2>4. home' = [i \in Items |-> IF home[i] \in Below(n) THEN None ELSE home[i]]
    <3>1. \A i \in Items : i # x.item
      BY <2>2, Kinds
    <3> QED BY <1>3, <2>2, <3>1
  <2>5. ~x.force => home' = home
    BY <1>4, <2>2, <2>4
  <2>6. TakesTree(x, H)
    BY <2>1, <2>2, <2>3, <2>4, <2>5 DEF TakesTree
  <2> QED BY <1>1, <1>10, <2>6 DEF Writes
<1> QED BY <1>2, <1>6, <1>7, <1>8, <1>9, <1>10

(* Every commit is a step of MatrixForest. *)
LEMMA WritesForest ==
  ASSUME NEW x, NEW H, Writes(x, H)
  PROVE  Forest!Next \/ (nodes' = nodes /\ home' = home)
<1>1. CASE x.op = "createNode" /\ AddsNode(x, H)
  BY <1>1 DEF AddsNode, Forest!Next, Forest!AddNode, ParentOf, Nodes
<1>2. CASE x.op \in {"createItem", "updateItem"} /\ PlacesItem(x, H)
  BY <1>2 DEF PlacesItem, Forest!Next, Forest!PlaceItem
<1>3. CASE x.op = "deleteItem" /\ TakesItem(x, H)
  BY <1>3 DEF TakesItem, Forest!Next, Forest!RemoveItem
<1>4. CASE x.op = "deleteNode" /\ TakesTree(x, H)
  BY <1>4 DEF TakesTree, Forest!Next, Forest!RemoveTree, Nodes, Tree, Below
<1> QED BY <1>1, <1>2, <1>3, <1>4 DEF Writes

(* A row locked for update is locked by nobody else. *)
LEMMA OwnersAlone ==
  ASSUME SafeInv, NEW t \in Tx, NEW u \in Tx, t # u, NEW row
  PROVE  /\ Owns(held[t], row) => \A h \in held[u] : h.row # row
         /\ \A mode : Lock(row, mode) \in held[t] => ~Owns(held[u], row)
<1>1. \A g \in held[t] : \A h \in held[u] : g.row = h.row => ~Conflict(g.mode, h.mode)
  BY DEF SafeInv, LocksApart
<1>2. \A m : Conflict("update", m) /\ Conflict(m, "update")
  BY DEF Conflict
<1> QED BY <1>1, <1>2, LockFields DEF Owns

LEMMA WritesSpare ==
  ASSUME SafeInv, NEW t \in Tx, NEW u \in Tx, t # u, Writes(tx[t], held[t])
  PROVE  Spared(held[u], nodes, home, nodes', home')
<1>1. PICK x, H, G : x = tx[t] /\ H = held[t] /\ G = held[u]
  OBVIOUS
<1>2. Writes(x, H) /\ nodes \subseteq Nodes /\ home \in [Items -> Subsections \cup {None}]
      /\ Live(G, nodes, home)
  BY <1>1, Standing DEF SafeInv, TypeOK
<1>3. \A row : Owns(H, row) => \A h \in G : h.row # row
  BY <1>1, OwnersAlone
<1>4. \A row : Lock(row, "keyShare") \in H => ~Owns(G, row)
  BY <1>1, OwnersAlone
<1>5. CASE x.op = "createNode" /\ AddsNode(x, H)
  BY <1>2, <1>4, <1>5, <1>1 DEF AddsNode, Spared
<1>6. CASE x.op = "reorder" /\ nodes' = nodes /\ home' = home
  BY <1>1, <1>2, <1>6 DEF Spared
<1>7. CASE x.op \in {"createItem", "updateItem"} /\ PlacesItem(x, H)
  <2>1. \A h \in G : h.row # x.item
    <3>1. CASE Owns(H, x.item)
      BY <1>3, <3>1
    <3>2. CASE home[x.item] = None
      <4>1. x.item \notin nodes
        BY <1>2, <1>7, Kinds DEF PlacesItem
      <4> QED BY <1>2, <3>2, <4>1 DEF Live
    <3> QED BY <1>7, <3>1, <3>2 DEF PlacesItem
  <2>2. nodes' = nodes /\ \A i \in Items : home'[i] = IF i = x.item THEN x.sub ELSE home[i]
    BY <1>2, <1>7 DEF PlacesItem
  <2>3. \A i \in Items : home'[i] = home[i] \/ (home'[i] \in nodes /\ ~Owns(G, home'[i]))
    BY <1>4, <1>7, <2>2 DEF PlacesItem
  <2> QED BY <1>1, <1>2, <2>1, <2>2, <2>3 DEF Spared
<1>8. CASE x.op = "deleteItem" /\ TakesItem(x, H)
  <2>1. nodes' = nodes /\ \A i \in Items : home'[i] = IF i = x.item THEN None ELSE home[i]
    BY <1>2, <1>8 DEF TakesItem
  <2>2. \A h \in G : h.row # x.item
    BY <1>3, <1>8 DEF TakesItem
  <2> QED BY <1>1, <1>2, <2>1, <2>2 DEF Spared
<1>9. CASE x.op = "deleteNode" /\ TakesTree(x, H)
  <2>1. nodes' = nodes \ Tree(x.node)
        /\ \A i \in Items : home'[i] = IF home[i] \in Below(x.node) THEN None ELSE home[i]
    BY <1>9 DEF TakesTree
  <2>2. \A h \in G : h.row \in nodes => h.row \in nodes'
    BY <1>3, <1>9, <2>1 DEF TakesTree
  <2>3. \A h \in G : h.row \in Items => home'[h.row] = home[h.row]
    BY <1>3, <1>9, <2>1 DEF TakesTree
  <2> QED BY <1>1, <1>2, <2>1, <2>2, <2>3 DEF Spared
<1> QED BY <1>2, <1>5, <1>6, <1>7, <1>8, <1>9 DEF Writes

(* _next_priority is above the priority of every child there is. *)
LEMMA NextPriorityAbove ==
  ASSUME TypeOK, NEW p
  PROVE  NextPriority(p) \in Nat /\ \A m \in Siblings(p) : prio[m] < NextPriority(p)
<1> DEFINE taken == {prio[m] : m \in Siblings(p)}
           all == {0} \cup taken
<1>1. Siblings(p) \subseteq Nodes /\ IsFiniteSet(Siblings(p))
  BY SiblingsFinite
<1>2. [m \in Siblings(p) |-> prio[m]] \in Surjection(Siblings(p), taken)
  BY DEF Surjection
<1>3. IsFiniteSet(taken)
  BY <1>1, <1>2, FS_Surjection
<1>4. IsFiniteSet(all)
  <2>1. IsFiniteSet(taken \cup {0})
    BY <1>3, FS_AddElement
  <2>2. all = taken \cup {0}
    OBVIOUS
  <2> QED BY <2>1, <2>2
<1>5. all \subseteq Nat
  BY <1>1 DEF TypeOK
<1>6. \E q \in all : \A n \in all : n <= q
  <2> HIDE DEF all
  <2> QED BY <1>4, <1>5, LargestExists DEF all
<1>7. \E q \in all : \A m \in Siblings(p) : prio[m] <= q
  BY <1>6
<1>8. PICK q : q \in all /\ (\A m \in Siblings(p) : prio[m] <= q) /\ NextPriority(p) = 1 + q
  BY <1>7 DEF NextPriority
<1> QED BY <1>1, <1>5, <1>8 DEF TypeOK

-----------------------------------------------------------------------------
(* A commit keeps the tree whole. *)
LEMMA WritesWhole ==
  ASSUME SafeInv, NEW x, NEW H, Writes(x, H)
  PROVE  Forest!Whole' /\ nodes' \subseteq Nodes /\ home' \in [Items -> Subsections \cup {None}]
<1>0. /\ nodes \subseteq Nodes /\ home \in [Items -> Subsections \cup {None}]
      /\ (\A n \in nodes : ParentOf(n) \in nodes \cup {None})
      /\ (\A i \in Items : home[i] \in (nodes \cap Subsections) \cup {None})
  BY DEF SafeInv, TypeOK, Forest!Whole, ParentOf
<1>1. CASE x.op = "createNode" /\ AddsNode(x, H)
  <2>1. \A n \in nodes' : ParentOf(n) \in nodes' \cup {None}
    BY <1>0, <1>1 DEF AddsNode
  <2>2. \A i \in Items : home'[i] \in (nodes' \cap Subsections) \cup {None}
    BY <1>0, <1>1 DEF AddsNode
  <2> QED BY <1>0, <1>1, <2>1, <2>2 DEF AddsNode, Forest!Whole, ParentOf, Forest!ParentOf
<1>2. CASE x.op = "reorder" /\ nodes' = nodes /\ home' = home
  BY <1>0, <1>2 DEF Forest!Whole, ParentOf, Forest!ParentOf
<1>3. CASE x.op \in {"createItem", "updateItem"} /\ PlacesItem(x, H)
  <2>1. \A i \in Items : home'[i] \in (nodes' \cap Subsections) \cup {None}
    BY <1>0, <1>3 DEF PlacesItem
  <2> QED BY <1>0, <1>3, <2>1 DEF PlacesItem, Forest!Whole, ParentOf, Forest!ParentOf
<1>4. CASE x.op = "deleteItem" /\ TakesItem(x, H)
  <2>1. \A i \in Items : home'[i] \in (nodes' \cap Subsections) \cup {None}
    BY <1>0, <1>4 DEF TakesItem
  <2> QED BY <1>0, <1>4, <2>1 DEF TakesItem, Forest!Whole, ParentOf, Forest!ParentOf
<1>5. CASE x.op = "deleteNode" /\ TakesTree(x, H)
  <2>1. PICK n : n = x.node /\ n \in Nodes
    BY <1>5 DEF TakesTree
  <2>2. /\ nodes' = nodes \ Tree(n)
        /\ home' = [i \in Items |-> IF home[i] \in Below(n) THEN None ELSE home[i]]
    BY <1>5, <2>1 DEF TakesTree
  <2>3. ASSUME NEW m \in nodes' PROVE ParentOf(m) \in nodes' \cup {None}
    BY <1>0, <2>1, <2>2, <2>3, Trees
  <2>4. ASSUME NEW i \in Items PROVE home'[i] \in (nodes' \cap Subsections) \cup {None}
    BY <1>0, <2>1, <2>2, Trees
  <2>5. Forest!Whole'
    BY <2>3, <2>4 DEF Forest!Whole, ParentOf, Forest!ParentOf
  <2> QED BY <1>0, <2>2, <2>5
<1> QED BY <1>1, <1>2, <1>3, <1>4, <1>5 DEF Writes

(* What a commit creates is new, and nobody else is creating it. *)
LEMMA WritesFresh ==
  ASSUME SafeInv, NEW t \in Tx, Writes(tx[t], held[t]), Becomes(t, Idle), spent' = spent
  PROVE  Fresh'
<1>0. PICK x, H : x = tx[t] /\ H = held[t]
  OBVIOUS
<1>1. /\ Writes(x, H) /\ Live(H, nodes, home)
      /\ nodes \subseteq Nodes /\ home \in [Items -> Subsections \cup {None}]
  BY <1>0, Standing DEF SafeInv, TypeOK
<1>2. \A u \in Tx : tx'[u] = IF u = t THEN Idle ELSE tx[u]
  BY DEF Becomes
<1>3. Idle.op = "none"
  BY IdleFields
<1>4. nodes' \subseteq nodes \cup (IF x.op = "createNode" THEN {x.node} ELSE {})
  BY <1>1 DEF Writes, AddsNode, PlacesItem, TakesItem, TakesTree
<1>5. \A i \in Items :
        \/ home'[i] = home[i] \/ home'[i] = None
        \/ /\ i = x.item /\ home'[i] # None
           /\ x.op = "createItem" \/ home[i] # None
  <2>1. CASE x.op \in {"createItem", "updateItem"} /\ PlacesItem(x, H)
    <3>1. Owns(H, x.item) => home[x.item] # None
      <4>1. x.item \notin nodes
        BY <1>1, <2>1, Kinds DEF PlacesItem
      <4> QED BY <1>1, <4>1, LockFields DEF Owns, Live
    <3>2. x.op = "createItem" \/ home[x.item] # None
      BY <2>1, <3>1 DEF PlacesItem
    <3>3. \A i \in Items : home'[i] = IF i = x.item THEN x.sub ELSE home[i]
      BY <1>1, <2>1 DEF PlacesItem
    <3> QED BY <3>2, <3>3
  <2>2. CASE ~(x.op \in {"createItem", "updateItem"} /\ PlacesItem(x, H))
    BY <1>1, <2>2 DEF Writes, AddsNode, TakesItem, TakesTree
  <2> QED BY <2>1, <2>2
<1>6. nodes' \subseteq spent'
  BY <1>0, <1>4 DEF SafeInv, Fresh
<1>7. \A i \in Items : home'[i] # None => i \in spent'
  BY <1>0, <1>5 DEF SafeInv, Fresh
<1>8. \A u \in Tx : tx'[u].op = "createNode" => tx'[u].node \in spent' \ nodes'
  BY <1>0, <1>2, <1>3, <1>4 DEF SafeInv, Fresh
<1>9. ASSUME NEW u \in Tx, tx'[u].op = "createItem"
      PROVE  tx'[u].item \in spent' /\ home'[tx'[u].item] = None
  <2>1. u # t /\ tx'[u] = tx[u]
    BY <1>2, <1>3, <1>9
  <2>2. tx[u].item \in spent /\ home[tx[u].item] = None /\ tx[u].item \in Items
    BY <1>9, <2>1, Standing DEF SafeInv, Fresh, Safe, ItemSafe
  <2>3. x.op = "createItem" => x.item # tx[u].item
    BY <1>0, <1>9, <2>1 DEF SafeInv, Fresh
  <2>4. home'[tx[u].item] = None
    BY <1>5, <2>2, <2>3
  <2> QED BY <2>1, <2>2, <2>4
<1>10. \A u, v \in Tx : u # v /\ tx'[u].op = "createNode" /\ tx'[v].op = "createNode"
                          => tx'[u].node # tx'[v].node
  BY <1>2, <1>3 DEF SafeInv, Fresh
<1>11. \A u, v \in Tx : u # v /\ tx'[u].op = "createItem" /\ tx'[v].op = "createItem"
                          => tx'[u].item # tx'[v].item
  BY <1>2, <1>3 DEF SafeInv, Fresh
<1> QED BY <1>6, <1>7, <1>8, <1>9, <1>10, <1>11 DEF Fresh

LEMMA CommitKeeps ==
  ASSUME SafeInv, NEW t \in Tx, Commit(t)
  PROVE  SafeInv'
<1>1. /\ Becomes(t, Idle) /\ held' = [held EXCEPT ![t] = {}]
      /\ spent' = spent /\ left' = left /\ raced' = raced
  BY Replaced, IdleFields DEF SafeInv, Commit, Release
<1>2. \A u \in Tx : held'[u] = IF u = t THEN {} ELSE held[u]
  BY <1>1 DEF SafeInv, TypeOK
<1>3. Writes(tx[t], held[t])
  BY CommitWrites
<1>4. Forest!Whole' /\ nodes' \subseteq Nodes /\ home' \in [Items -> Subsections \cup {None}]
  BY <1>3, WritesWhole
<1>5. prio' \in [Nodes -> Nat]
  <2>1. PICK x : x = tx[t]
    OBVIOUS
  <2>2. x \in Requests /\ ReorderSafe(x)
    BY <2>1, Standing DEF Safe
  <2>3. x.prio \in Nat /\ x.order \in Seq(Nodes)
    BY <2>2 DEF Requests
  <2>4. ASSUME x.op = "reorder", NEW n \in x.got PROVE Position(x.order, n) \in Nat
    <3>1. n \in Range(x.order)
      BY <2>2, <2>4 DEF ReorderSafe
    <3>2. \E k \in DOMAIN x.order : x.order[k] = n
      BY <3>1 DEF Range
    <3>3. DOMAIN x.order \subseteq Nat
      BY <2>3
    <3> QED BY <3>2, <3>3 DEF Position
  <2>5. prio' = [n \in Nodes |->
                   IF n \in x.gone THEN 0
                   ELSE IF x.op = "createNode" /\ n = x.node THEN x.prio
                   ELSE IF x.op = "reorder" /\ n \in x.got THEN Position(x.order, n)
                   ELSE prio[n]]
    BY <2>1 DEF Commit
  <2>6. prio \in [Nodes -> Nat]
    BY DEF SafeInv, TypeOK
  <2> QED BY <2>3, <2>4, <2>5, <2>6
<1>6. TypeOK'
  BY <1>1, <1>4, <1>5 DEF SafeInv, TypeOK, Becomes
<1>7. LocksApart'
  BY <1>2 DEF SafeInv, LocksApart
<1>8. Fresh'
  BY <1>1, <1>3, WritesFresh
<1>9. ASSUME NEW u \in Tx
      PROVE Live(held'[u], nodes', home') /\ Safe(tx'[u], held'[u], nodes', home')
  <2>1. CASE u = t
    <3>1. tx'[u] = Idle /\ held'[u] = {}
      BY <1>1, <1>2, <2>1 DEF Becomes
    <3>2. PICK N, M : N = nodes' /\ M = home'
      OBVIOUS
    <3>3. Live({}, N, M) /\ Safe(Idle, {}, N, M)
      BY IdleFields, NothingListed
      DEF Live, Safe, IdleSafe, CreateSafe, ReorderSafe, ItemSafe, DeleteSafe
    <3> QED BY <3>1, <3>2, <3>3
  <2>2. CASE u # t
    <3>1. tx'[u] = tx[u] /\ held'[u] = held[u]
      BY <1>1, <1>2, <2>2 DEF Becomes
    <3>2. PICK x, H, N, M, N2, M2 : /\ x = tx[u] /\ H = held[u] /\ N = nodes /\ M = home
                                    /\ N2 = nodes' /\ M2 = home'
      OBVIOUS
    <3>3. Spared(held[u], nodes, home, nodes', home')
      BY <1>3, <2>2, WritesSpare
    <3>4. /\ Spared(H, N, M, N2, M2) /\ N \subseteq Nodes /\ x \in Requests
          /\ Safe(x, H, N, M) /\ Live(H, N, M)
      BY <3>2, <3>3, Standing DEF SafeInv, TypeOK
    <3>5. Live(H, N2, M2) /\ Safe(x, H, N2, M2)
      BY <3>4, LiveSpared, SafeSpared
    <3> QED BY <3>1, <3>2, <3>5
  <2> QED BY <2>1, <2>2
<1> QED BY <1>4, <1>6, <1>7, <1>8, <1>9 DEF SafeInv

LEMMA StepKeeps ==
  ASSUME SafeInv, NEW t \in Tx, Step(t)
  PROVE  SafeInv'
<1>1. CASE Fail(t)
  BY <1>1, FailKeeps
<1>2. CASE ~Fail(t)
  <2>1. NextPriority(ParentOf(tx[t].node)) \in Nat
    BY NextPriorityAbove DEF SafeInv
  <2>2. ~AbortDeadlocked(t) /\ ~RefuseNode(t)
    BY <1>2 DEF AbortDeadlocked, RefuseNode
  <2> QED BY <1>2, <2>1, <2>2, ReadParentKeeps, LockRootKeeps, LockSectionsKeeps, InspectKeeps,
             DeleteItemsKeeps, DeleteNodeKeeps, CascadeKeeps, ReadSiblingsKeeps, ReadStructureKeeps,
             LockItemKeeps, AcquireKeeps, CommitKeeps DEF Step
<1> QED BY <1>1, <1>2

LEMMA UnchangedKeeps ==
  ASSUME SafeInv, UNCHANGED vars
  PROVE  SafeInv'
BY DEF SafeInv, TypeOK, Forest!Whole, Forest!ParentOf, LocksApart, Fresh, vars

LEMMA NextKeeps == SafeInv /\ [Next]_vars => SafeInv'
BY RequestKeeps, StepKeeps, UnchangedKeeps DEF Next, Done

(* What the database holds at first *)
LEMMA InitSafe == Init => SafeInv
<1> SUFFICES ASSUME Init PROVE SafeInv
  OBVIOUS
<1>1. /\ nodes \subseteq Nodes /\ home \in [Items -> Subsections \cup {None}]
      /\ held = [t \in Tx |-> {}] /\ tx = [t \in Tx |-> Idle] /\ MaxRequests \in Nat
      /\ \A n \in nodes : ParentOf(n) \in nodes \cup {None}
      /\ \A i \in Items : home[i] \in nodes \cup {None}
  BY StructureAssumptions DEF Init
<1>2. ASSUME NEW n \in Nodes
      PROVE Cardinality({m \in StartNodes : ParentOf(m) = ParentOf(n) /\ Place(m) <= Place(n)}) \in Nat
  <2>1. PICK S : S = {m \in StartNodes : ParentOf(m) = ParentOf(n) /\ Place(m) <= Place(n)}
    OBVIOUS
  <2>2. S \subseteq Nodes
    BY <2>1, StructureAssumptions
  <2> QED BY <2>1, <2>2, NodesFinite, FS_CardinalityType
<1>3. prio \in [Nodes -> Nat]
  BY <1>2 DEF Init
<1>4. spent \subseteq Rows /\ left \in 0 .. MaxRequests /\ raced \subseteq Nodes \cup {None}
  BY <1>1 DEF Init, Rows
<1>5. TypeOK
  BY <1>1, <1>3, <1>4, IdleFields DEF TypeOK
<1>6. Forest!Whole
  <2>1. \A i \in Items : home[i] \in (nodes \cap Subsections) \cup {None}
    BY <1>1
  <2> QED BY <1>1, <2>1 DEF Forest!Whole, ParentOf
<1>7. Fresh
  BY <1>1, IdleFields DEF Fresh, Init
<1>8. LocksApart
  BY <1>1 DEF LocksApart
<1>9. \A N, M : Live({}, N, M) /\ Safe(Idle, {}, N, M)
  BY IdleFields, NothingListed
  DEF Live, Safe, IdleSafe, CreateSafe, ReorderSafe, ItemSafe, DeleteSafe
<1>10. \A t \in Tx : Live(held[t], nodes, home) /\ Safe(tx[t], held[t], nodes, home)
  BY <1>1, <1>9
<1> QED BY <1>5, <1>6, <1>7, <1>8, <1>10 DEF SafeInv

(* Only a commit changes what is committed. *)
LEMMA OnlyCommitsWrite ==
  ASSUME NEW t \in Tx, Request(t) \/ Step(t), ~Commit(t)
  PROVE  UNCHANGED db
BY DEF Request, BeginCreateNode, BeginDeleteNode, BeginReorder, BeginCreateItem, BeginUpdateItem,
       BeginDeleteItem, Begin, Step, RefuseNode, ReadParent, LockRoot, LockSections,
       LockSubsectionsOf, Inspect, DeleteItems, DeleteNode, Cascade, ReadSiblings, ReadStructure, LockItem, Acquire,
       AbortDeadlocked, Statement, Fail

(* The row locks keep what every request relies on: types, a whole tree, no
   conflicting locks, and label by label what delete_structure_node,
   create_* and the question writes have checked. *)
THEOREM LocksProtect == Spec => []SafeInv
BY InitSafe, NextKeeps, PTL DEF Spec

(* Concurrent requests implement MatrixForest: sheets, sections, subsections
   and questions change as if every request ran alone and a deletion took
   the whole tree in one step, whatever rows come and go between the
   statements of delete_structure_node. *)
THEOREM RequestsImplementForest == Spec => RefinesForest
<1>1. Init => Forest!Init
  <2> SUFFICES ASSUME Init PROVE Forest!Init
    OBVIOUS
  <2>1. SafeInv
    BY InitSafe
  <2> QED BY <2>1 DEF SafeInv, TypeOK, Forest!Init, Nodes
<1>2. SafeInv /\ [Next]_vars => [Forest!Next]_Forest!vars
  <2> SUFFICES ASSUME SafeInv, [Next]_vars PROVE Forest!Next \/ (nodes' = nodes /\ home' = home)
    BY DEF Forest!vars
  <2>1. ASSUME NEW t \in Tx, Commit(t) PROVE Forest!Next \/ (nodes' = nodes /\ home' = home)
    <3>1. PICK x, H : x = tx[t] /\ H = held[t]
      OBVIOUS
    <3>2. Writes(x, H)
      BY <2>1, <3>1, CommitWrites
    <3> QED BY <3>2, WritesForest
  <2>2. ASSUME NEW t \in Tx, Request(t) \/ Step(t), ~Commit(t)
        PROVE  nodes' = nodes /\ home' = home
    BY <2>2, OnlyCommitsWrite DEF db
  <2> QED BY <2>1, <2>2 DEF Next, Done, vars
<1> QED BY <1>1, <1>2, LocksProtect, PTL DEF Spec, RefinesForest, Forest!Spec

(* Every node has its parent and every question its subsection, whatever
   requests overlap. *)
THEOREM TreeStaysWhole == Spec => []Forest!Whole
<1>1. SafeInv => Forest!Whole
  BY DEF SafeInv
<1> QED BY <1>1, LocksProtect, PTL

(* delete_structure_node without delete_with_questions never takes a question
   with it: from its inspection on, the locked subsections let no question in. *)
THEOREM DeletionKeepsQuestions == Spec => QuestionsKept
<1> DEFINE Kept == \A t \in Tx :
             tx[t].op = "deleteNode" /\ ~tx[t].force /\ ~At(t, "idle") /\ tx'[t] = Idle => home' = home
<1>1. SafeInv /\ [Next]_vars => [Kept]_vars
  <2> SUFFICES ASSUME SafeInv, Next, NEW t \in Tx, tx[t].op = "deleteNode", ~tx[t].force,
                      ~At(t, "idle"), tx'[t] = Idle
               PROVE  home' = home
    OBVIOUS
  <2>1. tx'[t] # tx[t]
    BY IdleFields
  <2>2. ASSUME NEW u \in Tx, Commit(u) PROVE home' = home
    <3>1. u = t
      BY <2>1, <2>2 DEF Commit, Release, SafeInv, TypeOK
    <3>2. Writes(tx[t], held[t])
      BY <2>2, <3>1, CommitWrites
    <3> QED BY <3>2 DEF Writes, TakesTree
  <2>3. ASSUME NEW u \in Tx, Request(u) \/ Step(u), ~Commit(u) PROVE home' = home
    BY <2>3, OnlyCommitsWrite DEF db
  <2> QED BY <2>2, <2>3 DEF Next, Done, vars
<1>2. SafeInv /\ [Next]_vars =>
        [\A t \in Tx : tx[t].op = "deleteNode" /\ ~tx[t].force /\ ~At(t, "idle") /\ tx'[t] = Idle
                     => home' = home]_vars
  BY <1>1
<1> QED BY <1>2, LocksProtect, PTL DEF Spec, QuestionsKept

-----------------------------------------------------------------------------
(* Priorities *)

(* A step that neither reads children to order them nor commits *)
Follows(x, y, N) ==
  \/ ~Ordering(y)
  \/ /\ Ordering(x) /\ Under(y) = Under(x) /\ y.op = x.op /\ y.prio = x.prio
     /\ \A m \in N : m \in x.got \cup Listed(x) => m \in y.got \cup Listed(y)

LEMMA RankFollows ==
  ASSUME NEW x, NEW y, NEW N, NEW P, NEW R, Ranked(x, N, P, R), Follows(x, y, N)
  PROVE  Ranked(y, N, P, R)
BY DEF Ranked, Follows

LEMMA QuietTies ==
  ASSUME TiesInv, SafeInv', NEW t \in Tx, NEW y, Becomes(t, y), UNCHANGED <<nodes, prio, raced>>,
         Follows(tx[t], y, nodes)
  PROVE  TiesInv'
<1>1. \A u \in Tx : tx'[u] = IF u = t THEN y ELSE tx[u]
  BY DEF Becomes
<1>2. PICK w, w2, N, P, R : /\ w = tx /\ w2 = tx' /\ N = nodes /\ P = prio /\ R = raced
                            /\ N = nodes' /\ P = prio' /\ R = raced'
  OBVIOUS
<1>3. /\ RacesNoted(w, R) /\ Apart(N, P, R) /\ \A u \in Tx : Ranked(w[u], N, P, R)
  BY <1>2 DEF TiesInv
<1>4. Follows(w[t], y, N) /\ \A u \in Tx : w2[u] = IF u = t THEN y ELSE w[u]
  BY <1>1, <1>2
<1>5. \A u \in Tx : Ordering(w2[u]) => /\ Ordering(w[u]) /\ Under(w2[u]) = Under(w[u])
                                       /\ w2[u].op = w[u].op
  BY <1>4 DEF Follows
<1>6. RacesNoted(w2, R)
  BY <1>3, <1>5 DEF RacesNoted
<1>7. \A u \in Tx : Ranked(w2[u], N, P, R)
  BY <1>3, <1>4, RankFollows
<1>8. RacesNoted(tx', raced') /\ Apart(nodes', prio', raced')
      /\ \A u \in Tx : Ranked(tx'[u], nodes', prio', raced')
  BY <1>2, <1>3, <1>6, <1>7
<1> QED BY <1>8 DEF TiesInv

(* What a request starts with *)
FirstLabels ==
  {"readParent", "lockRoot", "lockSubsections", "readSiblings", "readStructure", "lockItem"}
Starts(t) ==
  \E op, y : /\ Begin(t, op, y) /\ op # "none" /\ y.op = op /\ y.pc \in FirstLabels
             /\ \A k \in DOMAIN y.todo : k = 1

LEMMA RequestStarts ==
  ASSUME NEW t \in Tx, Request(t)
  PROVE  Starts(t)
<1>0. \A k \in DOMAIN Idle.todo : k = 1
  BY IdleFields
<1>1. ASSUME NEW n \in Nodes, BeginCreateNode(t, n) PROVE Starts(t)
  <2>1. PICK y : y = [Idle EXCEPT !.op = "createNode", !.pc = "readParent", !.node = n]
    OBVIOUS
  <2>2. y.op = "createNode" /\ y.pc = "readParent" /\ y.todo = Idle.todo
    BY <2>1, IdleFields DEF Requests
  <2>3. Begin(t, "createNode", y)
    BY <1>1, <2>1 DEF BeginCreateNode
  <2> QED BY <1>0, <2>2, <2>3 DEF Starts, FirstLabels
<1>2. ASSUME NEW n \in Nodes, NEW force \in BOOLEAN, BeginDeleteNode(t, n, force) PROVE Starts(t)
  <2>0. PICK pc, locks : /\ pc = (IF n \in Subsections THEN "lockSubsections" ELSE "lockRoot")
                         /\ locks = ForUpdate(<<n>>)
    OBVIOUS
  <2>1. PICK y : y = [Idle EXCEPT !.op = "deleteNode", !.node = n, !.force = force,
                                  !.pc = pc, !.todo = locks]
    OBVIOUS
  <2>2. y.op = "deleteNode" /\ y.pc = pc /\ y.todo = locks
    BY <2>1, IdleFields DEF Requests
  <2>3. Begin(t, "deleteNode", y)
    BY <1>2, <2>0, <2>1 DEF BeginDeleteNode
  <2>4. \A k \in DOMAIN locks : k = 1
    BY <2>0 DEF ForUpdate
  <2>5. pc \in FirstLabels
    BY <2>0 DEF FirstLabels
  <2> QED BY <2>2, <2>3, <2>4, <2>5 DEF Starts
<1>3. ASSUME NEW p, NEW order, BeginReorder(t, p, order) PROVE Starts(t)
  <2>1. PICK y : y = [Idle EXCEPT !.op = "reorder", !.pc = "readSiblings",
                                  !.node = p, !.order = order]
    OBVIOUS
  <2>2. y.op = "reorder" /\ y.pc = "readSiblings" /\ y.todo = Idle.todo
    BY <2>1, IdleFields DEF Requests
  <2>3. Begin(t, "reorder", y)
    BY <1>3, <2>1 DEF BeginReorder
  <2> QED BY <1>0, <2>2, <2>3 DEF Starts, FirstLabels
<1>4. ASSUME NEW i \in Items, NEW u \in Subsections, BeginCreateItem(t, i, u) PROVE Starts(t)
  <2>1. PICK y : y = [Idle EXCEPT !.op = "createItem", !.pc = "readStructure", !.item = i, !.sub = u]
    OBVIOUS
  <2>2. y.op = "createItem" /\ y.pc = "readStructure" /\ y.todo = Idle.todo
    BY <2>1, IdleFields DEF Requests
  <2>3. Begin(t, "createItem", y)
    BY <1>4, <2>1 DEF BeginCreateItem
  <2> QED BY <1>0, <2>2, <2>3 DEF Starts, FirstLabels
<1>5. ASSUME NEW i \in Items, NEW u \in Subsections, BeginUpdateItem(t, i, u) PROVE Starts(t)
  <2>1. PICK y : y = [Idle EXCEPT !.op = "updateItem", !.pc = "readStructure", !.item = i, !.sub = u]
    OBVIOUS
  <2>2. y.op = "updateItem" /\ y.pc = "readStructure" /\ y.todo = Idle.todo
    BY <2>1, IdleFields DEF Requests
  <2>3. Begin(t, "updateItem", y)
    BY <1>5, <2>1 DEF BeginUpdateItem
  <2> QED BY <1>0, <2>2, <2>3 DEF Starts, FirstLabels
<1>6. ASSUME NEW i \in Items, BeginDeleteItem(t, i) PROVE Starts(t)
  <2>0. PICK locks : locks = ForUpdate(<<i>>)
    OBVIOUS
  <2>1. PICK y : y = [Idle EXCEPT !.op = "deleteItem", !.pc = "lockItem", !.item = i, !.todo = locks]
    OBVIOUS
  <2>2. y.op = "deleteItem" /\ y.pc = "lockItem" /\ y.todo = locks
    BY <2>1, IdleFields DEF Requests
  <2>3. Begin(t, "deleteItem", y)
    BY <1>6, <2>0, <2>1 DEF BeginDeleteItem
  <2>4. \A k \in DOMAIN locks : k = 1
    BY <2>0 DEF ForUpdate
  <2> QED BY <2>2, <2>3, <2>4 DEF Starts, FirstLabels
<1> QED BY <1>1, <1>2, <1>3, <1>4, <1>5, <1>6 DEF Request

LEMMA ArrivalTies ==
  ASSUME TiesInv, NEW t \in Tx, Request(t)
  PROVE  TiesInv'
<1>1. SafeInv'
  BY RequestKeeps DEF TiesInv
<1>2. PICK op, y : Begin(t, op, y) /\ y.pc \in FirstLabels
  BY RequestStarts DEF Starts
<1>3. UNCHANGED <<nodes, prio, raced>> /\ tx' = [tx EXCEPT ![t] = y]
  BY <1>2 DEF Begin, db
<1>4. Becomes(t, y)
  BY <1>1, <1>3 DEF Becomes, TiesInv, SafeInv, TypeOK
<1>5. Follows(tx[t], y, nodes)
  BY <1>2 DEF Follows, Ordering, FirstLabels
<1> QED BY <1>1, <1>3, <1>4, <1>5, QuietTies

LEMMA FailTies ==
  ASSUME TiesInv, NEW t \in Tx, Fail(t)
  PROVE  TiesInv'
<1>1. SafeInv' /\ Becomes(t, Idle) /\ UNCHANGED <<nodes, prio, raced>>
  BY FailKeeps, Replaced, IdleFields DEF TiesInv, SafeInv, Fail, Release, db
<1>2. Follows(tx[t], Idle, nodes)
  BY IdleFields DEF Follows, Ordering
<1> QED BY <1>1, <1>2, QuietTies

(* Statements of deletions and question writes *)
LEMMA StatementTies ==
  ASSUME TiesInv, SafeInv', NEW t \in Tx, NEW pc, NEW locks, NEW x, Statement(t, pc, locks, x),
         x \in Requests, x.op \notin {"createNode", "reorder"}
  PROVE  TiesInv'
<1>1. PICK y : y = [x EXCEPT !.pc = pc, !.todo = locks, !.got = {}]
  OBVIOUS
<1>2. y.op = x.op
  BY <1>1 DEF Requests
<1>3. UNCHANGED <<nodes, prio, raced>> /\ tx' = [tx EXCEPT ![t] = y]
  BY <1>1 DEF Statement, db
<1>4. Becomes(t, y)
  BY <1>3 DEF Becomes, TiesInv, SafeInv, TypeOK
<1>5. Follows(tx[t], y, nodes)
  BY <1>2 DEF Follows, Ordering
<1> QED BY <1>3, <1>4, <1>5, QuietTies

LEMMA OtherTies ==
  ASSUME TiesInv, SafeInv', NEW t \in Tx, ~Fail(t),
         \/ LockRoot(t) \/ LockSections(t) \/ Inspect(t) \/ DeleteItems(t) \/ DeleteNode(t)
         \/ Cascade(t) \/ ReadStructure(t) \/ LockItem(t)
  PROVE  TiesInv'
<1>1. tx[t] \in Requests /\ tx[t].op \notin {"createNode", "reorder"}
  BY Standing DEF TiesInv, LockRoot, LockSections, Inspect, DeleteItems, DeleteNode, Cascade,
                  ReadStructure, LockItem, Ready, At
<1>2. \A gone : [tx[t] EXCEPT !.gone = gone].op = tx[t].op
  BY <1>1 DEF Requests
<1>3. CASE LockRoot(t) \/ LockSections(t) \/ DeleteItems(t) \/ ReadStructure(t)
  BY <1>1, <1>3, StatementTies
  DEF LockRoot, LockSections, LockSubsectionsOf, DeleteItems, ReadStructure
<1>4. CASE Inspect(t) \/ DeleteNode(t) \/ Cascade(t) \/ LockItem(t)
  <2>1. \A gone \in SUBSET Rows : [tx[t] EXCEPT !.gone = gone] \in Requests
    BY <1>1 DEF Requests
  <2>2. tx[t].got \in SUBSET Rows /\ tx[t].gone \cup tx[t].got \in SUBSET Rows
    BY <1>1 DEF Requests
  <2>3. CASE Inspect(t) \/ DeleteNode(t) \/ Cascade(t)
    BY <1>1, <1>2, <2>1, <2>2, <2>3, StatementTies DEF Inspect, DeleteNode, Cascade
  <2>4. CASE LockItem(t)
    <3>1. tx[t].item \in Items
      BY <2>4, Standing DEF TiesInv, LockItem, Ready, At, Safe, ItemSafe
    <3>2. {tx[t].item} \in SUBSET Rows
      BY <3>1 DEF Rows
    <3> QED BY <1>1, <1>2, <2>1, <2>4, <3>2, StatementTies DEF LockItem
  <2> QED BY <1>4, <2>3, <2>4
<1> QED BY <1>3, <1>4

LEMMA AcquireTies ==
  ASSUME TiesInv, NEW t \in Tx, Acquire(t), ~Fail(t)
  PROVE  TiesInv'
<1>0. SafeInv /\ SafeInv'
  BY AcquireKeeps DEF TiesInv
<1>1. PICK y : Becomes(t, y) /\ Serves(tx[t], y, held[t], held'[t], nodes, home)
  BY <1>0, AcquireServes
<1>2. UNCHANGED <<nodes, prio, raced>>
  BY <1>0, AcquireServes DEF db
<1>3. PICK x, l, N : x = tx[t] /\ l = Head(x.todo) /\ N = nodes
  OBVIOUS
<1>4. /\ x \in Requests /\ y \in Requests /\ x.todo # <<>> /\ y.todo = Tail(x.todo)
      /\ y.op = x.op /\ y.pc = x.pc /\ y.prio = x.prio /\ y.node = x.node
  BY <1>1, <1>3 DEF Serves, Keeps
<1>5. Listed(x) = Listed(y) \cup {l.row}
  BY <1>3, <1>4, ListServed
<1>6. y.got = x.got \cup {l.row} \/ (y.got = x.got /\ ~Fits(x, l.row, nodes, home))
  BY <1>1, <1>3 DEF Serves
<1>7. ~Fits(x, l.row, nodes, home) => l.row \notin N
  BY <1>0, <1>3, Kinds DEF Fits, SafeInv, TypeOK
<1>8. Follows(x, y, N)
  BY <1>4, <1>5, <1>6, <1>7 DEF Follows, Ordering, Under
<1> QED BY <1>0, <1>1, <1>2, <1>3, <1>8, QuietTies

(* The requests that have read the children of a node *)
LEMMA OrdersUnder ==
  ASSUME SafeInv, NEW t \in Tx, NEW p, Ordering(tx[t]), Under(tx[t]) = p
  PROVE  Orders(t, p)
BY DEF Ordering, Under, Orders, At

(* A request that reads the children of a node notes the race it is in. *)
LEMMA ReaderTies ==
  ASSUME TiesInv, SafeInv', NEW t \in Tx, NEW y, Becomes(t, y), UNCHANGED <<nodes, prio>>,
         Ordering(y), y.op = tx[t].op, NoteRace(t, Under(y)),
         Ranked(y, nodes, prio, raced)
  PROVE  TiesInv'
<1>1. \A u \in Tx : tx'[u] = IF u = t THEN y ELSE tx[u]
  BY DEF Becomes
<1>2. PICK w, w2, N, P, R, R2 : /\ w = tx /\ w2 = tx' /\ N = nodes /\ P = prio /\ R = raced
                                /\ N = nodes' /\ P = prio' /\ R2 = raced'
  OBVIOUS
<1>3. /\ RacesNoted(w, R) /\ Apart(N, P, R) /\ (\A u \in Tx : Ranked(w[u], N, P, R))
      /\ Ranked(y, N, P, R)
  BY <1>2 DEF TiesInv
<1>4. \A u \in Tx : w2[u] = IF u = t THEN y ELSE w[u]
  BY <1>1, <1>2
<1>5. R \subseteq R2
  BY <1>2 DEF NoteRace
<1>6. ASSUME NEW u \in Tx, u # t, Ordering(w[u]), Under(w[u]) = Under(y),
             "createNode" \in {w[u].op, y.op}
      PROVE  Under(y) \in R2
  <2>1. Orders(u, Under(y))
    BY <1>2, <1>6, OrdersUnder DEF TiesInv
  <2> QED BY <1>2, <1>6, <2>1 DEF NoteRace
<1>7. RacesNoted(w2, R2)
  <2> SUFFICES ASSUME NEW u \in Tx, NEW v \in Tx, u # v, Ordering(w2[u]), Ordering(w2[v]),
                      w2[u].op = "createNode", Under(w2[u]) = Under(w2[v])
               PROVE  Under(w2[u]) \in R2
    BY DEF RacesNoted
  <2>1. CASE u = t
    BY <1>4, <1>6, <2>1
  <2>2. CASE v = t
    BY <1>4, <1>6, <2>2
  <2>3. CASE u # t /\ v # t
    BY <1>3, <1>4, <1>5, <2>3 DEF RacesNoted
  <2> QED BY <2>1, <2>2, <2>3
<1>8. \A u \in Tx : Ranked(w2[u], N, P, R2)
  BY <1>3, <1>4, <1>5 DEF Ranked
<1>9. Apart(N, P, R2)
  BY <1>3, <1>5 DEF Apart
<1>10. RacesNoted(tx', raced') /\ Apart(nodes', prio', raced')
       /\ \A u \in Tx : Ranked(tx'[u], nodes', prio', raced')
  BY <1>2, <1>7, <1>8, <1>9
<1> QED BY <1>10 DEF TiesInv

LEMMA ReadParentTies ==
  ASSUME TiesInv, NEW t \in Tx, ReadParent(t)
  PROVE  TiesInv'
<1>0. SafeInv /\ SafeInv' /\ NextPriority(ParentOf(tx[t].node)) \in Nat
  BY ReadParentKeeps, NextPriorityAbove DEF TiesInv, SafeInv
<1>1. tx[t] \in Requests /\ tx[t].op = "createNode"
  BY <1>0, Standing DEF ReadParent, Ready
<1>2. PICK x, p, next, locks :
        /\ x = tx[t] /\ p = ParentOf(x.node) /\ next = NextPriority(p)
        /\ locks = IF p = None THEN <<>> ELSE <<Lock(p, "keyShare")>>
  OBVIOUS
<1>3. /\ tx' = [tx EXCEPT ![t].pc = "write", ![t].prio = next, ![t].todo = locks]
      /\ NoteRace(t, p) /\ UNCHANGED <<nodes, prio>>
  BY <1>2 DEF ReadParent, db
<1>4. tx \in [Tx -> Requests]
  BY <1>0 DEF SafeInv, TypeOK
<1>5. PICK y : y = [x EXCEPT !.pc = "write", !.prio = next, !.todo = locks]
  OBVIOUS
<1>6. tx' = [tx EXCEPT ![t] = y]
  BY <1>2, <1>3, <1>4, <1>5
<1>7. Becomes(t, y)
  BY <1>0, <1>4, <1>6 DEF Becomes, SafeInv, TypeOK
<1>8. y.op = "createNode" /\ y.pc = "write" /\ y.node = x.node /\ y.prio = next
  BY <1>1, <1>2, <1>5 DEF Requests
<1>9. Under(y) = p /\ Ordering(y)
  BY <1>2, <1>8 DEF Under, Ordering
<1>10. \A m \in nodes : ParentOf(m) = p => prio[m] < next
  BY <1>0, <1>2, NextPriorityAbove DEF SafeInv, Siblings
<1>11. Ranked(y, nodes, prio, raced)
  BY <1>8, <1>9, <1>10 DEF Ranked
<1>12. y.op = tx[t].op /\ NoteRace(t, Under(y))
  BY <1>1, <1>3, <1>8, <1>9
<1> QED BY <1>0, <1>3, <1>7, <1>9, <1>11, <1>12, ReaderTies

LEMMA ReadSiblingsTies ==
  ASSUME TiesInv, NEW t \in Tx, ReadSiblings(t), ~Fail(t)
  PROVE  TiesInv'
<1>0. SafeInv /\ SafeInv'
  BY ReadSiblingsKeeps DEF TiesInv
<1>1. tx[t] \in Requests /\ tx[t].op = "reorder"
  BY <1>0, Standing DEF ReadSiblings, Ready
<1>2. PICK x, S : x = tx[t] /\ S = Siblings(x.node)
  OBVIOUS
<1>3. PICK locks \in AnyOrder(S, "noKeyUpdate") :
        tx' = [tx EXCEPT ![t].pc = "write", ![t].todo = locks]
  BY <1>2 DEF ReadSiblings
<1>4. NoteRace(t, x.node) /\ UNCHANGED <<nodes, prio>>
  BY <1>2 DEF ReadSiblings, db
<1>5. tx \in [Tx -> Requests]
  BY <1>0 DEF SafeInv, TypeOK
<1>6. PICK y : y = [x EXCEPT !.pc = "write", !.todo = locks]
  OBVIOUS
<1>7. tx' = [tx EXCEPT ![t] = y]
  BY <1>2, <1>3, <1>5, <1>6
<1>8. Becomes(t, y)
  BY <1>0, <1>5, <1>7 DEF Becomes, SafeInv, TypeOK
<1>9. y.op = "reorder" /\ y.pc = "write" /\ y.node = x.node /\ y.todo = locks
  BY <1>1, <1>2, <1>6 DEF Requests
<1>10. Under(y) = x.node /\ Ordering(y)
  BY <1>9 DEF Under, Ordering
<1>11. Listed(y) = S
  <2>1. IsFiniteSet(S) /\ S \subseteq Rows /\ "noKeyUpdate" \in Modes
    BY <1>0, <1>2, SiblingsFinite DEF Rows, Modes, SafeInv
  <2>2. Asks(locks, S, "noKeyUpdate")
    BY <1>3, <2>1, AnyOrderAsks
  <2> QED BY <1>9, <2>2, AsksListed
<1>12. \A m \in nodes : ParentOf(m) = x.node => m \in Listed(y)
  BY <1>2, <1>11 DEF Siblings
<1>13. Ranked(y, nodes, prio, raced)
  BY <1>9, <1>10, <1>12 DEF Ranked
<1>14. y.op = tx[t].op /\ NoteRace(t, Under(y))
  BY <1>1, <1>4, <1>9, <1>10
<1> QED BY <1>0, <1>4, <1>8, <1>10, <1>13, <1>14, ReaderTies

(* What a commit does to the priorities *)
LEMMA CommitRanks ==
  ASSUME SafeInv, NEW t \in Tx, Commit(t), NEW x, x = tx[t]
  PROVE  /\ nodes' \subseteq nodes \cup (IF x.op = "createNode" THEN {x.node} ELSE {})
         /\ \A n \in nodes' :
              prio'[n] = IF x.op = "createNode" /\ n = x.node THEN x.prio
                         ELSE IF x.op = "reorder" /\ n \in x.got THEN Position(x.order, n)
                         ELSE prio[n]
<1>1. nodes' = (nodes \cup (IF x.op = "createNode" THEN {x.node} ELSE {})) \ x.gone
  BY DEF Commit
<1>2. prio' = [n \in Nodes |->
                 IF n \in x.gone THEN 0
                 ELSE IF x.op = "createNode" /\ n = x.node THEN x.prio
                 ELSE IF x.op = "reorder" /\ n \in x.got THEN Position(x.order, n)
                 ELSE prio[n]]
  BY DEF Commit
<1>3. nodes' \subseteq Nodes
  BY CommitKeeps DEF SafeInv, TypeOK
<1> QED BY <1>1, <1>2, <1>3

(* A list numbers its members apart. *)
LEMMA PositionsApart ==
  ASSUME NEW order, NEW n \in Range(order), NEW m \in Range(order), n # m
  PROVE  Position(order, n) # Position(order, m)
<1>1. (\E k \in DOMAIN order : order[k] = n) /\ (\E k \in DOMAIN order : order[k] = m)
  BY DEF Range
<1>2. order[Position(order, n)] = n /\ order[Position(order, m)] = m
  BY <1>1 DEF Position
<1> QED BY <1>2

LEMMA CommitTies ==
  ASSUME TiesInv, NEW t \in Tx, Commit(t)
  PROVE  TiesInv'
<1>0. SafeInv /\ SafeInv' /\ Becomes(t, Idle) /\ raced' = raced
  BY CommitKeeps, Replaced, IdleFields DEF TiesInv, SafeInv, Commit, Release
<1>1. PICK x, w, w2, N, P, R, N2, P2 :
        /\ x = tx[t] /\ w = tx /\ w2 = tx' /\ N = nodes /\ P = prio /\ R = raced
        /\ N2 = nodes' /\ P2 = prio' /\ R = raced'
  BY <1>0
<1>2. /\ RacesNoted(w, R) /\ Apart(N, P, R) /\ (\A u \in Tx : Ranked(w[u], N, P, R))
      /\ x = w[t] /\ N \subseteq Nodes /\ P \in [Nodes -> Nat]
  BY <1>1 DEF TiesInv, SafeInv, TypeOK
<1>3. \A u \in Tx : w2[u] = IF u = t THEN Idle ELSE w[u]
  BY <1>0, <1>1 DEF Becomes
<1>4. /\ N2 \subseteq N \cup (IF x.op = "createNode" THEN {x.node} ELSE {})
      /\ \A n \in N2 :
           P2[n] = IF x.op = "createNode" /\ n = x.node THEN x.prio
                   ELSE IF x.op = "reorder" /\ n \in x.got THEN Position(x.order, n)
                   ELSE P[n]
  BY <1>0, <1>1, CommitRanks
<1>5. x \in Requests /\ x.todo = <<>> /\ ReorderSafe(x)
      /\ (x.op \in {"createNode", "reorder"} => Ordering(x)) /\ Listed(x) = {}
  BY <1>0, <1>1, Standing, NothingListed DEF Commit, Ready, At, Safe, Ordering
<1>6. \A m \in N2 : ParentOf(m) # Under(x) \/ x.op \notin {"createNode", "reorder"}
        => m \in N /\ P2[m] = P[m]
  BY <1>4, <1>5 DEF ReorderSafe, Under
<1>7. Apart(N2, P2, R)
  <2> SUFFICES ASSUME NEW n \in N2, NEW m \in N2, n # m, ParentOf(n) = ParentOf(m), ParentOf(n) \notin R
               PROVE  P2[n] # P2[m]
    BY DEF Apart
  <2>1. CASE ParentOf(n) # Under(x) \/ x.op \notin {"createNode", "reorder"}
    BY <1>2, <1>6, <2>1 DEF Apart
  <2>2. CASE x.op = "createNode" /\ ParentOf(n) = Under(x)
    <3>1. \A k \in N : ParentOf(k) = Under(x) => P[k] < x.prio /\ P[k] \in Nat
      BY <1>2, <1>5, <2>2 DEF Ranked
    <3>2. x.prio \in Nat
      BY <1>5 DEF Requests
    <3>3. ASSUME n # x.node, m # x.node PROVE P2[n] # P2[m]
      BY <1>2, <1>4, <2>2, <3>3 DEF Apart
    <3>4. ASSUME NEW a \in N2, NEW b \in N2, a = x.node, b # a, ParentOf(b) = Under(x)
          PROVE  P2[a] # P2[b]
      <4>1. P2[a] = x.prio /\ P2[b] = P[b] /\ b \in N
        BY <1>4, <2>2, <3>4
      <4>2. P[b] < x.prio /\ P[b] \in Nat
        BY <3>1, <3>4, <4>1
      <4> QED BY <3>2, <4>1, <4>2
    <3>5. n = x.node \/ m = x.node => P2[n] # P2[m]
      BY <2>2, <3>4
    <3> QED BY <3>3, <3>5
  <2>3. CASE x.op = "reorder" /\ ParentOf(n) = Under(x)
    <3>1. n \in x.got /\ m \in x.got
      BY <1>2, <1>4, <1>5, <2>3 DEF Ranked
    <3>2. n \in Range(x.order) /\ m \in Range(x.order)
      BY <1>5, <2>3, <3>1 DEF ReorderSafe
    <3>3. P2[n] = Position(x.order, n) /\ P2[m] = Position(x.order, m)
      BY <1>4, <2>3, <3>1
    <3> QED BY <3>2, <3>3, PositionsApart
  <2> QED BY <2>1, <2>2, <2>3
<1>8. ASSUME NEW u \in Tx PROVE Ranked(w2[u], N2, P2, R)
  <2>1. CASE u = t
    BY <1>3, <2>1, IdleFields DEF Ranked, Ordering
  <2>2. CASE u # t
    <3> SUFFICES ASSUME Ordering(w[u]), Under(w[u]) \notin R, NEW m \in N2, ParentOf(m) = Under(w[u])
                 PROVE  /\ w[u].op = "createNode" => P2[m] < w[u].prio
                        /\ w[u].op = "reorder" => m \in w[u].got \cup Listed(w[u])
      BY <1>3, <2>2 DEF Ranked
    <3>1. CASE ParentOf(m) # Under(x) \/ x.op \notin {"createNode", "reorder"}
      BY <1>2, <1>6, <3>1 DEF Ranked
    <3>2. CASE x.op \in {"createNode", "reorder"} /\ ParentOf(m) = Under(x)
      <4>1. Ordering(w[t]) /\ Under(w[t]) = Under(w[u])
        BY <1>2, <1>5, <3>2
      <4>2. x.op # "createNode" /\ w[u].op # "createNode"
        BY <1>2, <2>2, <4>1 DEF RacesNoted
      <4>3. x.op = "reorder" /\ m \in N
        BY <1>4, <3>2, <4>2
      <4> QED BY <1>2, <4>2, <4>3 DEF Ranked
    <3> QED BY <3>1, <3>2
  <2> QED BY <2>1, <2>2
<1>9. RacesNoted(w2, R)
  BY <1>2, <1>3, IdleFields DEF RacesNoted, Ordering
<1>10. RacesNoted(tx', raced') /\ Apart(nodes', prio', raced')
       /\ \A u \in Tx : Ranked(tx'[u], nodes', prio', raced')
  BY <1>1, <1>7, <1>8, <1>9
<1> QED BY <1>0, <1>10 DEF TiesInv

(* The ids are in one order. *)
LEMMA Places ==
  /\ \A n \in Nodes : Place(n) \in Nat /\ IdOrder[Place(n)] = n
  /\ \A n, m \in Nodes : n # m => Place(n) # Place(m)
<1>1. IdOrder \in Seq(Nodes) /\ Range(IdOrder) = Nodes
  BY StructureAssumptions
<1>2. ASSUME NEW n \in Nodes PROVE Place(n) \in Nat /\ IdOrder[Place(n)] = n
  <2>1. \E k \in DOMAIN IdOrder : IdOrder[k] = n
    BY <1>1, <1>2 DEF Range
  <2>2. Place(n) \in DOMAIN IdOrder /\ IdOrder[Place(n)] = n
    BY <2>1 DEF Place
  <2>3. DOMAIN IdOrder \subseteq Nat
    BY <1>1
  <2> QED BY <2>2, <2>3
<1> QED BY <1>2

LEMMA InitTies == Init => TiesInv
<1> SUFFICES ASSUME Init PROVE TiesInv
  OBVIOUS
<1> DEFINE upTo(n) == {m \in StartNodes : ParentOf(m) = ParentOf(n) /\ Place(m) <= Place(n)}
<1>1. StartNodes \subseteq Nodes /\ nodes = StartNodes
  BY StructureAssumptions DEF Init
<1>2. \A n \in StartNodes : prio[n] = Cardinality(upTo(n))
  BY <1>1 DEF Init
<1>3. ASSUME NEW n \in StartNodes, NEW m \in StartNodes, ParentOf(n) = ParentOf(m),
             Place(n) < Place(m)
      PROVE  Cardinality(upTo(n)) # Cardinality(upTo(m))
  <2>1. PICK S, T : S = upTo(n) /\ T = upTo(m)
    OBVIOUS
  <2>2. IsFiniteSet(T)
    BY <1>1, <2>1, NodesFinite
  <2>3. S \subseteq T /\ m \in T /\ m \notin S
    BY <1>1, <1>3, <2>1, Places
  <2>4. Cardinality(S) # Cardinality(T)
    BY <2>2, <2>3, FS_Subset
  <2> QED BY <2>1, <2>4
<1>4. ASSUME NEW n \in StartNodes, NEW m \in StartNodes, n # m, ParentOf(n) = ParentOf(m)
      PROVE  prio[n] # prio[m]
  <2>1. /\ Place(n) \in Nat /\ Place(m) \in Nat /\ Place(n) # Place(m)
    BY <1>1, <1>4, Places
  <2>2. Place(n) < Place(m) \/ Place(m) < Place(n)
    BY <2>1
  <2> QED BY <1>2, <1>3, <1>4, <2>2
<1>5. Apart(nodes, prio, raced)
  BY <1>1, <1>4 DEF Apart
<1>6. \A t \in Tx : ~Ordering(tx[t])
  BY IdleFields DEF Init, Ordering
<1>7. RacesNoted(tx, raced) /\ \A t \in Tx : Ranked(tx[t], nodes, prio, raced)
  BY <1>6 DEF RacesNoted, Ranked
<1> QED BY <1>5, <1>7, InitSafe DEF TiesInv

LEMMA NextTies == TiesInv /\ [Next]_vars => TiesInv'
<1> SUFFICES ASSUME TiesInv, [Next]_vars PROVE TiesInv'
  OBVIOUS
<1>1. ASSUME NEW t \in Tx, Step(t) PROVE TiesInv'
  <2>1. CASE Fail(t)
    BY <2>1, FailTies
  <2>2. CASE ~Fail(t)
    <3>1. SafeInv'
      BY <1>1, StepKeeps DEF TiesInv
    <3>2. ~AbortDeadlocked(t) /\ ~RefuseNode(t)
      BY <2>2 DEF AbortDeadlocked, RefuseNode
    <3> QED BY <1>1, <2>2, <3>1, <3>2, ReadParentTies, OtherTies, ReadSiblingsTies, AcquireTies,
               CommitTies DEF Step
  <2> QED BY <2>1, <2>2
<1>2. CASE UNCHANGED vars
  <2>1. SafeInv'
    BY <1>2, UnchangedKeeps DEF TiesInv
  <2>2. RacesNoted(tx', raced') /\ Apart(nodes', prio', raced')
        /\ \A u \in Tx : Ranked(tx'[u], nodes', prio', raced')
    BY <1>2 DEF TiesInv, vars
  <2> QED BY <2>1, <2>2 DEF TiesInv
<1> QED BY <1>1, <1>2, ArrivalTies DEF Next, Done

(* _next_priority and _update_priorities: two children of a node have the same
   priority only if creations under it overlapped, or a creation and a
   reordering did. *)
THEOREM EqualPrioritiesNeedRaces == Spec => []TiesNeedRaces
<1>1. TiesInv => TiesNeedRaces
  BY DEF TiesInv, Apart, TiesNeedRaces
<1> QED BY <1>1, InitTies, NextTies, PTL DEF Spec

-----------------------------------------------------------------------------
(* Waiting *)

(* NoItemRing holds on as long as no request starts to delete questions and
   no question comes below a node that one has locked. *)
LEMMA RingStays ==
  ASSUME NEW w, NEW w2, NEW M, NEW M2, NoItemRing(w, M),
         \A u \in Tx : Deleting(w2[u]) =>
           /\ Deleting(w[u]) /\ w2[u].gone = w[u].gone /\ Listed(w2[u]) \subseteq Listed(w[u])
           /\ \A v \in Tx : \A i \in Listed(w2[v]) : M2[i] \in w[u].gone => M[i] \in w[u].gone
  PROVE  NoItemRing(w2, M2)
<1> SUFFICES ASSUME NEW D \in SUBSET Tx, D # {}, \A t \in D : Deleting(w2[t])
             PROVE  \E t \in D : \A u \in D \ {t} : \A i \in Listed(w2[t]) : M2[i] \notin w2[u].gone
  BY DEF NoItemRing
<1>1. PICK t \in D : \A u \in D \ {t} : \A i \in Listed(w[t]) : M[i] \notin w[u].gone
  BY DEF NoItemRing
<1>2. ASSUME NEW u \in D \ {t}, NEW i \in Listed(w2[t]) PROVE M2[i] \notin w2[u].gone
  <2>1. t \in Tx /\ u \in Tx /\ Deleting(w2[t]) /\ Deleting(w2[u])
    OBVIOUS
  <2>2. Listed(w2[t]) \subseteq Listed(w[t]) /\ w2[u].gone = w[u].gone
    BY <2>1
  <2>3. M2[i] \in w[u].gone => M[i] \in w[u].gone
    BY <2>1, <1>2
  <2>4. M[i] \notin w[u].gone
    BY <1>1, <1>2, <2>2
  <2> QED BY <2>2, <2>3, <2>4
<1> QED BY <1>2

LEMMA QuietWaits ==
  ASSUME WaitInv, SafeInv', NEW t \in Tx, NEW y, Becomes(t, y), home' = home,
         \A u \in Tx \ {t} : held'[u] = held[u], Upwards(y, held'[t]),
         Deleting(y) => Deleting(tx[t]) /\ y.gone = tx[t].gone /\ Listed(y) \subseteq Listed(tx[t])
  PROVE  WaitInv'
<1>1. \A u \in Tx : tx'[u] = IF u = t THEN y ELSE tx[u]
  BY DEF Becomes
<1>2. PICK w, w2, M : w = tx /\ w2 = tx' /\ M = home /\ M = home'
  OBVIOUS
<1>3. NoItemRing(w, M)
  BY <1>2 DEF WaitInv
<1>4. \A u \in Tx : Deleting(w2[u]) =>
        Deleting(w[u]) /\ w2[u].gone = w[u].gone /\ Listed(w2[u]) \subseteq Listed(w[u])
  BY <1>1, <1>2
<1>5. NoItemRing(w2, M)
  BY <1>3, <1>4, RingStays
<1>6. \A u \in Tx : Upwards(tx'[u], held'[u])
  BY <1>1 DEF WaitInv
<1> QED BY <1>2, <1>5, <1>6 DEF WaitInv

LEMMA ArrivalWaits ==
  ASSUME WaitInv, NEW t \in Tx, Request(t)
  PROVE  WaitInv'
<1>1. SafeInv'
  BY RequestKeeps DEF WaitInv
<1>2. PICK op, y : /\ Begin(t, op, y) /\ op # "none" /\ y.op = op /\ y.pc \in FirstLabels
                   /\ \A k \in DOMAIN y.todo : k = 1
  BY RequestStarts DEF Starts
<1>3. home' = home /\ held' = held /\ tx' = [tx EXCEPT ![t] = y] /\ At(t, "idle")
  BY <1>2 DEF Begin, db
<1>4. Becomes(t, y)
  BY <1>1, <1>3 DEF Becomes, WaitInv, SafeInv, TypeOK
<1>5. held[t] = {}
  BY <1>3, Standing DEF WaitInv, Upwards
<1>6. Upwards(y, {})
  BY <1>2 DEF Upwards, FirstLabels
<1>7. ~Deleting(y)
  BY <1>2 DEF Deleting, FirstLabels
<1> QED BY <1>1, <1>3, <1>4, <1>5, <1>6, <1>7, QuietWaits

LEMMA FailWaits ==
  ASSUME WaitInv, NEW t \in Tx, Fail(t)
  PROVE  WaitInv'
<1>1. SafeInv' /\ Becomes(t, Idle) /\ home' = home
  BY FailKeeps, Replaced, IdleFields DEF WaitInv, SafeInv, Fail, Release, db
<1>2. held'[t] = {} /\ \A u \in Tx \ {t} : held'[u] = held[u]
  BY DEF WaitInv, SafeInv, TypeOK, Fail, Release
<1>3. Upwards(Idle, {}) /\ ~Deleting(Idle)
  BY IdleFields DEF Upwards, Deleting
<1> QED BY <1>1, <1>2, <1>3, QuietWaits

(* The next statement of a request, but for the DELETE of questions *)
LEMMA StatementWaits ==
  ASSUME WaitInv, SafeInv', NEW t \in Tx, NEW pc, NEW locks, NEW x, Statement(t, pc, locks, x),
         x \in Requests, pc # "deleteItems",
         \A y : y.op = x.op /\ y.node = x.node /\ y.pc = pc /\ y.todo = locks => Upwards(y, held[t])
  PROVE  WaitInv'
<1>1. PICK y : y = [x EXCEPT !.pc = pc, !.todo = locks, !.got = {}]
  OBVIOUS
<1>2. y.op = x.op /\ y.node = x.node /\ y.pc = pc /\ y.todo = locks
  BY <1>1 DEF Requests
<1>3. home' = home /\ held' = held /\ tx' = [tx EXCEPT ![t] = y]
  BY <1>1 DEF Statement, db
<1>4. Becomes(t, y)
  BY <1>3 DEF Becomes, WaitInv, SafeInv, TypeOK
<1>5. Upwards(y, held[t]) /\ ~Deleting(y)
  BY <1>2 DEF Deleting
<1> QED BY <1>3, <1>4, <1>5, QuietWaits

(* ORDER BY id: the rows of one kind are locked upwards. *)
LEMMA OrderedUpwards ==
  ASSUME NEW S, S \subseteq Nodes, NEW s \in Ordered(S), NEW locks, locks = ForUpdate(s),
         NEW L, \A m \in S : Level(m) = L
  PROVE  /\ \A k \in DOMAIN locks : locks[k].row \in S
         /\ \A j, k \in DOMAIN locks : j < k => Before(locks[j].row, locks[k].row)
<1>1. s \in SetToSeqs(S) /\ \A j, k \in DOMAIN s : j < k => Place(s[j]) < Place(s[k])
  BY DEF Ordered
<1>2. \A k \in DOMAIN s : s[k] \in S
  BY <1>1, ListsAll, NodesFinite
<1>3. DOMAIN locks = DOMAIN s /\ \A k \in DOMAIN s : locks[k].row = s[k]
  BY LockFields DEF ForUpdate
<1> QED BY <1>1, <1>2, <1>3 DEF Before

LEMMA Levels ==
  /\ \A n \in Sheets : Level(n) = 1
  /\ \A n \in Sections : Level(n) = 2
  /\ \A n \in Subsections : Level(n) = 3
  /\ \A n \in Nodes \ Subsections : Level(n) < 3
  /\ \A n \in Nodes : Level(n) \in Nat
BY Kinds DEF Level

LEMMA LockSubsectionsWaits ==
  ASSUME WaitInv, SafeInv', NEW t \in Tx, NEW sections, LockSubsectionsOf(t, sections, tx[t]),
         tx[t].op = "deleteNode", \A h \in held[t] : h.row \in Nodes \ Subsections
  PROVE  WaitInv'
<1>1. PICK S : S = {u \in nodes \cap Subsections : SectionOf[u] \in sections}
  OBVIOUS
<1>2. PICK subs \in Ordered(S) : Statement(t, "lockSubsections", ForUpdate(subs), tx[t])
  BY <1>1 DEF LockSubsectionsOf
<1>3. PICK locks : locks = ForUpdate(subs)
  OBVIOUS
<1>4. tx[t] \in Requests
  BY DEF WaitInv, SafeInv, TypeOK
<1>5. S \subseteq Nodes /\ \A m \in S : Level(m) = 3
  BY <1>1, Kinds, Levels
<1>6. /\ \A k \in DOMAIN locks : locks[k].row \in S
      /\ \A j, k \in DOMAIN locks : j < k => Before(locks[j].row, locks[k].row)
  BY <1>2, <1>3, <1>5, OrderedUpwards
<1>7. \A h \in held[t], k \in DOMAIN locks : Before(h.row, locks[k].row)
  BY <1>5, <1>6, Levels DEF Before
<1>8. ASSUME NEW y, y.op = tx[t].op, y.pc = "lockSubsections", y.todo = locks
      PROVE  Upwards(y, held[t])
  BY <1>6, <1>7, <1>8 DEF Upwards
<1> QED BY <1>2, <1>3, <1>4, <1>8, StatementWaits

LEMMA LockRootWaits ==
  ASSUME WaitInv, SafeInv', NEW t \in Tx, LockRoot(t), ~Fail(t)
  PROVE  WaitInv'
<1>1. /\ tx[t] \in Requests /\ tx[t].op = "deleteNode" /\ tx[t].pc = "lockRoot"
      /\ DeleteSafe(tx[t], held[t], nodes, home)
  BY Standing DEF WaitInv, LockRoot, Ready, At, Safe
<1>2. PICK x, n, H : x = tx[t] /\ n = x.node /\ H = held[t]
  OBVIOUS
<1>3. n \in Nodes \ Subsections
  BY <1>1, <1>2 DEF DeleteSafe
<1>4. \A h \in H : h.row = n
  BY <1>1, <1>2 DEF WaitInv, Upwards
<1>5. CASE n \in Sections /\ LockSubsectionsOf(t, {n}, tx[t])
  BY <1>1, <1>2, <1>3, <1>4, <1>5, LockSubsectionsWaits
<1>6. ASSUME n \in Sheets, NEW sections \in Ordered(Siblings(n)),
             Statement(t, "lockSections", ForUpdate(sections), tx[t])
      PROVE  WaitInv'
  <2>1. PICK S, locks : S = Siblings(n) /\ locks = ForUpdate(sections)
    OBVIOUS
  <2>2. S \subseteq Nodes /\ \A m \in S : ParentOf(m) = n
    BY <2>1 DEF Siblings, WaitInv, SafeInv, TypeOK
  <2>3. \A m \in S : Level(m) = 2
    BY <1>3, <1>6, <2>2, Kinds, Parents, Levels
  <2>4. /\ \A k \in DOMAIN locks : locks[k].row \in S
        /\ \A j, k \in DOMAIN locks : j < k => Before(locks[j].row, locks[k].row)
    BY <1>6, <2>1, <2>2, <2>3, OrderedUpwards
  <2>5. \A h \in H, k \in DOMAIN locks : Before(h.row, locks[k].row)
    BY <1>4, <1>6, <2>3, <2>4, Levels DEF Before
  <2>6. \A h \in H : h.row \in Nodes /\ h.row \notin Subsections
    BY <1>3, <1>4
  <2>7. ASSUME NEW y, y.op = tx[t].op, y.pc = "lockSections", y.todo = locks
        PROVE  Upwards(y, H)
    BY <1>1, <2>4, <2>5, <2>6, <2>7 DEF Upwards
  <2> QED BY <1>1, <1>2, <1>6, <2>1, <2>7, StatementWaits
<1> QED BY <1>2, <1>5, <1>6 DEF LockRoot

LEMMA LockSectionsWaits ==
  ASSUME WaitInv, SafeInv', NEW t \in Tx, LockSections(t)
  PROVE  WaitInv'
<1>1. tx[t].op = "deleteNode" /\ tx[t].pc = "lockSections"
  BY Standing DEF WaitInv, LockSections, Ready, At
<1>2. \A h \in held[t] : h.row \in Nodes \ Subsections
  BY <1>1 DEF WaitInv, Upwards
<1> QED BY <1>1, <1>2, LockSubsectionsWaits DEF LockSections

LEMMA InspectWaits ==
  ASSUME WaitInv, SafeInv', NEW t \in Tx, Inspect(t), ~Fail(t)
  PROVE  WaitInv'
<1>1. tx[t] \in Requests /\ tx[t].op = "deleteNode" /\ tx[t].pc = "lockSubsections"
  BY Standing DEF WaitInv, Inspect, Ready, At
<1>2. \A h \in held[t] : h.row \in Nodes
  BY <1>1 DEF WaitInv, Upwards
<1>3. PICK x : x = [tx[t] EXCEPT !.gone = tx[t].got]
  OBVIOUS
<1>4. x \in Requests /\ x.op = "deleteNode"
  BY <1>1, <1>3 DEF Requests
<1>5. Statement(t, "delete", <<>>, x)
  BY <1>3 DEF Inspect
<1>6. \A y : y.op = x.op /\ y.pc = "delete" => Upwards(y, held[t])
  BY <1>2, <1>4 DEF Upwards
<1> QED BY <1>4, <1>5, <1>6, StatementWaits

LEMMA LaterWaits ==
  ASSUME WaitInv, SafeInv', NEW t \in Tx, DeleteNode(t) \/ Cascade(t), ~Fail(t)
  PROVE  WaitInv'
<1>1. tx[t] \in Requests /\ tx[t].op = "deleteNode"
  BY Standing DEF WaitInv, DeleteNode, Cascade, Ready, At
<1>2. PICK gone, x, pc, locks :
        /\ Statement(t, pc, locks, x) /\ pc \in {"cascade", "commit"} /\ gone \in SUBSET Rows
        /\ x = [tx[t] EXCEPT !.gone = gone]
  <2>1. tx[t].got \in SUBSET Rows /\ tx[t].gone \cup tx[t].got \in SUBSET Rows
    BY <1>1 DEF Requests
  <2> QED BY <2>1 DEF DeleteNode, Cascade
<1>3. x \in Requests /\ x.op = "deleteNode"
  BY <1>1, <1>2 DEF Requests
<1>4. \A y : y.op = x.op /\ y.pc = pc => Upwards(y, held[t])
  BY <1>2, <1>3 DEF Upwards
<1> QED BY <1>2, <1>3, <1>4, StatementWaits

LEMMA ItemWaits ==
  ASSUME WaitInv, SafeInv', NEW t \in Tx, ReadStructure(t) \/ LockItem(t), ~Fail(t)
  PROVE  WaitInv'
<1>1. tx[t] \in Requests /\ tx[t].op \in {"createItem", "updateItem", "deleteItem"}
  BY Standing DEF WaitInv, ReadStructure, LockItem, Ready, At
<1>2. PICK x, pc, locks :
        /\ Statement(t, pc, locks, x) /\ pc \in {"write", "lockItem", "commit"}
        /\ x \in Requests /\ x.op = tx[t].op
  <2>1. CASE ReadStructure(t)
    BY <1>1, <2>1 DEF ReadStructure
  <2>2. CASE LockItem(t)
    <3>1. PICK x : x = [tx[t] EXCEPT !.gone = {tx[t].item}]
      OBVIOUS
    <3>2. tx[t].item \in Items
      BY <1>1, Standing DEF WaitInv, Safe, ItemSafe
    <3>3. x \in Requests /\ x.op = tx[t].op
      BY <1>1, <3>1, <3>2 DEF Requests, Rows
    <3> QED BY <1>1, <2>2, <3>1, <3>3 DEF LockItem
  <2> QED BY <2>1, <2>2
<1>3. \A y : y.op = x.op => Upwards(y, held[t])
  BY <1>1, <1>2 DEF Upwards
<1> QED BY <1>2, <1>3, StatementWaits

LEMMA ReadParentWaits ==
  ASSUME WaitInv, NEW t \in Tx, ReadParent(t)
  PROVE  WaitInv'
<1>0. SafeInv /\ SafeInv'
  BY ReadParentKeeps, NextPriorityAbove DEF WaitInv, SafeInv
<1>1. tx[t] \in Requests /\ tx[t].op = "createNode" /\ tx[t].pc = "readParent"
  BY <1>0, Standing DEF ReadParent, Ready, At
<1>2. PICK x, next, locks :
        /\ x = tx[t] /\ next = NextPriority(ParentOf(x.node))
        /\ locks = IF ParentOf(x.node) = None THEN <<>> ELSE <<Lock(ParentOf(x.node), "keyShare")>>
  OBVIOUS
<1>3. /\ tx' = [tx EXCEPT ![t].pc = "write", ![t].prio = next, ![t].todo = locks]
      /\ home' = home /\ held' = held
  BY <1>2 DEF ReadParent, db
<1>4. tx \in [Tx -> Requests]
  BY <1>0 DEF SafeInv, TypeOK
<1>5. PICK y : y = [x EXCEPT !.pc = "write", !.prio = next, !.todo = locks]
  OBVIOUS
<1>6. tx' = [tx EXCEPT ![t] = y]
  BY <1>2, <1>3, <1>4, <1>5
<1>7. Becomes(t, y)
  BY <1>0, <1>4, <1>6 DEF Becomes, SafeInv, TypeOK
<1>8. y.op = "createNode" /\ y.pc = "write" /\ y.todo = locks
  BY <1>1, <1>2, <1>5 DEF Requests
<1>9. held[t] = {}
  BY <1>1 DEF WaitInv, Upwards
<1>10. \A k \in DOMAIN locks : k = 1
  <2>1. PICK l : l = Lock(ParentOf(x.node), "keyShare")
    OBVIOUS
  <2>2. locks = <<>> \/ locks = <<l>>
    BY <1>2, <2>1
  <2> QED BY <2>2
<1>11. Upwards(y, {}) /\ ~Deleting(y)
  BY <1>8, <1>10 DEF Upwards, Deleting
<1> QED BY <1>0, <1>3, <1>7, <1>9, <1>11, QuietWaits

LEMMA ReadSiblingsWaits ==
  ASSUME WaitInv, NEW t \in Tx, ReadSiblings(t), ~Fail(t)
  PROVE  WaitInv'
<1>0. SafeInv /\ SafeInv'
  BY ReadSiblingsKeeps DEF WaitInv
<1>1. tx[t] \in Requests /\ tx[t].op = "reorder"
  BY <1>0, Standing DEF ReadSiblings, Ready
<1>2. PICK x, locks : x = tx[t] /\ tx' = [tx EXCEPT ![t].pc = "write", ![t].todo = locks]
  BY DEF ReadSiblings
<1>3. home' = home /\ held' = held
  BY DEF ReadSiblings, db
<1>4. tx \in [Tx -> Requests]
  BY <1>0 DEF SafeInv, TypeOK
<1>5. PICK y : y = [x EXCEPT !.pc = "write", !.todo = locks]
  OBVIOUS
<1>6. tx' = [tx EXCEPT ![t] = y]
  BY <1>2, <1>4, <1>5
<1>7. Becomes(t, y)
  BY <1>0, <1>4, <1>6 DEF Becomes, SafeInv, TypeOK
<1>8. y.op = "reorder"
  BY <1>1, <1>2, <1>5 DEF Requests
<1>9. Upwards(y, held[t]) /\ ~Deleting(y)
  BY <1>8 DEF Upwards, Deleting
<1> QED BY <1>0, <1>3, <1>7, <1>9, QuietWaits

(* The subsections a deletion found are its own. *)
LEMMA GoneOwned ==
  ASSUME SafeInv, NEW t \in Tx, tx[t].op = "deleteNode", tx[t].pc \in {"delete", "deleteItems"}
  PROVE  tx[t].gone \subseteq nodes /\ \A m \in tx[t].gone : Owns(held[t], m)
<1>1. DeleteSafe(tx[t], held[t], nodes, home)
  BY Standing DEF Safe
<1>2. tx[t].node \in Nodes /\ tx[t].gone = nodes \cap Below(tx[t].node)
      /\ \A m \in nodes \cap Tree(tx[t].node) : Owns(held[t], m)
  BY <1>1 DEF DeleteSafe
<1> QED BY <1>2, Trees

LEMMA DeleteItemsWaits ==
  ASSUME WaitInv, SafeInv', NEW t \in Tx, DeleteItems(t)
  PROVE  WaitInv'
<1>0. SafeInv
  BY DEF WaitInv
<1>1. tx[t] \in Requests /\ tx[t].op = "deleteNode" /\ tx[t].pc = "delete"
  BY <1>0, Standing DEF DeleteItems, Ready, At
<1>2. PICK x, S : x = tx[t] /\ S = {i \in Items : home[i] \in x.gone}
  OBVIOUS
<1>3. PICK locks \in AnyOrder(S, "update") : Statement(t, "deleteItems", locks, x)
  BY <1>2 DEF DeleteItems
<1>4. PICK y : y = [x EXCEPT !.pc = "deleteItems", !.todo = locks, !.got = {}]
  OBVIOUS
<1>5. y.op = "deleteNode" /\ y.pc = "deleteItems" /\ y.todo = locks /\ y.gone = x.gone
  BY <1>1, <1>2, <1>4 DEF Requests
<1>6. home' = home /\ held' = held /\ tx' = [tx EXCEPT ![t] = y]
  BY <1>3, <1>4 DEF Statement, db
<1>7. \A u \in Tx : tx'[u] = IF u = t THEN y ELSE tx[u]
  BY <1>0, <1>6 DEF SafeInv, TypeOK
<1>8. Listed(y) = S
  <2>1. S \in SUBSET Items
    BY <1>2
  <2>2. IsFiniteSet(S) /\ S \subseteq Rows /\ "update" \in Modes
    BY <2>1, ItemsFinite DEF Rows, Modes
  <2>3. Asks(locks, S, "update")
    BY <1>3, <2>2, AnyOrderAsks
  <2> QED BY <1>5, <2>3, AsksListed
<1>9. ASSUME NEW u \in Tx, u # t, Deleting(tx[u]), NEW i \in S PROVE home[i] \notin tx[u].gone
  <2>1. \A m \in x.gone : Owns(held[t], m)
    BY <1>0, <1>1, <1>2, GoneOwned
  <2>2. \A m \in tx[u].gone : Owns(held[u], m)
    BY <1>0, <1>9, GoneOwned DEF Deleting
  <2>3. \A m : Owns(held[t], m) => ~Owns(held[u], m)
    BY <1>0, <1>9, OwnersAlone, LockFields DEF Owns
  <2> QED BY <1>2, <2>1, <2>2, <2>3
<1>10. PICK w, w2, M : w = tx /\ w2 = tx' /\ M = home /\ M = home'
  BY <1>6
<1>11. NoItemRing(w2, M)
  <2> SUFFICES ASSUME NEW D \in SUBSET Tx, D # {}, \A u \in D : Deleting(w2[u])
               PROVE  \E v \in D : \A u \in D \ {v} : \A i \in Listed(w2[v]) : M[i] \notin w2[u].gone
    BY DEF NoItemRing
  <2>1. CASE t \in D
    <3>1. ASSUME NEW u \in D \ {t}, NEW i \in Listed(w2[t]) PROVE M[i] \notin w2[u].gone
      BY <1>7, <1>8, <1>9, <1>10, <3>1
    <3> QED BY <2>1, <3>1
  <2>2. CASE t \notin D
    <3>1. \A u \in D : w2[u] = w[u]
      BY <1>7, <1>10, <2>2
    <3>2. NoItemRing(w, M)
      BY <1>10 DEF WaitInv
    <3>3. PICK v \in D : \A u \in D \ {v} : \A i \in Listed(w[v]) : M[i] \notin w[u].gone
      <4>1. \A u \in D : Deleting(w[u])
        BY <3>1
      <4> QED BY <3>2, <4>1 DEF NoItemRing
    <3> QED BY <3>1, <3>3
  <2> QED BY <2>1, <2>2
<1>12. Upwards(y, held[t])
  <2>1. \A h \in held[t] : h.row \in Nodes
    BY <1>1 DEF WaitInv, Upwards
  <2> QED BY <1>5, <2>1, Kinds DEF Upwards
<1>13. \A u \in Tx : Upwards(tx'[u], held'[u])
  BY <1>6, <1>7, <1>12 DEF WaitInv
<1> QED BY <1>10, <1>11, <1>13 DEF WaitInv

(* A lock that is taken keeps the order. *)
LEMMA UpwardsServed ==
  ASSUME NEW x, NEW y, NEW H, NEW H2, NEW N, NEW M, Serves(x, y, H, H2, N, M), Upwards(x, H),
         Safe(x, H, N, M)
  PROVE  Upwards(y, H2)
<1>1. PICK l : l = Head(x.todo)
  OBVIOUS
<1>2. /\ x \in Requests /\ y \in Requests /\ y.op = x.op /\ y.node = x.node
      /\ y.pc = x.pc /\ y.gone = x.gone /\ x.todo # <<>> /\ y.todo = Tail(x.todo)
  BY <1>1 DEF Serves, Keeps
<1>3. x.todo \in Seq(Locks)
  BY <1>2 DEF Requests
<1>4. /\ l \in Locks /\ l = x.todo[1] /\ 1 \in DOMAIN x.todo /\ y.todo \in Seq(Locks)
      /\ \A k \in DOMAIN y.todo : k + 1 \in DOMAIN x.todo /\ y.todo[k] = x.todo[k + 1] /\ k \in Nat
  BY <1>1, <1>2, <1>3, Served
<1>5. (H2 = H \cup {l} /\ y.got = x.got \cup {l.row}) \/ (H2 = H /\ y.got = x.got)
  BY <1>1 DEF Serves
<1>6. x.op # "none"
  BY <1>2 DEF Safe, IdleSafe
<1>7. CASE x.op = "createNode"
  <2>1. y.todo = <<>>
    <3>1. ASSUME NEW k \in DOMAIN y.todo PROVE FALSE
      <4>1. k + 1 = 1 /\ k \in Nat /\ k >= 1
        BY <1>4, <1>7, <3>1 DEF Upwards
      <4> QED BY <4>1
    <3> QED BY <1>4, <3>1
  <2>2. x.pc = "write"
    BY <1>2, <1>7 DEF Safe, CreateSafe
  <2>3. \A k \in DOMAIN y.todo : k = 1
    BY <2>1
  <2> QED BY <1>2, <1>7, <2>1, <2>2, <2>3 DEF Upwards
<1>8. CASE x.op = "deleteNode" /\ x.pc \in {"lockRoot", "lockSections", "lockSubsections"}
  <2>1. /\ \A h \in H : h.row \in Nodes
        /\ \A j, k \in DOMAIN x.todo : j < k => Before(x.todo[j].row, x.todo[k].row)
        /\ \A h \in H, k \in DOMAIN x.todo : Before(h.row, x.todo[k].row)
        /\ x.pc = "lockRoot" => \A h \in H : h.row = x.node
        /\ x.pc = "lockSections" => \A h \in H : h.row \notin Subsections
    BY <1>8 DEF Upwards
  <2>2. l.row \in Listed(x)
    BY <1>4 DEF Listed
  <2>3. /\ l.row \in Nodes /\ (x.pc = "lockRoot" => l.row = x.node)
        /\ (x.pc = "lockSections" => l.row \notin Subsections)
    BY <1>8, <2>2, Kinds, Trees DEF Safe, DeleteSafe
  <2>4. \A k \in DOMAIN y.todo : Before(l.row, y.todo[k].row)
    <3>1. \A k \in DOMAIN y.todo : 1 < k + 1
      BY <1>4
    <3> QED BY <1>4, <2>1, <3>1
  <2>5. \A h \in H2, k \in DOMAIN y.todo : Before(h.row, y.todo[k].row)
    BY <1>4, <1>5, <2>1, <2>4
  <2>6. \A j, k \in DOMAIN y.todo : j < k => Before(y.todo[j].row, y.todo[k].row)
    <3>1. \A j, k \in DOMAIN y.todo : j < k => j + 1 < k + 1
      BY <1>4
    <3> QED BY <1>4, <2>1, <3>1
  <2>7. \A h \in H2 : h \in H \/ h = l
    BY <1>5
  <2> QED BY <1>2, <1>8, <2>1, <2>3, <2>5, <2>6, <2>7 DEF Upwards
<1>9. CASE x.op = "deleteNode" /\ x.pc \notin {"lockRoot", "lockSections", "lockSubsections"}
  <2>1. x.pc # "delete"
    BY <1>2, <1>9 DEF Safe, DeleteSafe
  <2> QED BY <1>2, <1>5, <1>9, <2>1 DEF Upwards
<1>10. CASE x.op \notin {"none", "createNode", "deleteNode"}
  BY <1>2, <1>10 DEF Upwards
<1> QED BY <1>6, <1>7, <1>8, <1>9, <1>10

LEMMA AcquireWaits ==
  ASSUME WaitInv, NEW t \in Tx, Acquire(t), ~Fail(t)
  PROVE  WaitInv'
<1>0. SafeInv /\ SafeInv'
  BY AcquireKeeps DEF WaitInv
<1>1. PICK y : Becomes(t, y) /\ Serves(tx[t], y, held[t], held'[t], nodes, home)
  BY <1>0, AcquireServes
<1>2. home' = home /\ \A u \in Tx \ {t} : held'[u] = held[u]
  BY <1>0, AcquireServes DEF db
<1>3. PICK x, H, H2, N, M : x = tx[t] /\ H = held[t] /\ H2 = held'[t] /\ N = nodes /\ M = home
  OBVIOUS
<1>4. Serves(x, y, H, H2, N, M) /\ Upwards(x, H) /\ Safe(x, H, N, M)
  BY <1>0, <1>1, <1>3, Standing DEF WaitInv
<1>5. Upwards(y, H2)
  BY <1>4, UpwardsServed
<1>6. /\ x \in Requests /\ y \in Requests /\ x.todo # <<>> /\ y.todo = Tail(x.todo)
      /\ y.op = x.op /\ y.pc = x.pc /\ y.gone = x.gone
  BY <1>4 DEF Serves, Keeps
<1>7. Listed(y) \subseteq Listed(x)
  BY <1>6, ListServed
<1>8. Deleting(y) => Deleting(x)
  BY <1>6 DEF Deleting
<1> QED BY <1>0, <1>1, <1>2, <1>3, <1>5, <1>6, <1>7, <1>8, QuietWaits

LEMMA CommitWaits ==
  ASSUME WaitInv, NEW t \in Tx, Commit(t)
  PROVE  WaitInv'
<1>0. SafeInv /\ SafeInv' /\ Becomes(t, Idle)
  BY CommitKeeps, Replaced, IdleFields DEF WaitInv, SafeInv, Commit, Release
<1>1. held'[t] = {} /\ \A u \in Tx \ {t} : held'[u] = held[u]
  BY <1>0 DEF SafeInv, TypeOK, Commit, Release
<1>2. \A u \in Tx : tx'[u] = IF u = t THEN Idle ELSE tx[u]
  BY <1>0 DEF Becomes
<1>3. ASSUME NEW u \in Tx, u # t, Deleting(tx[u]), NEW i \in Items, home'[i] \in tx[u].gone
      PROVE  home[i] \in tx[u].gone
  <2>1. Spared(held[u], nodes, home, nodes', home')
    BY <1>0, <1>3, CommitWrites, WritesSpare
  <2>2. home'[i] = home[i] \/ home'[i] = None \/ ~Owns(held[u], home'[i])
    BY <1>3, <2>1 DEF Spared
  <2>3. home'[i] \in nodes /\ Owns(held[u], home'[i])
    BY <1>0, <1>3, GoneOwned DEF Deleting
  <2>4. home'[i] # None
    BY <1>0, <2>3, Kinds DEF SafeInv, TypeOK
  <2> QED BY <1>3, <2>2, <2>3, <2>4
<1>4. ASSUME NEW u \in Tx, Deleting(tx'[u])
      PROVE  u # t /\ tx'[u] = tx[u] /\ Listed(tx'[u]) \subseteq Items
  <2>1. u # t /\ tx'[u] = tx[u]
    BY <1>2, <1>4, IdleFields DEF Deleting
  <2>2. Listed(tx[u]) \subseteq Items
    BY <1>0, <1>4, <2>1, Standing DEF Safe, DeleteSafe, Deleting
  <2> QED BY <2>1, <2>2
<1>5. PICK w, w2, M, M2 : w = tx /\ w2 = tx' /\ M = home /\ M2 = home'
  OBVIOUS
<1>6. NoItemRing(w2, M2)
  <2> SUFFICES ASSUME NEW D \in SUBSET Tx, D # {}, \A u \in D : Deleting(w2[u])
               PROVE  \E v \in D : \A u \in D \ {v} : \A i \in Listed(w2[v]) : M2[i] \notin w2[u].gone
    BY DEF NoItemRing
  <2>1. \A u \in D : u # t /\ w2[u] = w[u] /\ Deleting(w[u]) /\ Listed(w[u]) \subseteq Items
    BY <1>4, <1>5
  <2>2. PICK v \in D : \A u \in D \ {v} : \A i \in Listed(w[v]) : M[i] \notin w[u].gone
    <3>1. NoItemRing(w, M)
      BY <1>5 DEF WaitInv
    <3> QED BY <2>1, <3>1 DEF NoItemRing
  <2>3. ASSUME NEW u \in D \ {v}, NEW i \in Listed(w2[v]) PROVE M2[i] \notin w2[u].gone
    <3>1. i \in Items /\ M[i] \notin w[u].gone
      BY <2>1, <2>2, <2>3
    <3>2. M2[i] \in w[u].gone => M[i] \in w[u].gone
      BY <1>3, <1>5, <2>1, <3>1
    <3> QED BY <2>1, <3>1, <3>2
  <2> QED BY <2>3
<1>7. Upwards(Idle, {})
  BY IdleFields DEF Upwards
<1>8. \A u \in Tx : Upwards(tx'[u], held'[u])
  BY <1>1, <1>2, <1>7 DEF WaitInv
<1> QED BY <1>0, <1>5, <1>6, <1>8 DEF WaitInv

LEMMA InitWaits == Init => WaitInv
<1> SUFFICES ASSUME Init PROVE WaitInv
  OBVIOUS
<1>1. held = [t \in Tx |-> {}] /\ tx = [t \in Tx |-> Idle]
  BY DEF Init
<1>2. \A t \in Tx : Upwards(tx[t], held[t]) /\ ~Deleting(tx[t])
  BY <1>1, IdleFields DEF Upwards, Deleting
<1>3. NoItemRing(tx, home)
  BY <1>2 DEF NoItemRing
<1> QED BY <1>2, <1>3, InitSafe DEF WaitInv

LEMMA NextWaits == WaitInv /\ [Next]_vars => WaitInv'
<1> SUFFICES ASSUME WaitInv, [Next]_vars PROVE WaitInv'
  OBVIOUS
<1>1. ASSUME NEW t \in Tx, Step(t) PROVE WaitInv'
  <2>1. CASE Fail(t)
    BY <2>1, FailWaits
  <2>2. CASE ~Fail(t)
    <3>1. SafeInv'
      BY <1>1, StepKeeps DEF WaitInv
    <3>2. ~AbortDeadlocked(t) /\ ~RefuseNode(t)
      BY <2>2 DEF AbortDeadlocked, RefuseNode
    <3> QED BY <1>1, <2>2, <3>1, <3>2, ReadParentWaits, LockRootWaits, LockSectionsWaits, InspectWaits,
               DeleteItemsWaits, LaterWaits, ReadSiblingsWaits, ItemWaits, AcquireWaits, CommitWaits
            DEF Step
  <2> QED BY <2>1, <2>2
<1>2. CASE UNCHANGED vars
  <2>1. SafeInv'
    BY <1>2, UnchangedKeeps DEF WaitInv
  <2>2. NoItemRing(tx', home') /\ \A u \in Tx : Upwards(tx'[u], held'[u])
    BY <1>2 DEF WaitInv, vars
  <2> QED BY <2>1, <2>2 DEF WaitInv
<1> QED BY <1>1, <1>2, ArrivalWaits DEF Next, Done

-----------------------------------------------------------------------------
(* Of some nodes, one is before none of the others. *)
LEMMA LastExists ==
  ASSUME NEW W \in SUBSET Nodes, W # {}
  PROVE  \E r \in W : \A s \in W : ~Before(r, s)
<1> DEFINE levels == {Level(r) : r \in W}
<1>1. levels \subseteq Nat /\ levels # {}
  BY Levels
<1>2. IsFiniteSet(levels)
  <2>1. [r \in W |-> Level(r)] \in Surjection(W, levels)
    BY DEF Surjection
  <2> QED BY <2>1, NodesFinite, FS_Surjection
<1>3. PICK L \in levels : \A n \in levels : n <= L
  <2> HIDE DEF levels
  <2> QED BY <1>1, <1>2, LargestExists
<1> DEFINE top == {r \in W : Level(r) = L}
           places == {Place(r) : r \in top}
<1>4. top \in SUBSET Nodes /\ top # {}
  BY <1>3
<1>5. places \subseteq Nat /\ places # {}
  BY <1>4, Places
<1>6. IsFiniteSet(places)
  <2>1. [r \in top |-> Place(r)] \in Surjection(top, places)
    BY DEF Surjection
  <2>2. IsFiniteSet(top)
    BY <1>4, NodesFinite
  <2> QED BY <2>1, <2>2, FS_Surjection
<1>7. PICK P \in places : \A n \in places : n <= P
  <2> HIDE DEF places
  <2> QED BY <1>5, <1>6, LargestExists
<1>8. PICK r \in W : Level(r) = L /\ Place(r) = P
  BY <1>7
<1>9. ASSUME NEW s \in W PROVE ~Before(r, s)
  <2>1. Level(s) <= L /\ Level(s) \in Nat /\ L \in Nat
    BY <1>3, <1>8, <1>9, Levels
  <2>2. Level(s) = L => Place(s) <= P
    BY <1>7, <1>9
  <2>3. Place(s) \in Nat /\ P \in Nat
    BY <1>8, <1>9, Places
  <2> QED BY <1>8, <2>1, <2>2, <2>3 DEF Before
<1> QED BY <1>8, <1>9

(* A structure request that waits: where, and for which row *)
LEMMA Waiting ==
  ASSUME WaitInv, NEW t \in Tx, NEW u \in Blockers(t), tx[t].op = "deleteNode"
  PROVE  /\ u \in Tx /\ u # t /\ \E h \in held[u] : h.row = Head(tx[t].todo).row
         /\ Head(tx[t].todo).row \in Listed(tx[t]) /\ tx[t].todo # <<>>
         /\ 1 \in DOMAIN tx[t].todo /\ Head(tx[t].todo) = tx[t].todo[1]
         /\ \/ Deleting(tx[t])
            \/ /\ tx[t].pc \in {"lockRoot", "lockSections", "lockSubsections"}
               /\ Head(tx[t].todo).row \in Nodes
<1>0. SafeInv
  BY DEF WaitInv
<1>1. PICK x, l : x = tx[t] /\ l = Head(x.todo)
  OBVIOUS
<1>2. x.todo # <<>> /\ u \in Tx /\ u # t /\ \E h \in held[u] : h.row = l.row
  BY <1>1 DEF Blockers
<1>3. x \in Requests /\ DeleteSafe(x, held[t], nodes, home)
  BY <1>0, <1>1, Standing DEF Safe
<1>4. x.todo \in Seq(Locks)
  BY <1>3 DEF Requests
<1>5. l = x.todo[1] /\ 1 \in DOMAIN x.todo
  BY <1>1, <1>2, <1>4, Served
<1>6. l.row \in Listed(x)
  BY <1>5 DEF Listed
<1>7. x.pc \notin {"delete", "commit"}
  BY <1>1, <1>2, <1>3 DEF DeleteSafe
<1>8. x.pc # "cascade"
  <2>1. x.pc = "cascade" => Owns(held[t], l.row)
    BY <1>1, <1>3, <1>6 DEF DeleteSafe
  <2> QED BY <1>0, <1>2, <2>1, OwnersAlone
<1>9. x.pc \in {"lockRoot", "lockSections", "lockSubsections", "deleteItems"}
  BY <1>1, <1>3, <1>7, <1>8 DEF DeleteSafe
<1>10. x.pc # "deleteItems" => l.row \in Nodes
  BY <1>1, <1>3, <1>6, <1>9, Kinds, Trees DEF DeleteSafe
<1> QED BY <1>1, <1>2, <1>5, <1>6, <1>9, <1>10 DEF Deleting

LEMMA StructureRequestsNoRing ==
  ASSUME WaitInv, NEW D \in SUBSET Tx, D # {}, \A t \in D : Blockers(t) \cap D # {}
  PROVE  \E t \in D : tx[t].op \in {"createItem", "updateItem", "deleteItem", "reorder"}
<1> SUFFICES ASSUME \A t \in D : tx[t].op \notin {"createItem", "updateItem", "deleteItem", "reorder"}
             PROVE  FALSE
  OBVIOUS
<1>0. SafeInv
  BY DEF WaitInv
<1>1. ASSUME NEW t \in D PROVE tx[t].todo # <<>> /\ tx[t].op \in {"none", "createNode", "deleteNode"}
  <2>1. tx[t].op \in AllOps \cup {"none"}
    BY <1>0, <1>1, Standing DEF Requests
  <2> QED BY <1>1, <2>1 DEF Blockers, AllOps
<1>2. ASSUME NEW t \in D, held[t] # {} PROVE tx[t].op = "deleteNode"
  BY <1>1, <1>2 DEF WaitInv, Upwards
<1>3. ASSUME NEW t \in D, NEW u \in Blockers(t) \cap D PROVE tx[u].op = "deleteNode"
  <2>1. held[u] # {}
    BY <1>3 DEF Blockers
  <2> QED BY <1>2, <1>3, <2>1
<1> DEFINE E == {t \in D : tx[t].op = "deleteNode"}
           F == {t \in E : Deleting(tx[t])}
<1>4. E # {} /\ E \subseteq Tx /\ \A t \in E : Blockers(t) \cap E # {}
  BY <1>3
<1>5. F = {}
  <2> SUFFICES ASSUME F # {} PROVE FALSE
    OBVIOUS
  <2>1. PICK t \in F : \A u \in F \ {t} : \A i \in Listed(tx[t]) : home[i] \notin tx[u].gone
    <3>1. F \in SUBSET Tx /\ \A t \in F : Deleting(tx[t])
      BY <1>4
    <3> HIDE DEF F
    <3> QED BY <3>1 DEF WaitInv, NoItemRing
  <2>2. PICK u \in E : u \in Blockers(t)
    BY <1>4, <2>1
  <2>3. PICK i, h : /\ i = Head(tx[t].todo).row /\ i \in Listed(tx[t]) /\ u # t
                    /\ h \in held[u] /\ h.row = i
    BY <2>1, <2>2, Waiting
  <2>4. i \in Items
    BY <1>0, <2>1, <2>3, Standing DEF Safe, DeleteSafe, Deleting
  <2>5. PICK v \in E : v \in Blockers(u)
    BY <1>4, <2>2
  <2>6. Deleting(tx[u])
    <3>1. \/ Deleting(tx[u]) \/ tx[u].pc \in {"lockRoot", "lockSections", "lockSubsections"}
      BY <2>2, <2>5, Waiting
    <3>2. tx[u].pc \in {"lockRoot", "lockSections", "lockSubsections"} => i \in Nodes
      BY <2>2, <2>3 DEF WaitInv, Upwards
    <3> QED BY <2>4, <3>1, <3>2, Kinds
  <2>7. i \in tx[u].got
    BY <2>2, <2>3, <2>4, <2>6 DEF WaitInv, Upwards, Deleting
  <2>8. home[i] \in tx[u].gone
    BY <1>0, <2>2, <2>6, <2>7, Standing DEF Safe, DeleteSafe, Deleting
  <2> QED BY <2>1, <2>2, <2>3, <2>6, <2>8
<1> DEFINE W == {Head(tx[t].todo).row : t \in E}
<1>6. W \in SUBSET Nodes /\ W # {}
  <2>1. ASSUME NEW t \in E PROVE Head(tx[t].todo).row \in Nodes
    <3>1. PICK u : u \in Blockers(t)
      BY <1>4
    <3>2. tx[t].op = "deleteNode" /\ t \in Tx /\ ~Deleting(tx[t])
      BY <1>5
    <3> QED BY <3>1, <3>2, Waiting
  <2> QED BY <1>4, <2>1
<1>7. PICK r \in W : \A s \in W : ~Before(r, s)
  <2> HIDE DEF W
  <2> QED BY <1>6, LastExists
<1>8. PICK t \in E : r = Head(tx[t].todo).row
  BY <1>7
<1>9. PICK u \in E : u \in Blockers(t)
  BY <1>4, <1>8
<1>10. PICK h \in held[u] : h.row = r
  BY <1>8, <1>9, Waiting
<1>11. PICK v \in E : v \in Blockers(u)
  BY <1>4, <1>9
<1>12. /\ tx[u].pc \in {"lockRoot", "lockSections", "lockSubsections"}
       /\ 1 \in DOMAIN tx[u].todo /\ Head(tx[u].todo) = tx[u].todo[1]
  BY <1>5, <1>9, <1>11, Waiting
<1>13. Before(r, Head(tx[u].todo).row)
  BY <1>9, <1>10, <1>12 DEF WaitInv, Upwards
<1> QED BY <1>7, <1>9, <1>13

(* _lock_structure_ids: deletions lock from the sheet down and by id, and a
   creation waits holding nothing, so that every ring of waiting requests,
   of any length, contains a question write or a reordering. *)
THEOREM StructureRequestsNeverDeadlock == Spec => []DeadlocksNeedOtherWrites
<1>1. WaitInv => DeadlocksNeedOtherWrites
  BY StructureRequestsNoRing DEF DeadlocksNeedOtherWrites, Cycle
<1> QED BY <1>1, InitWaits, NextWaits, PTL DEF Spec

-----------------------------------------------------------------------------
(* The abstract matrix itself: whatever its steps are implemented by, it
   stays whole. *)
ForestInv ==
  /\ nodes \subseteq Nodes /\ home \in [Items -> Subsections \cup {None}]
  /\ Forest!Whole

LEMMA ForestAdds ==
  ASSUME ForestInv, NEW n \in Nodes, Forest!AddNode(n)
  PROVE  ForestInv'
BY DEF ForestInv, Forest!Whole, Forest!AddNode, Forest!ParentOf

LEMMA ForestPlaces ==
  ASSUME ForestInv, NEW i \in Items, NEW u \in Subsections, Forest!PlaceItem(i, u)
  PROVE  ForestInv'
BY DEF ForestInv, Forest!Whole, Forest!PlaceItem, Forest!ParentOf

LEMMA ForestTakes ==
  ASSUME ForestInv, NEW i \in Items, Forest!RemoveItem(i)
  PROVE  ForestInv'
BY DEF ForestInv, Forest!Whole, Forest!RemoveItem, Forest!ParentOf

(* A subtree is closed: a node whose parent goes, goes too.  The deletions of
   delete_structure_node and the foreign keys' cascades delete such sets. *)
LEMMA SubtreeClosed ==
  ASSUME NEW n \in Nodes, NEW c \in Nodes, Forest!ParentOf(c) \in Forest!Subtree(n)
  PROVE  c \in Forest!Subtree(n)
<1>0. c \in Sheets \cup Sections \cup Subsections
  BY DEF Nodes, Forest!Nodes
<1>1. CASE c \in Sheets
  BY <1>1, Kinds DEF Forest!ParentOf, Forest!Subtree, Forest!SubsectionsUnder, Nodes, Forest!Nodes
<1>2. CASE c \in Sections
  BY <1>2, Kinds DEF Forest!ParentOf, Forest!Subtree, Forest!SubsectionsUnder, Nodes, Forest!Nodes
<1>3. CASE c \in Subsections
  BY <1>3, Kinds DEF Forest!ParentOf, Forest!Subtree, Forest!SubsectionsUnder, Nodes, Forest!Nodes
<1> QED BY <1>0, <1>1, <1>2, <1>3

(* Of a subtree, the subsections are what delete_structure_node looks for
   questions in. *)
LEMMA SubtreeSubsections ==
  ASSUME NEW n \in Nodes, NEW u \in Subsections, u \in Forest!Subtree(n)
  PROVE  u \in Forest!SubsectionsUnder(n)
BY Kinds DEF Forest!Subtree, Forest!SubsectionsUnder, Nodes, Forest!Nodes

LEMMA ForestRemoves ==
  ASSUME ForestInv, NEW n \in Nodes, Forest!RemoveTree(n)
  PROVE  ForestInv'
<1>1. nodes' \subseteq Nodes /\ home' \in [Items -> Subsections \cup {None}]
  BY DEF ForestInv, Forest!RemoveTree
<1>2. ASSUME NEW c \in nodes' PROVE Forest!ParentOf(c) \in nodes' \cup {None}
  <2>1. c \in Nodes /\ c \in nodes /\ c \notin Forest!Subtree(n)
    BY <1>2 DEF ForestInv, Forest!RemoveTree
  <2>2. Forest!ParentOf(c) \notin Forest!Subtree(n)
    BY <2>1, SubtreeClosed
  <2> QED BY <2>1, <2>2 DEF ForestInv, Forest!Whole, Forest!RemoveTree
<1>3. ASSUME NEW i \in Items PROVE home'[i] \in (nodes' \cap Subsections) \cup {None}
  <2>1. CASE home[i] \in Forest!SubsectionsUnder(n)
    BY <1>3, <2>1 DEF Forest!RemoveTree
  <2>2. CASE home[i] \notin Forest!SubsectionsUnder(n)
    <3>1. home'[i] = home[i]
      BY <1>3, <2>2 DEF Forest!RemoveTree
    <3>2. home[i] \in (nodes \cap Subsections) \cup {None}
      BY <1>3 DEF ForestInv, Forest!Whole
    <3>3. home[i] \in Subsections => home[i] \notin Forest!Subtree(n)
      BY <2>2, SubtreeSubsections
    <3> QED BY <3>1, <3>2, <3>3 DEF Forest!RemoveTree
  <2> QED BY <2>1, <2>2
<1>4. Forest!Whole'
  BY <1>2, <1>3 DEF Forest!Whole, Forest!ParentOf
<1> QED BY <1>1, <1>4 DEF ForestInv

(* Every node always has its parent and every question its subsection: what
   the foreign keys of the matrix and the deletions of delete_structure_node
   promise, for any number of sheets, sections, subsections and questions. *)
THEOREM ForestStaysWhole == Forest!Spec => []Forest!Whole
<1>1. Forest!Init => ForestInv
  BY DEF Forest!Init, ForestInv, Nodes
<1>2. ForestInv /\ [Forest!Next]_Forest!vars => ForestInv'
  <2> SUFFICES ASSUME ForestInv, [Forest!Next]_Forest!vars PROVE ForestInv'
    OBVIOUS
  <2>1. CASE UNCHANGED Forest!vars
    BY <2>1 DEF ForestInv, Forest!Whole, Forest!ParentOf, Forest!vars
  <2>2. CASE Forest!Next
    <3>1. \/ \E n \in Nodes : Forest!AddNode(n) \/ Forest!RemoveTree(n)
          \/ \E i \in Items, u \in Subsections : Forest!PlaceItem(i, u)
          \/ \E i \in Items : Forest!RemoveItem(i)
      BY <2>2 DEF Forest!Next, Nodes
    <3> QED BY <3>1, ForestAdds, ForestRemoves, ForestPlaces, ForestTakes
  <2> QED BY <2>1, <2>2
<1>3. ForestInv => Forest!Whole
  BY DEF ForestInv
<1> QED BY <1>1, <1>2, <1>3, PTL DEF Forest!Spec
=============================================================================
