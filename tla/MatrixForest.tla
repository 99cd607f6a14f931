---------------------------- MODULE MatrixForest ----------------------------
(***************************************************************************)
(* What the structure of the competency matrix promises, with every        *)
(* request collapsed to one atomic step.  The state is the committed       *)
(* content of PostgreSQL: the sheets, sections and subsections that exist  *)
(* and the subsection each question stands in.  MatrixStructure shows how  *)
(* the code reaches these steps statement by statement and lock by lock.   *)
(***************************************************************************)
CONSTANTS Sheets, Sections, Subsections,   \* node ids, one kind each
          SheetOf, SectionOf,              \* a node's parent never changes
          Items,                           \* question ids
          None

VARIABLES nodes,   \* the structure nodes that exist
          home     \* the subsection of each question, None if there is no such row

vars == <<nodes, home>>

Nodes == Sheets \cup Sections \cup Subsections

(* The node an id is filed under; a sheet has none. *)
ParentOf(n) == IF n \in Sections THEN SheetOf[n]
               ELSE IF n \in Subsections THEN SectionOf[n] ELSE None

SubsectionsUnder(n) ==
  {u \in Subsections : n \in {u, SectionOf[u], SheetOf[SectionOf[u]]}}

Subtree(n) == {n} \cup {c \in Sections : SheetOf[c] = n} \cup SubsectionsUnder(n)

AddNode(n) ==
  /\ n \notin nodes
  /\ ParentOf(n) \in nodes \cup {None}
  /\ nodes' = nodes \cup {n}
  /\ UNCHANGED home

(* A node goes with everything below it. *)
RemoveTree(n) ==
  /\ n \in nodes
  /\ nodes' = nodes \ Subtree(n)
  /\ home' = [i \in Items |-> IF home[i] \in SubsectionsUnder(n) THEN None ELSE home[i]]

(* A question is written under a subsection that exists. *)
PlaceItem(i, u) ==
  /\ u \in nodes
  /\ home' = [home EXCEPT ![i] = u]
  /\ UNCHANGED nodes

RemoveItem(i) ==
  /\ home' = [home EXCEPT ![i] = None]
  /\ UNCHANGED nodes

(* The tree is whole: every node has its parent and every question its
   subsection, so every question has the sheet its slug is unique in. *)
Whole ==
  /\ \A n \in nodes : ParentOf(n) \in nodes \cup {None}
  /\ \A i \in Items : home[i] \in (nodes \cap Subsections) \cup {None}

Init == nodes \subseteq Nodes /\ home \in [Items -> Subsections \cup {None}] /\ Whole

Next ==
  \/ \E n \in Nodes : AddNode(n) \/ RemoveTree(n)
  \/ \E i \in Items, u \in Subsections : PlaceItem(i, u)
  \/ \E i \in Items : RemoveItem(i)

Spec == Init /\ [][Next]_vars
=============================================================================
