---------------------------- MODULE FileRegistry ----------------------------
(***************************************************************************)
(* What the managed-file subsystem promises, with every request collapsed  *)
(* to one atomic step.  The state is the committed content of PostgreSQL:  *)
(* the file rows, the orphan marker of each row, the articles and the      *)
(* managed files each article uses (its cover and its content images).     *)
(* No locks, no statements and no object storage appear here:              *)
(* FileLifecycle shows how the code reaches these steps under concurrency. *)
(***************************************************************************)
CONSTANTS Files,      \* file identifiers
          Articles,   \* article identifiers
          Times,      \* clock readings
          None        \* SQL NULL

VARIABLES rows,       \* the ids of the rows of files__file_model
          orphaned,   \* orphaned_at of each row
          articles,   \* the articles that exist
          uses        \* managed_file_ids of each article

vars == <<rows, orphaned, articles, uses>>

InUse(f) == \E a \in Articles : f \in uses[a]

Init ==
  /\ rows = {}
  /\ orphaned = [f \in Files |-> None]
  /\ articles = {}
  /\ uses = [a \in Articles |-> {}]

(* A file id that has no row yet is uploaded; nothing uses it, so it is
   born an orphan. *)
Register(f, at) ==
  /\ f \notin rows
  /\ rows' = rows \cup {f}
  /\ orphaned' = [orphaned EXCEPT ![f] = at]
  /\ UNCHANGED <<articles, uses>>

(* An upload of content that an orphan already holds restarts its grace
   period; it never marks a file that is in use. *)
Refresh(f, at) ==
  /\ f \in rows
  /\ ~InUse(f)
  /\ orphaned' = [orphaned EXCEPT ![f] = at]
  /\ UNCHANGED <<rows, articles, uses>>

(* An article is created or saved with the files `want`.  A file is marked
   exactly when this save removed its last use. *)
SaveArticle(a, want, at) ==
  /\ want \subseteq rows
  /\ articles' = articles \cup {a}
  /\ uses' = [uses EXCEPT ![a] = want]
  /\ orphaned' = [f \in Files |->
                    IF f \in want THEN None
                    ELSE IF f \in uses[a]
                            /\ \A b \in Articles \ {a} : f \notin uses[b]
                         THEN at
                         ELSE orphaned[f]]
  /\ UNCHANGED rows

RemoveArticle(a, at) ==
  /\ a \in articles
  /\ articles' = articles \ {a}
  /\ uses' = [uses EXCEPT ![a] = {}]
  /\ orphaned' = [f \in Files |->
                    IF f \in uses[a]
                       /\ \A b \in Articles \ {a} : f \notin uses[b]
                    THEN at
                    ELSE orphaned[f]]
  /\ UNCHANGED rows

(* One file by request, or a batch by the cleanup task: never one in use. *)
RemoveFiles(gone) ==
  /\ gone \subseteq rows
  /\ \A f \in gone : ~InUse(f)
  /\ rows' = rows \ gone
  /\ UNCHANGED <<orphaned, articles, uses>>

Next ==
  \/ \E f \in Files, at \in Times : Register(f, at) \/ Refresh(f, at)
  \/ \E a \in Articles, want \in SUBSET Files, at \in Times : SaveArticle(a, want, at)
  \/ \E a \in Articles, at \in Times : RemoveArticle(a, at)
  \/ \E gone \in SUBSET Files : RemoveFiles(gone)

Spec == Init /\ [][Next]_vars

TypeOK ==
  /\ rows \subseteq Files
  /\ orphaned \in [Files -> Times \cup {None}]
  /\ articles \subseteq Articles
  /\ uses \in [Articles -> SUBSET Files]

(* Foreign keys: what an article uses has a row. *)
UsesHaveRows == \A a \in Articles : uses[a] \subseteq rows

(* The marker the cleanup task goes by is exact: a row has orphaned_at NULL
   if and only if some article uses the file. *)
MarkerExact == \A f \in rows : (orphaned[f] = None) <=> InUse(f)
=============================================================================
