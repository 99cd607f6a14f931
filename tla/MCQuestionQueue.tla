--------------------------- MODULE MCQuestionQueue ---------------------------
(***************************************************************************)
(* A small instance of QuestionQueue for TLC.  Texts x1 and x2 differ in   *)
(* case or spacing only.  The files mix duplicates, rows with errors and   *)
(* formats; one is refused as a whole.                                     *)
(***************************************************************************)
EXTENDS QuestionQueue, TLC

CONSTANTS t1, t2, q1, q2, i1, i2, x1, x2, x3, s1, r1

MCFingerprint == [x \in Texts |-> IF x = x2 THEN x1 ELSE x]
MCGrades == {"Junior", "Senior"}

Row(question, sheet, grade) == [question |-> question, sheet |-> sheet, grade |-> grade]

MCFiles ==
  {[ext |-> ".csv", header |-> TRUE,
    rows |-> <<Row(x1, s1, "Junior"), Row(Blank, s1, Missing), Row(x2, s1, Blank)>>],
   [ext |-> ".xlsx", header |-> FALSE,
    rows |-> <<Row(x3, s1, NotText), Row(NotText, Missing, Missing), Row(x3, Missing, "Guru")>>],
   [ext |-> ".xlsm", header |-> TRUE,
    rows |-> <<Row(x3, s1, "Guru"), Row(x3, NotText, Missing), Row(Long, Missing, NotText),
               Row(x2, Missing, Missing)>>],
   [ext |-> ".txt", header |-> TRUE, rows |-> <<Row(x1, s1, Missing), Row(Missing, s1, Missing)>>],
   [ext |-> ".xls", header |-> TRUE, rows |-> <<Row(x1, Missing, Missing)>>]}

MCContent ==
  {[text |-> x1, status |-> "Published", ready |-> TRUE, links |-> [attach |-> {}, create |-> {r1}]],
   [text |-> x3, status |-> "Published", ready |-> FALSE, links |-> [attach |-> {}, create |-> {}]],
   [text |-> x3, status |-> "Draft", ready |-> FALSE, links |-> [attach |-> {r1}, create |-> {}]]}

Symmetry == Permutations({t1, t2}) \cup Permutations({q1, q2}) \cup Permutations({i1, i2})
=============================================================================
