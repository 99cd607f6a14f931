-------------------------- MODULE MCMatrixStructure --------------------------
(***************************************************************************)
(* A small instance of MatrixStructure for TLC: one sheet with two         *)
(* sections, the first with two subsections, and a question; a third       *)
(* subsection and a second question may be created.                        *)
(***************************************************************************)
EXTENDS MatrixStructure, TLC

CONSTANTS t1, t2, s1, c1, c2, u1, u2, u3, i1, i2

MCSheetOf == [c \in Sections |-> s1]
MCSectionOf == [u \in Subsections |-> c1]
MCIdOrder == <<s1, c1, c2, u1, u2, u3>>
MCStartNodes == {s1, c1, c2, u1, u2}
MCStartHome == [i \in Items |-> IF i = i1 THEN u1 ELSE None]

(* Requests are interchangeable. *)
Symmetry == Permutations({t1, t2})
=============================================================================
