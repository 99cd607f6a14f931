--------------------------- MODULE MCFileLifecycle ---------------------------
(***************************************************************************)
(* Small instances of FileLifecycle for TLC.  Files 1 and 3 have the same  *)
(* content and purpose, so that uploads meet duplicates.                   *)
(***************************************************************************)
EXTENDS FileLifecycle, TLC

CONSTANTS t1, t2, t3, a1, a2

MCKey == [f \in Files |-> IF f = 2 THEN "y" ELSE "x"]
MCKeys == {"x", "y"}

(* Requests are interchangeable, and so are articles. *)
Symmetry == Permutations({t1, t2, t3}) \cup Permutations({a1, a2})
RequestSymmetry == Permutations({t1, t2, t3})
=============================================================================
