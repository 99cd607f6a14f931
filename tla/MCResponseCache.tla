--------------------------- MODULE MCResponseCache ---------------------------
(***************************************************************************)
(* Small instances of ResponseCache: k1 is a page the warm task covers, k2 *)
(* one it does not (a later page of a list), k3 belongs to another domain. *)
(***************************************************************************)
EXTENDS ResponseCache, TLC

CONSTANTS k1, k2, k3, articles, matrix, m1, m2

MCDomainOf == [k \in Keys |-> IF k = k3 THEN matrix ELSE articles]
MCWarmed == Keys \ {k2}
Symmetry == Permutations({m1, m2})
=============================================================================
