----------------------------- MODULE MCFileGrace -----------------------------
EXTENDS FileGrace, TLC
CONSTANTS t1, t2, a1
MCKey == [f \in Files |-> "x"]
MCKeys == {"x"}
Symmetry == Permutations(Tx)
=============================================================================
