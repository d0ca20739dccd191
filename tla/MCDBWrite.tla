----------------------------- MODULE MCDBWrite -----------------------------
(* Model values and symmetry for the runs of DBWrite.                      *)
EXTENDS DBWrite, TLC

CONSTANTS t1, t2, t3

TwoWriters == {t1, t2}
ThreeWriters == {t1, t2, t3}
Interchangeable == Permutations(Writer)
=============================================================================
