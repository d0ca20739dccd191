----------------------------- MODULE MCLSMTree -----------------------------
(* Model values and definitions for the runs of LSMTree.                   *)
EXTENDS LSMTree
PointRanges == {<<k, k>> : k \in Key}
WholeRange == {<<Min(Key), Max(Key)>>}
=============================================================================
