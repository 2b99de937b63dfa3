----------------------------- MODULE MCIngestion -----------------------------
(* Instances of Ingestion for TLC: model values and the symmetry of those   *)
(* that are interchangeable (document ids are not, they are handed out in   *)
(* ascending order).                                                        *)
EXTENDS Ingestion, TLC

CONSTANTS k1, k2, c1, c2, r1, r2, w1, w2

Symmetry == Permutations(KBs) \cup Permutations(Contents)
              \cup Permutations(Reqs) \cup Permutations(Workers)
=============================================================================
