----------------------------- MODULE MCFastWam -----------------------------
(* Instances of FastWam.                                                   *)
EXTENDS FastWam, TLC

CONSTANTS t1, t2, s1, s2, o1, o2, e1, e2

(* Two embeddings of different lengths. *)
TwoLengths == e1 :> 1 @@ e2 :> 2

Interchangeable == Permutations(Threads) \cup Permutations(Sessions)
                     \cup Permutations(Observations)
=============================================================================
