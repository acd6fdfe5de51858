------------------------------ MODULE MCEvalRun ------------------------------
(* Instances of EvalRun: two tasks of one episode, or two of the first.    *)
EXTENDS EvalRun, TLC

CONSTANTS s1, s2, m1, m2, v1, v2

TwoTasks == <<1, 2>>
Repeated == <<1, 1, 2>>

(* Shards are interchangeable, and so are models.                          *)
Interchangeable == Permutations(Models) \cup Permutations(Shards)
=============================================================================
