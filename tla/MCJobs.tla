------------------------------- MODULE MCJobs -------------------------------
(***************************************************************************)
(* Two clients of project 1, and a job key of project 2.                   *)
(***************************************************************************)
EXTENDS JobsProperties, TLC

CONSTANTS c1, c2, j1, j2, other

Bounds == c1 :> 2 @@ c2 :> 1

Projects == [x \in {c1, c2, j1, j2, other} |-> IF x = other THEN 2 ELSE 1]
=============================================================================
