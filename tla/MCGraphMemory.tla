---------------------------- MODULE MCGraphMemory ----------------------------
(* Two processes, of one project or of two, and two tasks.                 *)
EXTENDS GraphMemory, TLC

CONSTANTS p1, p2, q1, q2, t1, t2

Symmetry ==
  Permutations({p1, p2}) \cup Permutations({q1, q2}) \cup Permutations({t1, t2})
=============================================================================
