---------------------------- MODULE MCTransforms ----------------------------
EXTENDS Transforms

Ring(n, q, degree, roots) ==
  {[n |-> n, order |-> 2 * n, q |-> q, sourceN |-> n * degree,
    sourceOrder |-> 2 * n * degree, root |-> r] : r \in roots}

(* Every root for n = 4, two source rings; a few others of each kind: the   *)
(* smallest ring, a composite modulus, an even one, and a larger degree.    *)
MCProfiles ==
  Ring(4, 17, 1, 1..16) \union Ring(4, 17, 2, 1..16) \union Ring(2, 5, 1, 1..4)
    \union Ring(2, 65, 1, {8, 12}) \union Ring(2, 10, 1, {3})
    \union Ring(8, 17, 1, {3, 4}) \union Ring(1, 5, 1, {4})

(* The schedule at every size up to the 4096 coefficients of the RTL.       *)
Sized(size) == INSTANCE TransformEngine WITH Triples <- size
ASSUME ScheduleSoundToRTLSize == \A t \in 1..4 : Sized(t)!ScheduleSound

MCTowers == Ring(Size, 257, 1, {9})
=============================================================================
