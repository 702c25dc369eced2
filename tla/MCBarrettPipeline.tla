-------------------------- MODULE MCBarrettPipeline --------------------------
(* A finite instance of BarrettPipeline that also evaluates the assumption *)
(* of the proofs.                                                          *)
EXTENDS BarrettProofs

MCAcceptedModuli == {q \in 1..(R - 1) : 2 * q >= R /\ (R * R) \div q < 2 * R}
=============================================================================
