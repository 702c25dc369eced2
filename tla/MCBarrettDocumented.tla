------------------------- MODULE MCBarrettDocumented -------------------------
(* The multiplier with the moduli its header asks for.                     *)
EXTENDS BarrettPipeline

MCDocumentedModuli == 1..(R - 1)
=============================================================================
