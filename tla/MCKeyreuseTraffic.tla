------------------------- MODULE MCKeyreuseTraffic -------------------------
(* Finite instances of KeyreuseTraffic.                                    *)
EXTENDS KeyreuseTraffic

(* Two ciphertexts, one digit and two: digits accumulate or overwrite.     *)
MCCounts == {[count |-> 2, digits |-> 1], [count |-> 2, digits |-> 2]}

(* The least batch the source accepts.                                     *)
MCSourceCounts == {[count |-> 8, digits |-> 1]}

MCSmallCounts == {[count |-> 1, digits |-> 2]}
=============================================================================
