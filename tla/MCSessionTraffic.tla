-------------------------- MODULE MCSessionTraffic --------------------------
(* Finite instances of SessionTraffic.                                     *)
EXTENDS SessionTraffic

CONSTANTS p1, p2

(* Tables of one pair and of two with different profiles.                  *)
MCTables == {<<p1, p2>>, <<p2>>}
MCOneTable == {<<p1, p2>>}

MCCounts == {[count |-> 1, digits |-> 1], [count |-> 2, digits |-> 1]}
MCSmallCounts == {[count |-> 1, digits |-> 1]}
=============================================================================
