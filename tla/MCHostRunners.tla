---------------------------- MODULE MCHostRunners ----------------------------
(* The programs on vector sets of one to four towers, with repeated and     *)
(* different moduli and roots: also pairs of equal moduli, unequal roots.   *)
EXTENDS HostRunners

MCPrograms == AllPrograms
MCTowerModuli ==
  {<<97>>, <<97, 101>>, <<97, 101, 89>>, <<97, 97, 97>>,
   <<97, 101, 97, 101>>, <<97, 101, 97, 89>>}
MCTowerRoots == {<<3>>, <<3, 5>>, <<3, 5, 3>>, <<3, 5, 3, 5>>, <<3, 5, 3, 7>>}
=============================================================================
