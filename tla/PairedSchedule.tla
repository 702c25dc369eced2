--------------------------- MODULE PairedSchedule ---------------------------
(***************************************************************************)
(* The two-butterfly schedule and its four parity banks, as               *)
(* scripts/vectors/verify_ntt4096_dual_butterfly_banking.py checks them    *)
(* for rtl/ntt4096_paired_schedule_core.sv: which two butterflies of a     *)
(* stage share a cycle, and where their four coefficients lie.             *)
(***************************************************************************)
EXTENDS Integers
LOCAL INSTANCE FiniteSets
LOCAL INSTANCE AddressBits

(* Even address bits choose bank bit 0, odd ones bank bit 1.                *)
Bank(address, logN) ==
  LET Bits(r) == {i \in 0..(logN - 1) : i % 2 = r}
  IN  Parity(address, Bits(0)) + 2 * Parity(address, Bits(1))

CompanionBit_wrapped(stage, logN) == (stage + 1) % logN  \* a slip, of the last stage
CompanionBit(stage, logN) == IF stage < logN - 1 THEN stage + 1 ELSE stage - 1

CycleAddresses(stage, packed, logN) ==
  LET pair  == CompanionBit(stage, logN)
      base  == Deposit(packed, {stage, pair}, logN)
  IN  <<base, base + 2^stage, base + 2^pair, base + 2^pair + 2^stage>>

Cycles(logN) == 0..(2^(logN - 2) - 1)

(* verify_stage: four banks in every cycle, and every butterfly of the      *)
(* stage in exactly one cycle.                                              *)
ConflictFree(stage, packed, logN) ==
  LET addresses == CycleAddresses(stage, packed, logN)
  IN  /\ Cardinality({addresses[i] : i \in 1..4}) = 4
      /\ Cardinality({Bank(addresses[i], logN) : i \in 1..4}) = 4

CycleButterflies(stage, packed, logN) ==
  LET addresses == CycleAddresses(stage, packed, logN)
  IN  {<<addresses[1], addresses[2]>>, <<addresses[3], addresses[4]>>}

StageVerified(stage, butterflies, logN) ==
  /\ \A packed \in Cycles(logN) : ConflictFree(stage, packed, logN)
  /\ \A p, r \in Cycles(logN) :
       p # r => CycleButterflies(stage, p, logN)
                  \intersect CycleButterflies(stage, r, logN) = {}
  /\ UNION {CycleButterflies(stage, p, logN) : p \in Cycles(logN)} = butterflies
=============================================================================
