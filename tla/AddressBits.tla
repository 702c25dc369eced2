---------------------------- MODULE AddressBits -----------------------------
(***************************************************************************)
(* Coefficient addresses bit by bit: what the butterfly schedules and the  *)
(* banked coefficient stores are built from.                               *)
(***************************************************************************)
LOCAL INSTANCE Integers
LOCAL INSTANCE FiniteSets
LOCAL INSTANCE FiniteSetsExt

Bit(address, i) == (address \div 2^i) % 2

Parity(address, positions) ==
  Cardinality({i \in positions : Bit(address, i) = 1}) % 2

(* The bits of `packed', low ones first, at the positions of a `width'-bit  *)
(* address that are not in `skip'; zeros there.                             *)
Deposit(packed, skip, width) ==
  LET kept == (0..(width - 1)) \ skip
      Rank(d) == Cardinality({e \in kept : e < d})
  IN  MapThenSumSet(LAMBDA d : Bit(packed, Rank(d)) * 2^d, kept)
=============================================================================
