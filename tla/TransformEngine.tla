-------------------------- MODULE TransformEngine ---------------------------
(***************************************************************************)
(* rtl/ntt4096_four_butterfly_pipeline_transform_core.sv clock by clock:   *)
(* one group of four butterflies is issued per clock, eight coefficients   *)
(* from eight banks; results come back Latency clocks after their data and *)
(* are written where a delayed address says; the pipeline drains before    *)
(* the next stage.  Its test bench loads tables and coefficients, starts   *)
(* transforms, and may reset the core at any clock.                        *)
(***************************************************************************)
EXTENDS Integers
LOCAL INSTANCE FiniteSets
LOCAL INSTANCE FiniteSetsExt
LOCAL INSTANCE Sequences
LOCAL INSTANCE AddressBits

CONSTANTS Triples,    \* triples of address bits; the RTL has four
          Latency,    \* butterfly pipeline and address delay, in clocks (10)
          MaxStarts   \* transforms of a behaviour

ASSUME EngineAssumption == {Triples, Latency, MaxStarts} \subseteq Nat \ {0}

VARIABLES
  state, stage, group, writes, inverse, cycles, done,  \* the controller
  modulus, twiddles, store,       \* registers and memories the host loads
  capture, issued, butterflies, address,  \* what is in flight
  starts

controlVars == <<state, stage, group, writes, inverse, cycles, done>>
memoryVars  == <<modulus, twiddles, store>>
flightVars  == <<capture, issued, butterflies, address>>
engineVars  == <<controlVars, memoryVars, flightVars, starts>>

LogN   == 3 * Triples
Size   == 2^LogN
Groups == Size \div 8
Lanes  == 1..8
Empty  == <<>>
ZeroAddresses == <<0, 0, 0, 0, 0, 0, 0, 0>>

-----------------------------------------------------------------------------
(* ntt4096_four_butterfly_schedule_core: eight addresses that differ in the *)
(* three bits of the stage's triple.                                        *)
GroupBits(s) ==
  LET first  == 3 * (s \div 3)
      others == {first, first + 1, first + 2} \ {s}
  IN  <<Min(others), Max(others)>>

Addresses ==
  [s \in 0..(LogN - 1), g \in 0..(Groups - 1) |->
     LET bits == GroupBits(s)
         base == Deposit(g, {s, bits[1], bits[2]}, LogN)
         pair == <<base, base + 2^bits[1], base + 2^bits[2], base + 2^bits[1] + 2^bits[2]>>
     IN  <<pair[1], pair[1] + 2^s, pair[2], pair[2] + 2^s,
           pair[3], pair[3] + 2^s, pair[4], pair[4] + 2^s>>]

LaneTwiddle_shared(s, g, pair) == 2^s - 1 + (Addresses[s, g][1] % 2^s)  \* a slip
LaneTwiddle(s, g, pair) == 2^s - 1 + (Addresses[s, g][2 * pair - 1] % 2^s)

(* ntt4096_eight_bank_coeff_store_runtime: where a coefficient lies, and    *)
(* which lane has a bank's port when several ask for it: the last one.      *)
Every3rd(r) == {i \in 0..(LogN - 1) : i % 3 = r}
Bank8 ==
  [a \in 0..(Size - 1) |->
     Parity(a, Every3rd(0)) + 2 * Parity(a, Every3rd(1)) + 4 * Parity(a, Every3rd(2))]

(* What the schedule and the store owe each other: the eight coefficients   *)
(* of a group lie in eight banks, and an address tells its group, so that   *)
(* no two groups of a stage share one.                                      *)
GroupOf(s, a) ==
  LET first == 3 * (s \div 3)
  IN  (a \div 2^(first + 3)) * 2^first + (a % 2^first)
ScheduleSound ==
  /\ Groups \in Nat \ {0}
  /\ \A s \in 0..(LogN - 1), g \in 0..(Groups - 1) :
       LET lanes == Addresses[s, g]
       IN  /\ Cardinality({Bank8[lanes[l]] : l \in Lanes}) = 8
           /\ \A l \in Lanes : GroupOf(s, lanes[l]) = g

Row(a)    == a \div 8
Cells     == (0..7) \X (0..(Groups - 1))
Cell(a)   == <<Bank8[a], Row(a)>>
Held(c)   == CHOOSE a \in (8 * c[2])..(8 * c[2] + 7) : Bank8[a] = c[1]
LastLane(addresses, bank) == Max({l \in Lanes : Bank8[addresses[l]] = bank})

ReadLane(addresses, lane) ==
  LET bank == Bank8[addresses[lane]]
  IN  store[<<bank, Row(addresses[LastLane(addresses, bank)])>>]
Read(addresses) ==
  <<ReadLane(addresses, 1), ReadLane(addresses, 2), ReadLane(addresses, 3), ReadLane(addresses, 4),
    ReadLane(addresses, 5), ReadLane(addresses, 6), ReadLane(addresses, 7), ReadLane(addresses, 8)>>

Stored(addresses, data) ==
  LET port == {LastLane(addresses, bank) : bank \in {Bank8[addresses[l]] : l \in Lanes}}
  IN  FoldSet(LAMBDA l, cells : [cells EXCEPT ![Cell(addresses[l])] = data[l]], store, port)

-----------------------------------------------------------------------------
(* ntt4096_dual_mode_butterfly_pipeline_core on one captured group.         *)
AddMod(x, y, q) == IF x + y >= q THEN x + y - q ELSE x + y
SubMod(x, y, q) == IF x >= y THEN x - y ELSE x + q - y

Dif(x, y, w, q) == <<AddMod(x, y, q), (SubMod(x, y, q) * w) % q>>
Dit(x, y, w, q) == <<AddMod(x, (y * w) % q, q), SubMod(x, (y * w) % q, q)>>

Pair(data, k) ==
  LET x == data.values[2 * k - 1]
      y == data.values[2 * k]
  IN  IF inverse THEN Dit(x, y, data.weights[k], modulus) ELSE Dif(x, y, data.weights[k], modulus)
Results(data) == Pair(data, 1) \o Pair(data, 2) \o Pair(data, 3) \o Pair(data, 4)

-----------------------------------------------------------------------------
EngineInit ==
  /\ state = "idle" /\ stage = 0 /\ group = 0 /\ writes = 0 /\ inverse = FALSE
  /\ cycles = 0 /\ done = FALSE
  /\ modulus = 0 /\ twiddles = Empty /\ store = [c \in Cells |-> 0]
  /\ capture = Empty /\ issued = ZeroAddresses
  /\ butterflies = [k \in 1..Latency |-> Empty]
  /\ address = [k \in 1..Latency |-> ZeroAddresses]
  /\ starts = 0

Busy    == state # "idle"
Written == butterflies[Latency] # Empty
LastWrite_early == Written /\ writes = Groups - 2  \* a slip: one group short
LastWrite == Written /\ writes = Groups - 1
LastStage == stage = (IF inverse THEN LogN - 1 ELSE 0)

(* What every clock does to the pipelines: data read in STATE_ISSUE is      *)
(* captured, captured data enters the butterflies, addresses follow.        *)
Shift ==
  /\ capture' = IF state = "issue"
                  THEN [values  |-> Read(Addresses[stage, group]),
                        weights |-> [k \in 1..4 |-> twiddles[LaneTwiddle(stage, group, k)]]]
                  ELSE Empty
  /\ issued' = IF state = "issue" THEN Addresses[stage, group] ELSE issued
  /\ butterflies' = [k \in 1..Latency |->
                       IF k > 1 THEN butterflies[k - 1]
                       ELSE IF capture = Empty THEN Empty ELSE Results(capture)]
  /\ address' = [k \in 1..Latency |-> IF k = 1 THEN issued ELSE address[k - 1]]
  /\ store' = IF Written THEN Stored(address[Latency], butterflies[Latency]) ELSE store

Issue ==
  /\ state = "issue" /\ ~LastWrite
  /\ IF group = Groups - 1 THEN group' = 0 /\ state' = "drain"
                           ELSE group' = group + 1 /\ UNCHANGED state
  /\ writes' = IF Written THEN writes + 1 ELSE writes
  /\ cycles' = cycles + 1 /\ done' = FALSE
  /\ Shift
  /\ UNCHANGED <<stage, inverse, modulus, twiddles, starts>>

Drain ==
  /\ state = "drain" /\ ~LastWrite
  /\ writes' = IF Written THEN writes + 1 ELSE writes
  /\ cycles' = cycles + 1 /\ done' = FALSE
  /\ Shift
  /\ UNCHANGED <<state, stage, group, inverse, modulus, twiddles, starts>>

(* The last write of a stage overrides what the state machine would do.     *)
EndStage ==
  /\ Busy /\ LastWrite
  /\ writes' = 0 /\ cycles' = cycles + 1
  /\ IF LastStage
       THEN /\ state' = "idle" /\ done' = TRUE /\ UNCHANGED stage
            /\ group' = IF state = "drain" THEN group
                        ELSE IF group = Groups - 1 THEN 0 ELSE group + 1
       ELSE /\ state' = "issue" /\ done' = FALSE /\ group' = 0
            /\ stage' = IF inverse THEN stage + 1 ELSE stage - 1
  /\ Shift
  /\ UNCHANGED <<inverse, modulus, twiddles, starts>>

(* The host's side, between transforms (the core ignores loads while busy). *)
(* A load takes as many clocks as it has words, so that the delay line is   *)
(* full of the last address; a start takes one.                             *)
Settle ==
  /\ done' = FALSE /\ address' = [k \in 1..Latency |-> issued]
  /\ UNCHANGED <<capture, issued, butterflies>>

Start(mode) ==
  /\ ~Busy /\ starts < MaxStarts
  /\ inverse' = mode /\ stage' = (IF mode THEN 0 ELSE LogN - 1)
  /\ group' = 0 /\ writes' = 0 /\ cycles' = 0 /\ done' = FALSE
  /\ state' = "issue" /\ starts' = starts + 1
  /\ Shift
  /\ UNCHANGED <<modulus, twiddles>>

LoadCoefficients(q, values) ==
  /\ ~Busy
  /\ modulus' = q
  /\ store' = [c \in Cells |-> values[Held(c)]]
  /\ Settle
  /\ UNCHANGED <<state, stage, group, writes, inverse, cycles, twiddles, starts>>

LoadTwiddles(words) ==
  /\ ~Busy
  /\ twiddles' = words
  /\ Settle
  /\ UNCHANGED <<state, stage, group, writes, inverse, cycles, modulus, store, starts>>

(* Reset leaves the memories, and the words the pipeline carries, but not   *)
(* their valid bits; a write on the clock of the reset still takes place.   *)
Reset ==
  /\ state' = "idle" /\ stage' = 0 /\ group' = 0 /\ writes' = 0 /\ inverse' = FALSE
  /\ cycles' = 0 /\ done' = FALSE /\ modulus' = 0
  /\ capture' = Empty /\ issued' = ZeroAddresses
  /\ butterflies' = [k \in 1..Latency |-> Empty]
  /\ address' = [k \in 1..Latency |-> ZeroAddresses]
  /\ store' = IF Written THEN Stored(address[Latency], butterflies[Latency]) ELSE store
  /\ UNCHANGED <<twiddles, starts>>

-----------------------------------------------------------------------------
Logical == [a \in 0..(Size - 1) |-> store[Cell(a)]]
=============================================================================
