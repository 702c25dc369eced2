---------------------------- MODULE EngineBench -----------------------------
(***************************************************************************)
(* The transform engine under its test bench: coefficients and tables of a *)
(* tower are loaded, transforms started in either direction, and a reset   *)
(* may come at any clock.  What the coefficient store should hold is kept  *)
(* beside it, by the reference transforms of the vector script.            *)
(***************************************************************************)
EXTENDS TransformEngine, Negacyclic, TransformVectors
LOCAL INSTANCE FiniteSets
LOCAL INSTANCE Sequences

CONSTANT Towers     \* profiles, as the golden model reads them

VARIABLES tower,    \* the profile of this bench
          roms,     \* its twiddles, of the inverse transform at TRUE
          given,    \* the coefficients last loaded, <<>> when unknown
          applied,  \* transforms started since, inverse ones as TRUE
          expected  \* what the store should hold once the core is idle
benchVars == <<tower, roms, given, applied, expected>>

Vectors(q) == {[a \in Index(Size) |-> (a + 1) % q], [a \in Index(Size) |-> q - 1],
               [a \in Index(Size) |-> IF a = 5 THEN 1 ELSE 0]}
TablesOf(t) ==
  [mode \in BOOLEAN |->
     Flatten(StageTwiddles(IF mode THEN OmegaInverse(t) ELSE Omega(t), Size, t.q))]

Reference(values, mode) ==
  IF mode THEN InverseDit(values, roms[mode], Size, tower.q)
          ELSE ForwardDif(values, roms[mode], Size, tower.q)

BenchInit == /\ EngineInit /\ tower \in Towers /\ roms = TablesOf(tower)
             /\ given = Empty /\ applied = <<>> /\ expected = Empty

LoadVector ==
  /\ ~Busy /\ (given = Empty \/ Len(applied) = 2)
  /\ \E values \in Vectors(tower.q) :
       LoadCoefficients(tower.q, values) /\ given' = values /\ expected' = values
  /\ applied' = <<>> /\ UNCHANGED <<tower, roms>>

StartTransform ==
  /\ ~Busy /\ given # Empty
  /\ \E mode \in BOOLEAN :
       /\ twiddles = roms[mode]
       /\ Start(mode)
       /\ applied' = Append(applied, mode) /\ expected' = Reference(expected, mode)
  /\ UNCHANGED <<tower, roms, given>>

LoadTables ==
  /\ ~Busy
  /\ \E mode \in BOOLEAN : LoadTwiddles(roms[mode]) /\ twiddles' # twiddles
  /\ UNCHANGED benchVars

ResetCore == Reset /\ given' = Empty /\ expected' = Empty /\ applied' = <<>> /\ UNCHANGED <<tower, roms>>

Clock == (Issue \/ Drain \/ EndStage) /\ UNCHANGED benchVars

BenchNext == LoadVector \/ LoadTables \/ StartTransform \/ Clock \/ ResetCore

-----------------------------------------------------------------------------
(* A transform has taken, when it is done, its groups and a drain of the   *)
(* whole pipeline for every stage.                                         *)
StageClocks == Groups + Latency + 1
TransformTime == done => cycles = LogN * StageClocks

(* Whenever the core is idle its store holds, bank conflicts, pipelining    *)
(* and drains between stages notwithstanding, what the vector script's      *)
(* in-place loops leave: the DIF spectrum after a forward transform, and    *)
(* size times the coefficients after a forward and an inverse one; and it   *)
(* took the clocks the header and the bench promise, no write early or      *)
(* twice.                                                                   *)
TransformExact ==
  ~Busy /\ given # Empty =>
    /\ Logical = expected
    /\ applied = <<FALSE, TRUE>> => Logical = RoundTrip(given, Size, tower.q)
    /\ TransformTime

(* The eight coefficients of a group lie in eight banks, and none of them   *)
(* is still to be written by a group of an earlier stage or clock.          *)
InFlight ==
  {address[k][l] : k \in {j \in 1..Latency : butterflies[j] # Empty}, l \in Lanes}
  \union (IF capture # Empty THEN {issued[l] : l \in Lanes} ELSE {})

ReadsSettled ==
  state = "issue" =>
    LET reads == {Addresses[stage, group][l] : l \in Lanes}
    IN  /\ Cardinality({Bank8[a] : a \in reads}) = 8
        /\ reads \intersect InFlight = {}
=============================================================================
