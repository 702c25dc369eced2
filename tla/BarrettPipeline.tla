--------------------------- MODULE BarrettPipeline ---------------------------
(***************************************************************************)
(* The fully pipelined modular multiplier every product of the accelerator *)
(* goes through, rtl/modmul_barrett60_pipeline_split_core.sv.  One step is *)
(* one rising clock edge.  The word size is the parameter R, 2^30 in the   *)
(* source; every register keeps its width, written as a multiple of R:     *)
(* 31 bits is 2R, 32 bits 4R, 60 bits R^2, 61 bits 2R^2, 63 bits 8R^2,     *)
(* 64 bits 16R^2 and 91 bits 2R^3.                                         *)
(***************************************************************************)
EXTENDS Integers

CONSTANTS
  R,        \* radix of a residue word: moduli are below R
  Moduli,   \* the moduli a product may be launched with
  MaxIssue  \* bound on the products launched in one behaviour

ASSUME RadixAssumption == R \in Nat /\ R >= 4 /\ R % 2 = 0
ASSUME ModuliAssumption == Moduli \subseteq 1..(R - 1)
ASSUME MaxIssueAssumption == MaxIssue \in Nat

VARIABLES
  stage0, stage1, stage2, stage3, stage4, stage5, stage6, output,
  issued,   \* products launched so far
  trace     \* trace[i]: the operands whose product the i-th stage works on

stages == <<stage0, stage1, stage2, stage3, stage4, stage5, stage6, output>>
vars == <<stages, issued, trace>>

(* A slip: a mu port one bit narrower.                                      *)
Reciprocal_narrow(q) == ((R * R) \div q) % R

(* The reciprocal the host computes, as it fits the 31-bit mu port.        *)
Reciprocal(q) == ((R * R) \div q) % (2 * R)

(* The moduli a profile frame can load: bit 29 of q must be set, and bit   *)
(* 31 of the reciprocal word must be clear.                                *)
AcceptedModuli == {q \in 1..(R - 1) : 2 * q >= R /\ (R * R) \div q < 2 * R}

NoOperands == [valid |-> FALSE, a |-> 0, b |-> 0, q |-> 0]

(* Every register as reset_n leaves it.                                    *)
ResetStage0 == [valid |-> FALSE, a |-> 0, b |-> 0, q |-> 0, mu |-> 0]
ResetStage1 == [valid |-> FALSE, product |-> 0, q |-> 0, mu |-> 0]
ResetStage2 == [valid |-> FALSE, low |-> 0, high |-> 0, product |-> 0, q |-> 0]
ResetStage3 == [valid |-> FALSE, reciprocal |-> 0, product |-> 0, q |-> 0]
ResetStage4 == [valid |-> FALSE, quotient |-> 0, product |-> 0, q |-> 0]
ResetStage5 == [valid |-> FALSE, quotientProduct |-> 0, product |-> 0, q |-> 0]
ResetStage6 == [valid |-> FALSE, remainder |-> 0, q |-> 0]
ResetOutput == [valid |-> FALSE, result |-> 0]
EmptyTrace  == [i \in 0..7 |-> NoOperands]

Init ==
  /\ stage0 = ResetStage0 /\ stage1 = ResetStage1 /\ stage2 = ResetStage2
  /\ stage3 = ResetStage3 /\ stage4 = ResetStage4 /\ stage5 = ResetStage5
  /\ stage6 = ResetStage6 /\ output = ResetOutput
  /\ issued = 0 /\ trace = EmptyTrace

(* One residue fits a lane; only the low 60 bits of a product are used.    *)
LowHalf(product)  == product % R
HighHalf(product) == (product \div R) % R

(* A slip: the recombination register keeps the width of a product.         *)
Recombined_narrow(low, high) == (low + high * R) % (R * R)

(* The two partial reciprocal products, recombined one stage later.        *)
Recombined(low, high) == (low + high * R) % (2 * R * R * R)

(* The single conditional subtraction of the last stage.                   *)
Corrected(remainder, q) ==
  IF remainder >= q THEN (remainder - q) % (4 * R) ELSE remainder % (4 * R)

(* Everything behind stage 0 moves one stage, valid or not.                *)
Advance ==
  /\ stage1' = [valid |-> stage0.valid,
                product |-> (stage0.a * stage0.b) % (16 * R * R),
                q |-> stage0.q, mu |-> stage0.mu]
  /\ stage2' = [valid |-> stage1.valid,
                low  |-> (LowHalf(stage1.product) * stage1.mu) % (2 * R * R),
                high |-> (HighHalf(stage1.product) * stage1.mu) % (2 * R * R),
                product |-> stage1.product, q |-> stage1.q]
  /\ stage3' = [valid |-> stage2.valid,
                reciprocal |-> Recombined(stage2.low, stage2.high),
                product |-> stage2.product, q |-> stage2.q]
  /\ stage4' = [valid |-> stage3.valid,
                quotient |-> (stage3.reciprocal \div (R * R)) % (2 * R),
                product |-> stage3.product, q |-> stage3.q]
  /\ stage5' = [valid |-> stage4.valid,
                quotientProduct |-> (stage4.quotient * stage4.q) % (8 * R * R),
                product |-> stage4.product, q |-> stage4.q]
  /\ stage6' = [valid |-> stage5.valid,
                remainder |->
                  (stage5.product - stage5.quotientProduct) % (16 * R * R),
                q |-> stage5.q]
  /\ output' = [valid |-> stage6.valid,
                result |-> IF stage6.valid
                             THEN Corrected(stage6.remainder, stage6.q)
                             ELSE output.result]

Follow(operands) ==
  trace' = [i \in 0..7 |-> IF i = 0 THEN operands ELSE trace[i - 1]]

(* input_valid high: stage 0 captures the operands with the modulus and    *)
(* reciprocal of this very clock.                                          *)
Launch(a, b, q) ==
  /\ issued < MaxIssue
  /\ issued' = issued + 1
  /\ stage0' = [valid |-> TRUE, a |-> a, b |-> b, q |-> q,
                mu |-> Reciprocal(q)]
  /\ Advance
  /\ Follow([valid |-> TRUE, a |-> a, b |-> b, q |-> q])

(* A slip: stage 0 keeps its valid bit with its data.                       *)
Bubble_repeats ==
  /\ UNCHANGED stage0
  /\ Advance
  /\ Follow(NoOperands)
  /\ UNCHANGED issued

(* input_valid low: stage 0 keeps its data and clears its valid bit.       *)
Bubble ==
  /\ stage0' = [stage0 EXCEPT !.valid = FALSE]
  /\ Advance
  /\ Follow(NoOperands)
  /\ UNCHANGED issued

Reset ==
  /\ stage0' = ResetStage0 /\ stage1' = ResetStage1 /\ stage2' = ResetStage2
  /\ stage3' = ResetStage3 /\ stage4' = ResetStage4 /\ stage5' = ResetStage5
  /\ stage6' = ResetStage6 /\ output' = ResetOutput
  /\ trace' = EmptyTrace /\ UNCHANGED issued

Next ==
  \/ \E q \in Moduli : \E a, b \in 0..(q - 1) : Launch(a, b, q)
  \/ Bubble
  \/ Reset

Spec == Init /\ [][Next]_vars

-----------------------------------------------------------------------------
(* The result register holds the exact residue of the product launched     *)
(* seven clocks earlier, reduced by the modulus it was launched with, even *)
(* when the profile changed behind it.                                     *)
ResultExact ==
  output.valid =>
    /\ trace[7].valid
    /\ output.result = (trace[7].a * trace[7].b) % trace[7].q

(* No valid bit is lost or invented on the way: a product leaves exactly   *)
(* when the multiplier's fixed latency says so.                            *)
LatencyFixed ==
  /\ stage0.valid = trace[0].valid
  /\ output.valid = trace[7].valid

(* The provisional remainder is below 2q, so a single conditional          *)
(* subtraction is enough (the assertion at the end of the source).         *)
SingleSubtraction ==
  stage6.valid => stage6.remainder < 2 * stage6.q
=============================================================================
