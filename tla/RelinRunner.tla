----------------------------- MODULE RelinRunner -----------------------------
(***************************************************************************)
(* The four programs that relinearize one pair of towers at a time:        *)
(* cli/run_fpga_bv_keyreuse_drain_overlap.py, its two forerunners for the  *)
(* coefficient-major and the ping-pong overlay, and                        *)
(* run_fpga_evalmul3_bv_relinearized.py.  All buffers live to the end; the *)
(* profile of every pair is sent again in every run of the whole batch.    *)
(***************************************************************************)
EXTENDS RunnerPlatform

CONSTANT RelinTowers   \* the towers of the board checkpoint, 12

RelinPrograms ==
  {"coefficient_major", "pingpong", "drain_overlap", "evalmul3_bv_relinearized"}

(* main() up to the overlay: so many towers, in pairs, or none.             *)
PrepareRelin ==
  /\ At("prepare")
  /\ IF TowerCount = RelinTowers /\ TowerCount % 2 = 0
     THEN Goto("profileBuffer")
     ELSE pc' = "ended" /\ outcome' = "rejected"
  /\ UNCHANGED <<progVars, loopVars, heapVars, mem, dmaVars, failures>>

(* Three allocations, each checked inside the try that frees it.            *)
AllocateRelin ==
  \/ Allocate("profileBuffer", Profile, {Profile}, TRUE, "sendBuffer")
  \/ Allocate("sendBuffer", Send, {Send}, TRUE, "receiveBuffer")
  \/ Allocate("receiveBuffer", Receive, {Receive}, TRUE, "fillProfile")

(* run_complete_batch: one pair.                                            *)
UploadProfile ==
  \/ Fill("fillProfile", Profile, ProfileFrame(PairModuli(pair)), "sendProfile")
  \/ SendOnly("sendProfile", Profile)
  \/ SentOnly("fillFrame")

FillBatch == Fill("fillFrame", Send, DataFrame(pair), "runFrame")

NextPair ==
  IF pair + 1 < PairCount
    THEN pair' = pair + 1 /\ UNCHANGED run /\ Goto("fillProfile")
    ELSE /\ pair' = 0 /\ run' = run + 1
         /\ Goto(IF run = TimedRuns THEN "finally" ELSE "fillProfile")

(* Only the warm-up run is given a result_root to write to.                 *)
ValidateRelin ==
  Validate(pair, PairModuli(pair),
           /\ NextPair
           /\ IF run = 0 THEN Written({Tower0(pair), Tower1(pair)}, checked')
                         ELSE UNCHANGED files)

Batch == UploadProfile \/ FillBatch \/ RunFrame \/ ValidateRelin

(* The programs.                                                            *)
DrainOverlap ==
  program = "drain_overlap" /\ (PrepareRelin \/ AllocateRelin \/ Batch \/ Finally)

CoefficientMajorSetup == program = "coefficient_major" /\ (PrepareRelin \/ AllocateRelin)
CoefficientMajorBatch == program = "coefficient_major" /\ (Batch \/ Finally)

PingpongSetup == program = "pingpong" /\ (PrepareRelin \/ AllocateRelin)
PingpongBatch == program = "pingpong" /\ (Batch \/ Finally)

RelinearizedSetup ==
  program = "evalmul3_bv_relinearized" /\ (PrepareRelin \/ AllocateRelin)
RelinearizedBatch == program = "evalmul3_bv_relinearized" /\ (Batch \/ Finally)

RelinNext ==
  \/ DrainOverlap
  \/ CoefficientMajorSetup \/ CoefficientMajorBatch
  \/ PingpongSetup \/ PingpongBatch
  \/ RelinearizedSetup \/ RelinearizedBatch
=============================================================================
