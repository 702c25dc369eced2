-------------------------- MODULE TowerBatchRunner --------------------------
(***************************************************************************)
(* The three programs that take the pairs one after the other, every pair  *)
(* with buffers of its own: cli/run_fpga_multitower_buffered.py and        *)
(* run_fpga_ciphertext_buffered.py, which upload a profile only when its   *)
(* key differs from the one loaded, and run_fpga_evalmul3.py, which always *)
(* does and checks alignments.  An odd last tower is computed twice and    *)
(* written once.                                                           *)
(***************************************************************************)
EXTENDS RunnerPlatform

BatchPrograms == {"multitower_buffered", "ciphertext_buffered", "evalmul3"}
ChecksAlignment == program = "evalmul3"
AlwaysUploads   == program = "evalmul3"

PrepareBatch ==
  /\ At("prepare") /\ Goto("pair")
  /\ UNCHANGED <<progVars, loopVars, heapVars, mem, dmaVars, failures>>

(* What tells one profile from another: moduli and roots; the ring, and     *)
(* with it the cyclotomic order, is the same for all towers.  A slip: the   *)
(* moduli alone, although towers of one modulus may have different roots.   *)
ProfileKey_moduli(p) == <<moduli[Tower0(p) + 1], 0, moduli[Tower1(p) + 1], 0>>
ProfileKey(p) == <<moduli[Tower0(p) + 1], roots[Tower0(p) + 1],
                   moduli[Tower1(p) + 1], roots[Tower1(p) + 1]>>

(* The frame built for the first pair with this key is used for them all.   *)
CachedTables(p) ==
  PairTables(CHOOSE c \in 0..p : ProfileKey(c) = ProfileKey(p))

OwnProfile(p)  == IF AlwaysUploads THEN PairModuli(p) ELSE PairTables(p)
SentProfile(p) == IF AlwaysUploads THEN PairModuli(p) ELSE CachedTables(p)

(* loaded_key != key.                                                       *)
KeyDiffers == loaded # ProfileKey(pair)

BeginPair ==
  /\ At("pair")
  /\ Goto(IF AlwaysUploads \/ KeyDiffers THEN "profileBuffer" ELSE "sendBuffer")
  /\ UNCHANGED <<progVars, loopVars, heapVars, mem, dmaVars, failures>>

(* The profile's buffer lives for its upload alone.                         *)
FreeProfile ==
  /\ At("freeProfile") /\ Goto("sendBuffer")
  /\ held' = held \ {Profile} /\ guarded' = guarded \ {Profile}
  /\ loaded' = ProfileKey(pair)
  /\ UNCHANGED <<progVars, pair, run, checked, files, mem, dmaVars, failures>>

UploadIfNew ==
  \/ Allocate("profileBuffer", Profile, {Profile}, ChecksAlignment, "fillProfile")
  \/ Fill("fillProfile", Profile, ProfileFrame(SentProfile(pair)), "sendProfile")
  \/ SendOnly("sendProfile", Profile)
  \/ SentOnly("freeProfile")
  \/ FreeProfile

(* The try that frees both begins after the second allocation.  A slip: it  *)
(* frees the send buffer only.                                              *)
AllocatePair_half ==
  \/ Allocate("sendBuffer", Send, {}, FALSE, "receiveBuffer")
  \/ Allocate("receiveBuffer", Receive, {Send}, ChecksAlignment, "fillFrame")
AllocatePair ==
  \/ Allocate("sendBuffer", Send, {}, FALSE, "receiveBuffer")
  \/ Allocate("receiveBuffer", Receive, {Send, Receive}, ChecksAlignment, "fillFrame")

FillPair == Fill("fillFrame", Send, DataFrame(pair), "runFrame")

ValidatePair ==
  Validate(pair, OwnProfile(pair),
           /\ UNCHANGED <<pair, files>> /\ run' = run + 1
           /\ Goto(IF run = TimedRuns THEN "write" ELSE "runFrame"))

(* A slip: the last tower of an odd number is never written.                *)
WritePair_even ==
  /\ At("write") /\ Goto("freePair")
  /\ IF Tower1Real(pair) THEN Written({Tower0(pair), Tower1(pair)}, checked) ELSE UNCHANGED files
  /\ UNCHANGED <<progVars, pair, run, loaded, checked, heapVars, mem, dmaVars, failures>>
WritePair ==
  /\ At("write") /\ Goto("freePair")
  /\ Written({Tower0(pair)} \union (IF Tower1Real(pair) THEN {Tower1(pair)} ELSE {}), checked)
  /\ UNCHANGED <<progVars, pair, run, loaded, checked, heapVars, mem, dmaVars, failures>>

EndPair ==
  /\ At("freePair")
  /\ held' = held \ {Send, Receive} /\ guarded' = guarded \ {Send, Receive}
  /\ run' = 0
  /\ IF pair + 1 < PairCount THEN pair' = pair + 1 /\ Goto("pair")
                             ELSE UNCHANGED pair /\ Goto("finally")
  /\ UNCHANGED <<progVars, loaded, checked, files, mem, dmaVars, failures>>

RunPair == FillPair \/ RunFrame \/ ValidatePair \/ WritePair \/ EndPair

MultitowerUpload == program = "multitower_buffered" /\ (PrepareBatch \/ BeginPair \/ UploadIfNew)
MultitowerPairs  == program = "multitower_buffered" /\ (AllocatePair \/ RunPair \/ Finally)

CiphertextUpload == program = "ciphertext_buffered" /\ (PrepareBatch \/ BeginPair \/ UploadIfNew)
CiphertextPairs  == program = "ciphertext_buffered" /\ (AllocatePair \/ RunPair \/ Finally)

EvalMul3Upload == program = "evalmul3" /\ (PrepareBatch \/ BeginPair \/ UploadIfNew)
EvalMul3Pairs  == program = "evalmul3" /\ (AllocatePair \/ RunPair \/ Finally)

BatchNext ==
  \/ MultitowerUpload \/ MultitowerPairs
  \/ CiphertextUpload \/ CiphertextPairs
  \/ EvalMul3Upload \/ EvalMul3Pairs
=============================================================================
