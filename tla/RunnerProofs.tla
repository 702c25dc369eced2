---------------------------- MODULE RunnerProofs ----------------------------
(***************************************************************************)
(* For any vector sets, timed runs and numbers of failures: which buffers  *)
(* each of the single-frame programs holds at each point, which of them a  *)
(* finally clause would free, and on which of them a DMA channel can be at *)
(* work.  It follows that no channel moves words of a freed buffer and     *)
(* that nothing but a buffer allocated before its try is ever left behind. *)
(* Then, whatever the cache fetches, evicts or writes back: what a program *)
(* compares is the row the overlay computed from the frame just sent,      *)
(* under the profile of the towers in hand; and a program that meets no    *)
(* failure finds every comparison equal, reports success and has then      *)
(* written for every tower the row of its own pair.                        *)
(***************************************************************************)
EXTENDS HostRunners, TLAPS

-----------------------------------------------------------------------------
RunLabels == {"runFrame", "arm", "send", "sending", "receiving", "validate"}

(* Buffers held, those of them under a finally clause, by program.         *)
RelinHeld ==
  /\ pc \in {"prepare", "profileBuffer", "sendBuffer", "receiveBuffer", "fillProfile",
             "sendProfile", "sendingOnly", "fillFrame", "finally", "ended"} \union RunLabels
  /\ held = guarded
  /\ pc \in {"prepare", "profileBuffer", "ended"} => held = {}
  /\ pc = "sendBuffer" => held = {Profile}
  /\ pc = "receiveBuffer" => held = {Profile, Send}
  /\ pc \in {"fillProfile", "sendProfile", "sendingOnly", "fillFrame"} \union RunLabels =>
       held = Buffers

BatchHeld ==
  /\ pc \in {"prepare", "pair", "profileBuffer", "fillProfile", "sendProfile",
             "sendingOnly", "freeProfile", "sendBuffer", "receiveBuffer", "fillFrame",
             "write", "freePair", "finally", "ended"} \union RunLabels
  /\ pc \in {"prepare", "pair", "profileBuffer", "sendBuffer"} => held = {} /\ guarded = {}
  /\ pc \in {"fillProfile", "sendProfile", "sendingOnly", "freeProfile"} =>
       held = {Profile} /\ guarded = {Profile}
  /\ pc = "receiveBuffer" => held = {Send} /\ guarded = {}
  /\ pc \in {"fillFrame", "write", "freePair"} \union RunLabels =>
       held = {Send, Receive} /\ guarded = {Send, Receive}

TowerHeld ==
  /\ pc \in {"prepare", "sendBuffer", "receiveBuffer", "fillFrame", "write", "finally",
             "ended"} \union RunLabels
  /\ pc \in {"prepare", "sendBuffer"} => held = {} /\ guarded = {}
  /\ pc = "receiveBuffer" => held = {Send} /\ guarded = {}
  /\ pc \in {"fillFrame", "write"} \union RunLabels =>
       held = {Send, Receive} /\ guarded = {Send, Receive}

TwoTowerHeld ==
  /\ pc \in {"prepare", "profileBuffer", "sendBuffer", "receiveBuffer", "fillProfile",
             "fillFrame", "sendProfile", "sendingOnly", "write", "finally",
             "ended"} \union RunLabels
  /\ pc \in {"prepare", "profileBuffer"} => held = {} /\ guarded = {}
  /\ pc = "sendBuffer" => held = {Profile} /\ guarded = {}
  /\ pc = "receiveBuffer" => held = {Profile, Send} /\ guarded = {}
  /\ pc \in {"fillProfile", "fillFrame", "sendProfile", "sendingOnly", "write"}
       \union RunLabels => held = Buffers /\ guarded = Buffers

AllPairsHeld ==
  /\ pc \in {"prepare", "profileBuffer", "fillProfile", "sendProfile", "sendingOnly",
             "freeProfile", "sendBuffer", "fillFrame", "receiveBuffer", "finally",
             "ended"} \union RunLabels
  /\ held = guarded
  /\ pc \in {"prepare", "profileBuffer", "sendBuffer", "ended"} => held = {}
  /\ pc \in {"fillProfile", "sendProfile", "sendingOnly", "freeProfile"} =>
       held = {Profile}
  /\ pc \in {"fillFrame", "receiveBuffer"} => held = {Send}
  /\ pc \in RunLabels => held = {Send, Receive}

HeldInv ==
  /\ program \in AllPrograms
  /\ program \in RelinPrograms => RelinHeld
  /\ program \in BatchPrograms => BatchHeld
  /\ program = "tower" => TowerHeld
  /\ program = "two_tower" => TwoTowerHeld
  /\ program = "evalmul3_allpairs" => AllPairsHeld
  /\ program \in Scripts => pc \in {"prepare", "pack", "ended"} /\ held = {}
  /\ pc = "finally" => /\ held \ guarded \subseteq AllocatedBeforeTry
                       /\ outcome = "raised" \/ held \subseteq guarded
  /\ pc = "ended" => /\ held \subseteq AllocatedBeforeTry
                     /\ outcome = "passed" => held = {}

(* Where a channel can be at work, and on which buffer; a failure leads to *)
(* the end.                                                                *)
ChannelInv ==
  /\ failures \in Nat
  /\ failures # 0 => pc \in {"finally", "ended"}
  /\ (failures = 0 /\ mm2s # NoBuffer) =>
       (pc = "sendingOnly" /\ mm2s = Profile) \/ (pc = "sending" /\ mm2s = Send)
  /\ (failures = 0 /\ s2mm # NoBuffer) =>
       pc \in {"send", "sending", "receiving"} /\ s2mm = Receive

IInv == HeldInv /\ ChannelInv

-----------------------------------------------------------------------------
(* The steps all programs are made of keep the channels in step.           *)
LEMMA AllocateChannel ==
  ASSUME ChannelInv, NEW here, NEW b, NEW tried, NEW aligned, NEW next,
         Allocate(here, b, tried, aligned, next),
         here \notin {"finally", "ended", "sendingOnly", "send", "sending", "receiving"}
  PROVE  ChannelInv'
BY DEF ChannelInv, Allocate, At, Goto, Fail, Raise, dmaVars

LEMMA FillChannel ==
  ASSUME ChannelInv, NEW here, NEW b, NEW frame, NEW next, Fill(here, b, frame, next),
         here \notin {"finally", "ended", "sendingOnly", "send", "sending", "receiving"}
  PROVE  ChannelInv'
BY DEF ChannelInv, Fill, At, Goto, dmaVars

LEMMA SendOnlyChannel ==
  ASSUME ChannelInv, SendOnly("sendProfile", Profile)
  PROVE  ChannelInv'
BY DEF ChannelInv, SendOnly, At, Goto

LEMMA SentOnlyChannel ==
  ASSUME ChannelInv, NEW next, SentOnly(next)
  PROVE  ChannelInv'
BY DEF ChannelInv, SentOnly, At, Goto, dmaVars

LEMMA RunFrameChannel == ASSUME ChannelInv, RunFrame PROVE ChannelInv'
<1>1. CASE ZeroReceive
  BY <1>1, FillChannel DEF ZeroReceive
<1>2. CASE Arm
  BY <1>2 DEF ChannelInv, Arm, At, Goto
<1>3. CASE SendFrame
  BY <1>3 DEF ChannelInv, SendFrame, At, Goto
<1>4. CASE FrameSent
  BY <1>4 DEF ChannelInv, FrameSent, At, Goto, dmaVars
<1>5. CASE Received
  BY <1>5 DEF ChannelInv, Received, At, Goto, dmaVars
<1>6. QED BY <1>1, <1>2, <1>3, <1>4, <1>5 DEF RunFrame

LEMMA FinallyChannel == ASSUME ChannelInv, Finally PROVE ChannelInv'
BY DEF ChannelInv, Finally, At, dmaVars

(* ... and run_frame holds what it is given.                               *)
LEMMA RunFrameKeeps ==
  ASSUME RunFrame
  PROVE  /\ pc \in RunLabels /\ pc' \in RunLabels
         /\ UNCHANGED <<program, held, guarded, outcome>>
BY DEF RunFrame, ZeroReceive, Fill, Arm, SendFrame, FrameSent, Received, At, Goto,
       RunLabels, progVars, heapVars

-----------------------------------------------------------------------------
(* The relinearization programs.                                           *)
LEMMA RelinStep == ASSUME IInv, RelinNext PROVE IInv'
<1> USE DEF IInv
<1>a. program \in RelinPrograms /\ (PrepareRelin \/ AllocateRelin \/ Batch \/ Finally)
  BY DEF RelinNext, RelinPrograms, DrainOverlap, CoefficientMajorSetup,
         CoefficientMajorBatch, PingpongSetup, PingpongBatch, RelinearizedSetup,
         RelinearizedBatch
<1>b. RelinHeld /\ program \notin BatchPrograms \union ProductPrograms \union Scripts
  BY <1>a DEF HeldInv, RelinPrograms, BatchPrograms, ProductPrograms, Scripts
<1>c. ASSUME RelinHeld', UNCHANGED program,
             pc' = "finally" => outcome' = "raised" \/ held' = guarded'
      PROVE  HeldInv'
  BY <1>a, <1>b, <1>c DEF HeldInv, RelinHeld, ProductPrograms, RunLabels
<1>1. CASE PrepareRelin
  <2>1. ChannelInv'
    BY <1>1 DEF ChannelInv, PrepareRelin, At, Goto, dmaVars
  <2>2. RelinHeld' /\ UNCHANGED program /\ pc' # "finally"
    BY <1>1, <1>b DEF RelinHeld, RunLabels, PrepareRelin, At, Goto, heapVars, progVars
  <2>3. QED BY <2>1, <2>2, <1>c
<1>2. CASE AllocateRelin
  <2>1. ChannelInv'
    BY <1>2, AllocateChannel DEF AllocateRelin
  <2>2. /\ RelinHeld' /\ UNCHANGED program
        /\ pc' = "finally" => outcome' = "raised"
    BY <1>2, <1>b DEF RelinHeld, RunLabels, AllocateRelin, Allocate, At, Goto, Fail, Raise,
       heapVars, progVars, Buffers
  <2>3. QED BY <2>1, <2>2, <1>c
<1>3. CASE Batch
  <2>1. CASE UploadProfile \/ FillBatch
    <3>1. ChannelInv'
      BY <2>1, FillChannel, SendOnlyChannel, SentOnlyChannel DEF UploadProfile, FillBatch
    <3>2. RelinHeld' /\ UNCHANGED program /\ pc' # "finally"
      BY <2>1, <1>b DEF RelinHeld, RunLabels, UploadProfile, FillBatch, Fill, SendOnly,
         SentOnly, At, Goto, heapVars, progVars
    <3>3. QED BY <3>1, <3>2, <1>c
  <2>2. CASE RunFrame
    <3>1. RelinHeld' /\ UNCHANGED program /\ pc' # "finally"
      BY <2>2, <1>b, RunFrameKeeps DEF RelinHeld, RunLabels
    <3>2. QED BY <2>2, <3>1, <1>c, RunFrameChannel
  <2>3. CASE ValidateRelin
    <3>1. /\ pc = "validate" /\ pc' \in {"fillProfile", "finally"}
          /\ UNCHANGED <<program, held, guarded, mm2s, s2mm, failures>>
      BY <2>3 DEF ValidateRelin, Validate, NextPair, At, Goto, Raise, progVars, heapVars,
         dmaVars
    <3>2. ChannelInv'
      BY <3>1 DEF ChannelInv
    <3>3. RelinHeld'
      BY <3>1, <1>b DEF RelinHeld, RunLabels
    <3>4. QED BY <3>1, <3>2, <3>3, <1>b, <1>c DEF RelinHeld
  <2>4. QED BY <1>3, <2>1, <2>2, <2>3 DEF Batch
<1>4. CASE Finally
  <2>1. RelinHeld' /\ UNCHANGED program /\ pc' # "finally"
    BY <1>4, <1>b DEF RelinHeld, RunLabels, Finally, At, progVars
  <2>2. QED BY <1>4, <2>1, <1>c, FinallyChannel
<1>5. QED BY <1>a, <1>1, <1>2, <1>3, <1>4

(* The programs that take the pairs one by one.                            *)
LEMMA BatchStep == ASSUME IInv, BatchNext PROVE IInv'
<1> USE DEF IInv
<1>a. /\ program \in BatchPrograms
      /\ PrepareBatch \/ BeginPair \/ UploadIfNew \/ AllocatePair \/ RunPair \/ Finally
  BY DEF BatchNext, BatchPrograms, MultitowerUpload, MultitowerPairs, CiphertextUpload,
         CiphertextPairs, EvalMul3Upload, EvalMul3Pairs
<1>b. BatchHeld /\ program \notin RelinPrograms \union ProductPrograms \union Scripts
  BY <1>a DEF HeldInv, RelinPrograms, BatchPrograms, ProductPrograms, Scripts
<1>c. AllocatedBeforeTry = {Send} /\ (UNCHANGED program => AllocatedBeforeTry' = {Send})
  BY <1>b DEF AllocatedBeforeTry, ProductPrograms
<1>d. ASSUME BatchHeld', UNCHANGED program,
             pc' = "finally" => /\ held' \ guarded' \subseteq {Send}
                                /\ outcome' = "raised" \/ held' \subseteq guarded',
             pc' = "ended" => held' \subseteq {Send} /\ (outcome' = "passed" => held' = {})
      PROVE  HeldInv'
  BY <1>a, <1>b, <1>c, <1>d DEF HeldInv, ProductPrograms
<1>1. CASE PrepareBatch \/ BeginPair
  <2>1. ChannelInv'
    BY <1>1 DEF ChannelInv, PrepareBatch, BeginPair, At, Goto, dmaVars
  <2>2. BatchHeld' /\ UNCHANGED program /\ pc' \notin {"finally", "ended"}
    BY <1>1, <1>b DEF BatchHeld, RunLabels, PrepareBatch, BeginPair, At, Goto, heapVars,
       progVars
  <2>3. QED BY <2>1, <2>2, <1>d
<1>2. CASE UploadIfNew
  <2>1. ChannelInv'
    <3>1. CASE FreeProfile
      BY <3>1 DEF ChannelInv, FreeProfile, At, Goto, dmaVars
    <3>2. QED BY <1>2, <3>1, AllocateChannel, FillChannel, SendOnlyChannel, SentOnlyChannel
              DEF UploadIfNew
  <2>2. /\ BatchHeld' /\ UNCHANGED program /\ pc' # "ended"
        /\ pc' = "finally" => outcome' = "raised" /\ held' = guarded'
    BY <1>2, <1>b DEF BatchHeld, RunLabels, UploadIfNew, Allocate, Fill, SendOnly, SentOnly,
       FreeProfile, At, Goto, Fail, Raise, heapVars, progVars
  <2>3. QED BY <2>1, <2>2, <1>d
<1>3. CASE AllocatePair
  <2>1. ChannelInv'
    BY <1>3, AllocateChannel DEF AllocatePair
  <2>2. /\ BatchHeld' /\ UNCHANGED program /\ pc' # "ended"
        /\ pc' = "finally" => outcome' = "raised" /\ held' \ guarded' \subseteq {Send}
    BY <1>3, <1>b DEF BatchHeld, RunLabels, AllocatePair, Allocate, At, Goto, Fail, Raise,
       heapVars, progVars
  <2>3. QED BY <2>1, <2>2, <1>d
<1>4. CASE RunPair
  <2>1. CASE FillPair
    <3>1. ChannelInv'
      BY <2>1, FillChannel DEF FillPair
    <3>2. BatchHeld' /\ UNCHANGED program /\ pc' \notin {"finally", "ended"}
      BY <2>1, <1>b DEF BatchHeld, RunLabels, FillPair, Fill, At, Goto, heapVars, progVars
    <3>3. QED BY <3>1, <3>2, <1>d
  <2>2. CASE RunFrame
    <3>1. BatchHeld' /\ UNCHANGED program /\ pc' \notin {"finally", "ended"}
      BY <2>2, <1>b, RunFrameKeeps DEF BatchHeld, RunLabels
    <3>2. QED BY <2>2, <3>1, <1>d, RunFrameChannel
  <2>3. CASE ValidatePair
    <3>1. /\ pc = "validate" /\ pc' \in {"write", "runFrame", "finally"}
          /\ pc' = "finally" => outcome' = "raised"
          /\ UNCHANGED <<program, held, guarded, mm2s, s2mm, failures>>
      BY <2>3 DEF ValidatePair, Validate, At, Goto, Raise, progVars, heapVars, dmaVars
    <3>2. ChannelInv'
      BY <3>1 DEF ChannelInv
    <3>3. BatchHeld' /\ held = guarded
      BY <3>1, <1>b DEF BatchHeld, RunLabels
    <3>4. QED BY <3>1, <3>2, <3>3, <1>d
  <2>4. CASE WritePair
    <3>1. /\ pc = "write" /\ pc' = "freePair"
          /\ UNCHANGED <<program, held, guarded, mm2s, s2mm, failures>>
      BY <2>4 DEF WritePair, At, Goto, progVars, heapVars, dmaVars
    <3>2. ChannelInv' /\ BatchHeld'
      BY <3>1, <1>b DEF ChannelInv, BatchHeld, RunLabels
    <3>3. QED BY <3>1, <3>2, <1>d
  <2>5. CASE EndPair
    <3>1. /\ pc = "freePair" /\ pc' \in {"pair", "finally"}
          /\ held' = held \ {Send, Receive} /\ guarded' = guarded \ {Send, Receive}
          /\ UNCHANGED <<program, mm2s, s2mm, failures>>
      BY <2>5 DEF EndPair, At, Goto, progVars, dmaVars
    <3>2. ChannelInv' /\ BatchHeld' /\ held' = {}
      BY <3>1, <1>b DEF ChannelInv, BatchHeld, RunLabels
    <3>3. QED BY <3>1, <3>2, <1>d
  <2>6. QED BY <1>4, <2>1, <2>2, <2>3, <2>4, <2>5 DEF RunPair
<1>5. CASE Finally
  <2>1. BatchHeld' /\ UNCHANGED program /\ pc' # "finally"
    BY <1>5, <1>b DEF BatchHeld, RunLabels, Finally, At, progVars
  <2>2. held' \subseteq {Send} /\ (outcome' = "passed" => held' = {})
    BY <1>5, <1>c DEF HeldInv, Finally, At
  <2>3. QED BY <1>5, <2>1, <2>2, <1>d, FinallyChannel
<1>6. QED BY <1>a, <1>1, <1>2, <1>3, <1>4, <1>5

(* run_fpga_tower.py.                                                      *)
LEMMA TowerStep == ASSUME IInv, Tower PROVE IInv'
<1> USE DEF IInv
<1>a. program = "tower"
  BY DEF Tower
<1>b. TowerHeld /\ program \notin RelinPrograms \union BatchPrograms \union Scripts
  BY <1>a DEF HeldInv, RelinPrograms, BatchPrograms, Scripts
<1>c. AllocatedBeforeTry = {Send} /\ (UNCHANGED program => AllocatedBeforeTry' = {Send})
  BY <1>a, <1>b DEF AllocatedBeforeTry
<1>d. ASSUME TowerHeld', UNCHANGED program,
             pc' = "finally" => /\ held' \ guarded' \subseteq {Send}
                                /\ outcome' = "raised" \/ held' \subseteq guarded',
             pc' = "ended" => held' \subseteq {Send} /\ (outcome' = "passed" => held' = {})
      PROVE  HeldInv'
  BY <1>a, <1>b, <1>c, <1>d DEF HeldInv
<1>1. CASE PrepareTower
  <2>1. ChannelInv' /\ TowerHeld' /\ UNCHANGED program /\ pc' \notin {"finally", "ended"}
    BY <1>1, <1>b DEF ChannelInv, TowerHeld, RunLabels, PrepareTower, At, Goto, heapVars,
       progVars
  <2>2. QED BY <2>1, <1>d
<1>2. CASE RunTower
  <2>1. CASE RunFrame
    <3>1. TowerHeld' /\ UNCHANGED program /\ pc' \notin {"finally", "ended"}
      BY <2>1, <1>b, RunFrameKeeps DEF TowerHeld, RunLabels
    <3>2. QED BY <2>1, <3>1, <1>d, RunFrameChannel
  <2>2. CASE \/ Allocate("sendBuffer", Send, {}, FALSE, "receiveBuffer")
             \/ Allocate("receiveBuffer", Receive, {Send, Receive}, FALSE, "fillFrame")
             \/ Fill("fillFrame", Send, DataFrame(0), "runFrame")
    <3>1. ChannelInv'
      BY <2>2, AllocateChannel, FillChannel
    <3>2. /\ TowerHeld' /\ UNCHANGED program /\ pc' # "ended"
          /\ pc' = "finally" => outcome' = "raised" /\ held' \ guarded' \subseteq {Send}
      BY <2>2, <1>b DEF TowerHeld, RunLabels, Allocate, Fill, At, Goto, Fail, Raise,
         heapVars, progVars
    <3>3. QED BY <3>1, <3>2, <1>d
  <2>3. QED BY <1>2, <2>1, <2>2 DEF RunTower
<1>3. CASE ValidateTower \/ WriteTower
  <2>1. /\ \/ pc = "validate" /\ pc' \in {"write", "runFrame", "finally"}
           \/ pc = "write" /\ pc' = "finally"
        /\ UNCHANGED <<program, held, guarded, mm2s, s2mm, failures>>
    BY <1>3 DEF ValidateTower, Validate, RunAgain, WriteTower, At, Goto, Raise, progVars,
       heapVars, dmaVars
  <2>2. ChannelInv' /\ TowerHeld' /\ held = guarded
    BY <2>1, <1>b DEF ChannelInv, TowerHeld, RunLabels
  <2>3. QED BY <2>1, <2>2, <1>d
<1>4. CASE Finally
  <2>1. TowerHeld' /\ UNCHANGED program /\ pc' # "finally"
    BY <1>4, <1>b DEF TowerHeld, RunLabels, Finally, At, progVars
  <2>2. held' \subseteq {Send} /\ (outcome' = "passed" => held' = {})
    BY <1>4, <1>c DEF HeldInv, Finally, At
  <2>3. QED BY <1>4, <2>1, <2>2, <1>d, FinallyChannel
<1>5. QED BY <1>1, <1>2, <1>3, <1>4 DEF Tower

(* run_two_tower_fpga.py.                                                  *)
LEMMA TwoTowerStep == ASSUME IInv, TwoTower PROVE IInv'
<1> USE DEF IInv
<1>a. program = "two_tower"
  BY DEF TwoTower
<1>b. TwoTowerHeld /\ program \notin RelinPrograms \union BatchPrograms \union Scripts
  BY <1>a DEF HeldInv, RelinPrograms, BatchPrograms, Scripts
<1>c. /\ AllocatedBeforeTry = {Profile, Send}
      /\ UNCHANGED program => AllocatedBeforeTry' = {Profile, Send}
  BY <1>a, <1>b DEF AllocatedBeforeTry
<1>d. ASSUME TwoTowerHeld', UNCHANGED program,
             pc' = "finally" => /\ held' \ guarded' \subseteq {Profile, Send}
                                /\ outcome' = "raised" \/ held' \subseteq guarded',
             pc' = "ended" => /\ held' \subseteq {Profile, Send}
                              /\ outcome' = "passed" => held' = {}
      PROVE  HeldInv'
  BY <1>a, <1>b, <1>c, <1>d DEF HeldInv
<1>1. CASE PrepareTwoTower
  <2>1. ChannelInv' /\ TwoTowerHeld' /\ UNCHANGED program /\ pc' \notin {"finally", "ended"}
    BY <1>1, <1>b DEF ChannelInv, TwoTowerHeld, RunLabels, PrepareTwoTower, At, Goto,
       heapVars, progVars, dmaVars
  <2>2. QED BY <2>1, <1>d
<1>2. CASE AllocateTwoTower
  <2>1. ChannelInv'
    BY <1>2, AllocateChannel DEF AllocateTwoTower
  <2>2. /\ TwoTowerHeld' /\ UNCHANGED program /\ pc' # "ended"
        /\ pc' = "finally" =>
             outcome' = "raised" /\ held' \ guarded' \subseteq {Profile, Send}
    BY <1>2, <1>b DEF TwoTowerHeld, RunLabels, AllocateTwoTower, Allocate, At, Goto, Fail,
       Raise, heapVars, progVars, Buffers
  <2>3. QED BY <2>1, <2>2, <1>d
<1>3. CASE RunTwoTower
  <2>1. CASE RunFrame
    <3>1. TwoTowerHeld' /\ UNCHANGED program /\ pc' \notin {"finally", "ended"}
      BY <2>1, <1>b, RunFrameKeeps DEF TwoTowerHeld, RunLabels
    <3>2. QED BY <2>1, <3>1, <1>d, RunFrameChannel
  <2>2. CASE \/ Fill("fillProfile", Profile, ProfileFrame(TowerTables(pair)), "fillFrame")
             \/ Fill("fillFrame", Send, DataFrame(pair), "sendProfile")
             \/ SendOnly("sendProfile", Profile)
             \/ SentOnly("runFrame")
    <3>1. ChannelInv'
      BY <2>2, FillChannel, SendOnlyChannel, SentOnlyChannel
    <3>2. TwoTowerHeld' /\ UNCHANGED program /\ pc' \notin {"finally", "ended"}
      BY <2>2, <1>b DEF TwoTowerHeld, RunLabels, Fill, SendOnly, SentOnly, At, Goto,
         heapVars, progVars
    <3>3. QED BY <3>1, <3>2, <1>d
  <2>3. CASE Validate(pair, TowerTables(pair), RunAgain("write") /\ UNCHANGED files)
    <3>1. /\ pc = "validate" /\ pc' \in {"write", "runFrame", "finally"}
          /\ UNCHANGED <<program, held, guarded, mm2s, s2mm, failures>>
      BY <2>3 DEF Validate, RunAgain, At, Goto, Raise, progVars, heapVars, dmaVars
    <3>2. ChannelInv' /\ TwoTowerHeld' /\ held = guarded
      BY <3>1, <1>b DEF ChannelInv, TwoTowerHeld, RunLabels
    <3>3. QED BY <3>1, <3>2, <1>d
  <2>4. QED BY <1>3, <2>1, <2>2, <2>3 DEF RunTwoTower
<1>4. CASE WriteTwoTower
  <2>1. /\ pc = "write" /\ pc' \in {"fillProfile", "finally"}
        /\ UNCHANGED <<program, held, guarded, mm2s, s2mm, failures>>
    BY <1>4 DEF WriteTwoTower, At, Goto, progVars, heapVars, dmaVars
  <2>2. ChannelInv' /\ TwoTowerHeld' /\ held = guarded
    BY <2>1, <1>b DEF ChannelInv, TwoTowerHeld, RunLabels
  <2>3. QED BY <2>1, <2>2, <1>d
<1>5. CASE Finally
  <2>1. TwoTowerHeld' /\ UNCHANGED program /\ pc' # "finally"
    BY <1>5, <1>b DEF TwoTowerHeld, RunLabels, Finally, At, progVars
  <2>2. held' \subseteq {Profile, Send} /\ (outcome' = "passed" => held' = {})
    BY <1>5, <1>c DEF HeldInv, Finally, At
  <2>3. QED BY <1>5, <2>1, <2>2, <1>d, FinallyChannel
<1>6. QED BY <1>1, <1>2, <1>3, <1>4, <1>5 DEF TwoTower

(* run_fpga_evalmul3_allpairs.py.                                          *)
LEMMA AllPairsStep == ASSUME IInv, EvalMul3AllPairs PROVE IInv'
<1> USE DEF IInv
<1>a. program = "evalmul3_allpairs"
  BY DEF EvalMul3AllPairs
<1>b. AllPairsHeld /\ program \notin RelinPrograms \union BatchPrograms \union Scripts
  BY <1>a DEF HeldInv, RelinPrograms, BatchPrograms, Scripts
<1>c. ASSUME AllPairsHeld', UNCHANGED program
      PROVE  HeldInv'
  BY <1>a, <1>b, <1>c DEF HeldInv, AllPairsHeld
<1>1. CASE UploadTable
  <2>1. ChannelInv'
    <3>1. CASE Free("freeProfile", {Profile}, "sendBuffer")
      BY <3>1 DEF ChannelInv, Free, At, Goto, dmaVars
    <3>2. CASE At("prepare") /\ Goto("profileBuffer") /\ UNCHANGED <<dmaVars, failures>>
      BY <3>2 DEF ChannelInv, At, Goto, dmaVars
    <3>3. QED BY <1>1, <3>1, <3>2, AllocateChannel, FillChannel, SendOnlyChannel,
              SentOnlyChannel DEF UploadTable
  <2>2. AllPairsHeld' /\ UNCHANGED program
    BY <1>1, <1>b DEF AllPairsHeld, RunLabels, UploadTable, Allocate, Fill, SendOnly,
       SentOnly, Free, At, Goto, Fail, Raise, heapVars, progVars
  <2>3. QED BY <2>1, <2>2, <1>c
<1>2. CASE RunAllPairs
  <2>1. CASE RunFrame
    <3>1. AllPairsHeld' /\ UNCHANGED program
      BY <2>1, <1>b, RunFrameKeeps DEF AllPairsHeld, RunLabels
    <3>2. QED BY <2>1, <3>1, <1>c, RunFrameChannel
  <2>2. CASE \/ Allocate("sendBuffer", Send, {Send}, TRUE, "fillFrame")
             \/ Fill("fillFrame", Send, DataFrame(AllPairs), "receiveBuffer")
             \/ Allocate("receiveBuffer", Receive, {Receive}, TRUE, "runFrame")
    <3>1. ChannelInv'
      BY <2>2, AllocateChannel, FillChannel
    <3>2. AllPairsHeld' /\ UNCHANGED program
      BY <2>2, <1>b DEF AllPairsHeld, RunLabels, Allocate, Fill, At, Goto, Fail, Raise,
         heapVars, progVars
    <3>3. QED BY <3>1, <3>2, <1>c
  <2>3. QED BY <1>2, <2>1, <2>2 DEF RunAllPairs
<1>3. CASE ValidateAllPairs
  <2>1. /\ pc = "validate" /\ pc' \in {"runFrame", "finally"}
        /\ UNCHANGED <<program, held, guarded, mm2s, s2mm, failures>>
    BY <1>3 DEF ValidateAllPairs, RunAgain, At, Goto, Raise, progVars, heapVars,
       dmaVars
  <2>2. ChannelInv' /\ AllPairsHeld'
    BY <2>1, <1>b DEF ChannelInv, AllPairsHeld, RunLabels
  <2>3. QED BY <2>1, <2>2, <1>c
<1>4. CASE Finally
  <2>1. AllPairsHeld' /\ UNCHANGED program
    BY <1>4, <1>b DEF AllPairsHeld, RunLabels, Finally, At, progVars
  <2>2. QED BY <1>4, <2>1, <1>c, FinallyChannel
<1>5. QED BY <1>1, <1>2, <1>3, <1>4 DEF EvalMul3AllPairs

-----------------------------------------------------------------------------
(* A wait that raises leads to the finally clauses with everything in use  *)
(* under one of them.                                                      *)
LEMMA WaitStep == ASSUME IInv, WaitRaises PROVE IInv'
<1>1. /\ pc \in {"sendingOnly", "sending", "receiving"} /\ pc' = "finally"
      /\ outcome' = "raised" /\ failures' = failures + 1
      /\ UNCHANGED <<program, held, guarded>>
  BY DEF WaitRaises, Fail, Raise, progVars, heapVars
<1>2. ChannelInv'
  BY <1>1 DEF IInv, ChannelInv
<1>3. program \notin Scripts /\ held = guarded
  BY <1>1 DEF IInv, HeldInv, AllPrograms, Runners, ProductPrograms, RelinHeld, BatchHeld,
     TowerHeld, TwoTowerHeld, AllPairsHeld, RunLabels, RelinPrograms, BatchPrograms, Scripts
<1>4. HeldInv'
  BY <1>1, <1>3 DEF IInv, HeldInv, RelinHeld, BatchHeld, TowerHeld, TwoTowerHeld,
     AllPairsHeld, RunLabels, AllocatedBeforeTry
<1>5. QED BY <1>2, <1>4 DEF IInv

(* The scripts neither allocate nor transfer anything.                     *)
LEMMA VectorStep == ASSUME IInv, VectorNext PROVE IInv'
<1>1. /\ program \in Scripts /\ pc \in {"prepare", "pack"} /\ pc' \in {"pack", "ended"}
      /\ UNCHANGED <<program, held, guarded, mm2s, s2mm, failures>>
  BY DEF VectorNext, PrepareRelinearized, PrepareKeyswitchMac, PrepareCoefficientMajor,
     PrepareIf, Emit, At, Goto, Scripts, progVars, heapVars, dmaVars
<1>2. program \notin RelinPrograms \union BatchPrograms \union ProductPrograms
  BY <1>1 DEF Scripts, RelinPrograms, BatchPrograms, ProductPrograms
<1>3. ChannelInv'
  BY <1>1 DEF IInv, ChannelInv
<1>4. HeldInv'
  BY <1>1, <1>2 DEF IInv, HeldInv, ProductPrograms
<1>5. QED BY <1>3, <1>4 DEF IInv

(* Nor do the overlay and the cache disturb what a program holds.          *)
LEMMA OverlayStep == ASSUME IInv, Consume \/ Deliver \/ Evict \/ Fetch PROVE IInv'
<1>1. /\ UNCHANGED <<program, pc, outcome, held, guarded, failures>>
      /\ mm2s' \in {mm2s, NoBuffer} /\ s2mm' \in {s2mm, NoBuffer}
  BY DEF Consume, Deliver, Evict, Fetch, progVars, heapVars, dmaVars
<1>2. ChannelInv'
  BY <1>1 DEF IInv, ChannelInv
<1>3. HeldInv'
  BY <1>1 DEF IInv, HeldInv, RelinHeld, BatchHeld, TowerHeld, TwoTowerHeld, AllPairsHeld,
     AllocatedBeforeTry
<1>4. QED BY <1>2, <1>3 DEF IInv

-----------------------------------------------------------------------------
LEMMA InitIInv == Init => IInv
<1> SUFFICES ASSUME Init PROVE IInv
  OBVIOUS
<1>1. HeldInv
  BY RunnersAssumption DEF Init, PlatformInit, HeldInv, RelinHeld, BatchHeld, TowerHeld,
     TwoTowerHeld, AllPairsHeld, RunLabels
<1>2. ChannelInv
  BY DEF Init, PlatformInit, ChannelInv
<1>3. QED BY <1>1, <1>2 DEF IInv

LEMMA Inductive == IInv /\ [Next]_HostVars => IInv'
<1> SUFFICES ASSUME IInv, [Next]_HostVars PROVE IInv'
  OBVIOUS
<1>1. CASE Next
  BY <1>1, RelinStep, BatchStep, TowerStep, TwoTowerStep, AllPairsStep, WaitStep, VectorStep,
     OverlayStep DEF Next, HostNext, RunnerNext, WaitFails, DeviceNext, CacheNext, ProductNext
<1>2. CASE UNCHANGED HostVars
  BY <1>2 DEF HostVars, vars, progVars, heapVars, dmaVars, IInv, HeldInv, ChannelInv, RelinHeld,
     BatchHeld, TowerHeld, TwoTowerHeld, AllPairsHeld, AllocatedBeforeTry
<1>3. QED BY <1>1, <1>2

LEMMA Invariant == Spec => []IInv
<1>1. QED BY InitIInv, Inductive, PTL DEF Spec

(* No channel that has not failed moves words of a freed buffer, whichever *)
(* of the ten programs runs; and at its end a program holds no buffer, but *)
(* for those it had allocated before the try that would free them.         *)
THEOREM RunnersBuffersSafe == Spec => []BuffersSafe
<1>1. IInv => BuffersSafe
  <2> SUFFICES ASSUME IInv PROVE BuffersSafe
    OBVIOUS
  <2>1. pc = "sendingOnly" => Profile \in held
    BY DEF IInv, HeldInv, AllPrograms, Runners, ProductPrograms, Scripts, RelinHeld, BatchHeld,
       TowerHeld, TwoTowerHeld, AllPairsHeld, RunLabels, Buffers
  <2>2. pc \in {"send", "sending", "receiving"} => Send \in held /\ Receive \in held
    BY DEF IInv, HeldInv, AllPrograms, Runners, ProductPrograms, Scripts, RelinHeld, BatchHeld,
       TowerHeld, TwoTowerHeld, AllPairsHeld, RunLabels, Buffers
  <2>3. failures = 0 => {mm2s, s2mm} \ {NoBuffer} \subseteq held
    BY <2>1, <2>2 DEF IInv, ChannelInv
  <2>4. QED BY <2>3 DEF IInv, HeldInv, BuffersSafe
<1>2. QED BY <1>1, Invariant, PTL

-----------------------------------------------------------------------------
(* Memory seen from the program: what it wrote last, written back or not.  *)
Typed(m) == /\ DOMAIN m = {"dram", "cache", "dirty"}
            /\ DOMAIN m.dram = Buffers /\ DOMAIN m.cache = Buffers
Current(m, b) == IF b \in m.dirty THEN m.cache[b] ELSE m.dram[b]

LEMMA BuffersDiffer ==
  Profile # Send /\ Profile # Receive /\ Send # Receive /\ NoBuffer \notin Buffers
BY DEF Profile, Send, Receive, NoBuffer, Buffers

LEMMA WriteEffect ==
  ASSUME NEW m, Typed(m), NEW b \in Buffers, NEW data
  PROVE  /\ Typed(Write(m, b, data))
         /\ Current(Write(m, b, data), b) = data
         /\ \A x \in Buffers \ {b} : Current(Write(m, b, data), x) = Current(m, x)
BY DEF Typed, Current, Write

LEMMA FlushEffect ==
  ASSUME NEW m, Typed(m), NEW b \in Buffers
  PROVE  /\ Typed(Flush(m, b))
         /\ Flush(m, b).dirty = m.dirty \ {b} /\ Flush(m, b).cache = m.cache
         /\ \A x \in Buffers : Current(Flush(m, b), x) = Current(m, x)
         /\ \A x \in Buffers \ m.dirty : Flush(m, b).dram[x] = m.dram[x]
BY DEF Typed, Current, Flush

LEMMA InvalidateEffect ==
  ASSUME NEW m, Typed(m), NEW b \in Buffers
  PROVE  /\ Typed(Invalidate(m, b))
         /\ Invalidate(m, b).dirty = m.dirty \ {b} /\ Invalidate(m, b).dram = m.dram
         /\ Invalidate(m, b).cache[b] = Uncached
         /\ \A x \in Buffers \ {b} : Invalidate(m, b).cache[x] = m.cache[x]
BY DEF Typed, Invalidate

-----------------------------------------------------------------------------
(* What every program keeps: a profile on its way is the one of the towers *)
(* in hand, run_frame's frame is theirs, and the row owed or delivered is  *)
(* the answer to it; neither buffer can be written back over while a       *)
(* channel works on it.                                                    *)
Row == Result(Work, WorkKey, device.frames)

DeliveredRow ==
  \/ device.owed = <<Row>> /\ s2mm = Receive
  \/ device.owed = <<>> /\ s2mm = NoBuffer /\ mem.dram[Receive] = Row

RunInv ==
  /\ pc = "sendProfile" => Current(mem, Profile) = ProfileFrame(WorkKey)
  /\ pc = "sendingOnly" =>
       IF mm2s = NoBuffer THEN device.key = WorkKey
       ELSE Profile \notin mem.dirty /\ mem.dram[Profile] = ProfileFrame(WorkKey)
  /\ pc \in RunLabels => device.key = WorkKey /\ Current(mem, Send) = DataFrame(Work)
  /\ pc \in {"send", "sending", "receiving"} => {Send, Receive} \intersect mem.dirty = {}
  /\ pc = "send" \/ (pc = "sending" /\ mm2s # NoBuffer) =>
       s2mm = Receive /\ device.owed = <<>>
  /\ pc = "receiving" \/ (pc = "sending" /\ mm2s = NoBuffer) => DeliveredRow
  /\ pc \in {"validate", "write"} =>
       /\ Receive \notin mem.dirty /\ mem.dram[Receive] = Row
       /\ mem.cache[Receive] \in {Uncached, Row}
  /\ pc \notin {"sending", "receiving"} => device.owed = <<>>

(* The tables a key names.                                                 *)
TablesNamed(key) == <<[modulus |-> key[1], psi |-> key[2]], [modulus |-> key[3], psi |-> key[4]]>>

(* What each kind of program knows of the overlay's profile and its frame. *)
KeyInv ==
  /\ program \in RelinPrograms => (pc = "fillFrame" => device.key = WorkKey)
  /\ program \in BatchPrograms =>
       /\ pc \in {"freeProfile", "sendBuffer", "receiveBuffer", "fillFrame"} =>
            device.key = WorkKey
       /\ pc \notin {"sendingOnly", "freeProfile"} =>
            program = "evalmul3" \/ loaded = <<>> \/ device.key = TablesNamed(loaded)
       /\ pair \in Nat
  /\ program = "tower" => /\ pair = 0
                          /\ pc # "prepare" => device.key = WorkKey
  /\ program = "two_tower" =>
       /\ pc = "fillFrame" => Current(mem, Profile) = ProfileFrame(WorkKey)
       /\ pc \in {"sendProfile", "sendingOnly"} => Current(mem, Send) = DataFrame(Work)
  /\ program = "evalmul3_allpairs" =>
       /\ pc \in {"freeProfile", "sendBuffer", "fillFrame", "receiveBuffer"} =>
            device.key = WorkKey
       /\ pc = "receiveBuffer" => Current(mem, Send) = DataFrame(Work)

FreshInv ==
  /\ Typed(mem) /\ DOMAIN device = {"key", "frames", "owed"}
  /\ pc \notin {"finally", "ended"} => RunInv /\ KeyInv

-----------------------------------------------------------------------------
(* The steps of run_frame and send_only.                                   *)
LEMMA RunFrameFresh ==
  ASSUME FreshInv, IInv, RunFrame, UNCHANGED <<Work, WorkKey>>
  PROVE  FreshInv'
<1>1. CASE ZeroReceive
  <2>1. /\ pc = "runFrame" /\ pc' = "arm" /\ mem' = Write(mem, Receive, Zero)
        /\ UNCHANGED <<program, pair, loaded, mm2s, s2mm, device>>
    BY <1>1 DEF ZeroReceive, Fill, At, Goto, progVars, loopVars, dmaVars
  <2>2. Typed(mem') /\ Current(mem', Send) = Current(mem, Send)
    BY <2>1, WriteEffect, BuffersDiffer DEF FreshInv, Buffers
  <2>3. QED BY <2>1, <2>2 DEF FreshInv, RunInv, KeyInv, RunLabels
<1>2. CASE Arm
  <2>1. /\ pc = "arm" /\ pc' = "send" /\ mem' = Flush(Flush(mem, Send), Receive)
        /\ s2mm' = Receive
        /\ UNCHANGED <<program, pair, loaded, mm2s, device>>
    BY <1>2 DEF Arm, At, Goto, progVars, loopVars
  <2>2. DEFINE once == Flush(mem, Send)
  <2>3. /\ Typed(once) /\ once.dirty = mem.dirty \ {Send}
        /\ Current(once, Send) = Current(mem, Send)
    BY FlushEffect DEF FreshInv, Buffers
  <2>4. /\ Typed(mem') /\ mem'.dirty = once.dirty \ {Receive}
        /\ Current(mem', Send) = Current(once, Send)
    <3> HIDE DEF once
    <3>1. mem' = Flush(once, Receive)
      BY <2>1 DEF once
    <3>2. QED BY <3>1, <2>3, FlushEffect DEF Buffers
  <2>5. QED BY <2>1, <2>3, <2>4 DEF FreshInv, RunInv, KeyInv, RunLabels
<1>3. CASE SendFrame
  <2>1. /\ pc = "send" /\ pc' = "sending" /\ mm2s' = Send
        /\ UNCHANGED <<program, pair, loaded, mem, s2mm, device>>
    BY <1>3 DEF SendFrame, At, Goto, progVars, loopVars
  <2>2. QED BY <2>1, BuffersDiffer DEF FreshInv, RunInv, KeyInv, RunLabels, Buffers
<1>4. CASE FrameSent
  <2>1. /\ pc = "sending" /\ pc' = "receiving" /\ mm2s = NoBuffer
        /\ UNCHANGED <<program, pair, loaded, mem, mm2s, s2mm, device>>
    BY <1>4 DEF FrameSent, At, Goto, progVars, loopVars, dmaVars
  <2>2. Row' = Row
    BY <2>1 DEF Row
  <2>3. QED BY <2>1, <2>2 DEF FreshInv, RunInv, KeyInv, RunLabels, DeliveredRow
<1>5. CASE Received
  <2>1. /\ pc = "receiving" /\ pc' = "validate" /\ s2mm = NoBuffer
        /\ mem' = Invalidate(mem, Receive)
        /\ UNCHANGED <<program, pair, loaded, mm2s, s2mm, device>>
    BY <1>5 DEF Received, At, Goto, progVars, loopVars, dmaVars
  <2>2. /\ Typed(mem') /\ mem'.dirty = mem.dirty \ {Receive} /\ mem'.dram = mem.dram
        /\ mem'.cache[Receive] = Uncached
    BY <2>1, InvalidateEffect DEF FreshInv, Buffers
  <2>3. Row' = Row
    BY <2>1 DEF Row
  <2>4. device.owed = <<>> /\ mem.dram[Receive] = Row
    BY <2>1, BuffersDiffer DEF FreshInv, RunInv, DeliveredRow, Buffers
  <2>5. Current(mem', Send) = Current(mem, Send)
    BY <2>1, <2>2, BuffersDiffer, InvalidateEffect DEF FreshInv, Current, Buffers
  <2>6. QED BY <2>1, <2>2, <2>3, <2>4, <2>5 DEF FreshInv, RunInv, KeyInv, RunLabels
<1>6. QED BY <1>1, <1>2, <1>3, <1>4, <1>5 DEF RunFrame

LEMMA SendOnlyFresh ==
  ASSUME FreshInv, SendOnly("sendProfile", Profile), UNCHANGED <<Work, WorkKey>>
  PROVE  FreshInv'
<1>1. /\ pc = "sendProfile" /\ pc' = "sendingOnly" /\ mem' = Flush(mem, Profile)
      /\ mm2s' = Profile /\ UNCHANGED <<program, pair, loaded, s2mm, device>>
  BY DEF SendOnly, At, Goto, progVars, loopVars
<1>2. /\ Typed(mem') /\ mem'.dirty = mem.dirty \ {Profile}
      /\ \A x \in Buffers : Current(mem', x) = Current(mem, x)
  BY <1>1, FlushEffect DEF FreshInv, Buffers
<1>3. mem'.dram[Profile] = Current(mem, Profile)
  BY <1>2 DEF Current, Buffers
<1>4. Current(mem', Send) = Current(mem, Send)
  BY <1>2 DEF Buffers
<1>5. QED BY <1>1, <1>2, <1>3, <1>4, BuffersDiffer DEF FreshInv, RunInv, KeyInv, RunLabels, Buffers

(* The overlay takes a frame, delivers a row, and the cache does as it     *)
(* likes.                                                                  *)
LEMMA OverlayFresh ==
  ASSUME FreshInv, IInv, Consume \/ Deliver \/ Evict \/ Fetch
  PROVE  FreshInv'
<1>1. /\ UNCHANGED <<program, moduli, roots, pc, pair, loaded>>
      /\ UNCHANGED <<Work, WorkKey>>
  BY DEF Consume, Deliver, Evict, Fetch, progVars, loopVars, Work, WorkKey,
     OwnProfile, AlwaysUploads, PairModuli, PairTables, TowerTables,
     ModuliTable, PairCount, TowerCount, Tower0, Tower1, Tower1Real
<1>2. pc \notin {"finally", "ended"} => failures = 0
  BY DEF IInv, ChannelInv
<1>3. CASE Consume
  <2>1. /\ mm2s # NoBuffer /\ device.owed = <<>> /\ mm2s' = NoBuffer
        /\ UNCHANGED <<mem, s2mm>>
    BY <1>3 DEF Consume
  <2>2. DOMAIN device' = DOMAIN device
    BY <1>3 DEF Consume, FreshInv
  <2>3. CASE pc = "sendingOnly"
    <3>1. mem.dram[mm2s] = ProfileFrame(WorkKey)
      BY <2>1, <2>3, <1>2 DEF FreshInv, RunInv, IInv, ChannelInv
    <3>2. device' = [device EXCEPT !.key = WorkKey]
      BY <1>3, <3>1 DEF Consume, ProfileFrame
    <3>3. device'.key = WorkKey /\ device'.owed = <<>>
      BY <3>2, <2>1 DEF FreshInv
    <3>4. QED BY <1>1, <2>1, <2>2, <2>3, <3>3 DEF FreshInv, RunInv, KeyInv, RunLabels
  <2>4. CASE pc = "sending"
    <3>1. Current(mem, Send) = DataFrame(Work) /\ Send \notin mem.dirty /\ mm2s = Send
      BY <2>1, <2>4, <1>2 DEF FreshInv, RunInv, RunLabels, IInv, ChannelInv
    <3>2. mem.dram[mm2s] = DataFrame(Work)
      BY <3>1 DEF Current
    <3>3. device' = [device EXCEPT !.frames = @ + 1,
                       !.owed = <<Result(Work, device.key, device.frames + 1)>>]
      BY <1>3, <3>2 DEF Consume, DataFrame
    <3>4. /\ device'.key = device.key /\ device'.frames = device.frames + 1
          /\ device'.owed = <<Result(Work, device.key, device.frames + 1)>>
      BY <3>3 DEF FreshInv
    <3>5. device'.owed = <<Row'>> /\ s2mm' = Receive
      BY <1>1, <2>1, <2>4, <3>4 DEF FreshInv, RunInv, Row, RunLabels
    <3>6. QED BY <1>1, <2>1, <2>2, <2>4, <3>4, <3>5
              DEF FreshInv, RunInv, KeyInv, RunLabels, DeliveredRow
  <2>5. CASE pc \in {"finally", "ended"}
    BY <1>1, <2>1, <2>2, <2>5 DEF FreshInv
  <2>6. QED BY <2>1, <2>3, <2>4, <2>5, <1>2 DEF IInv, ChannelInv
<1>4. CASE Deliver
  <2>1. /\ s2mm # NoBuffer /\ device.owed # <<>> /\ s2mm' = NoBuffer
        /\ mem' = [mem EXCEPT !.dram[s2mm] = Head(device.owed)]
        /\ device' = [device EXCEPT !.owed = Tail(@)] /\ UNCHANGED mm2s
    BY <1>4 DEF Deliver
  <2>2. Typed(mem') /\ DOMAIN device' = DOMAIN device
    BY <2>1 DEF FreshInv, Typed
  <2>3. CASE pc \notin {"finally", "ended"}
    <3>1. pc \in {"sending", "receiving"} /\ device.owed = <<Row>> /\ s2mm = Receive
          /\ (pc = "sending" => mm2s = NoBuffer)
      BY <2>1, <2>3 DEF FreshInv, RunInv, DeliveredRow
    <3>2. Head(device.owed) = Row /\ Tail(device.owed) = <<>>
      BY <3>1
    <3>3. /\ mem'.dirty = mem.dirty /\ mem'.cache = mem.cache /\ mem'.dram[Receive] = Row
          /\ \A x \in Buffers \ {Receive} : mem'.dram[x] = mem.dram[x]
      BY <2>1, <3>1, <3>2 DEF FreshInv, Typed, Buffers
    <3>4. /\ device'.owed = <<>> /\ device'.key = device.key
          /\ device'.frames = device.frames
      BY <2>1, <3>2 DEF FreshInv
    <3>5. Row' = Row
      BY <1>1, <3>4 DEF Row
    <3>6. Current(mem', Send) = Current(mem, Send)
      BY <3>3, BuffersDiffer DEF Current, Buffers
    <3>7. QED BY <1>1, <2>1, <2>2, <2>3, <3>1, <3>3, <3>4, <3>5, <3>6
              DEF FreshInv, RunInv, KeyInv, RunLabels, DeliveredRow
  <2>4. CASE pc \in {"finally", "ended"}
    BY <1>1, <2>2, <2>4 DEF FreshInv
  <2>5. QED BY <2>3, <2>4
<1>5. ASSUME UNCHANGED <<mm2s, s2mm, device>>, Typed(mem'), mem'.dirty \subseteq mem.dirty,
             \A x \in Buffers : Current(mem', x) = Current(mem, x),
             \A x \in Buffers \ mem.dirty : mem'.dram[x] = mem.dram[x],
             \A x \in Buffers \ mem.dirty :
               mem'.cache[x] \in {mem.cache[x], Uncached, mem.dram[x]}
      PROVE  FreshInv'
  <2>1. Row' = Row
    BY <1>1, <1>5 DEF Row
  <2>2. {Profile, Send, Receive} = Buffers
    BY DEF Buffers
  <2>3. RunInv => RunInv'
    BY <1>1, <1>5, <2>1, <2>2 DEF RunInv, DeliveredRow
  <2>4. KeyInv => KeyInv'
    BY <1>1, <1>5, <2>2 DEF KeyInv
  <2>5. QED BY <1>1, <1>5, <2>3, <2>4 DEF FreshInv
<1>6. CASE Evict
  <2>1. PICK b \in mem.dirty : mem' = Invalidate(Flush(mem, b), b)
    BY <1>6 DEF Evict
  <2>2. UNCHANGED <<mm2s, s2mm, device>>
    BY <1>6 DEF Evict, dmaVars
  <2>3. mem'.dirty = mem.dirty \ {b} /\ Typed(mem')
    BY <2>1 DEF FreshInv, Typed, Flush, Invalidate
  <2>4. /\ \A x \in Buffers : Current(mem', x) = Current(mem, x)
        /\ \A x \in Buffers \ mem.dirty : mem'.dram[x] = mem.dram[x]
        /\ \A x \in Buffers \ mem.dirty : mem'.cache[x] \in {mem.cache[x], Uncached}
    BY <2>1 DEF FreshInv, Typed, Flush, Invalidate, Current
  <2>5. QED BY <2>2, <2>3, <2>4, <1>5
<1>7. CASE Fetch
  <2>1. PICK b : b \notin mem.dirty /\ mem' = [mem EXCEPT !.cache[b] = mem.dram[b]]
    BY <1>7 DEF Fetch
  <2>2. UNCHANGED <<mm2s, s2mm, device>>
    BY <1>7 DEF Fetch, dmaVars
  <2>3. /\ Typed(mem') /\ mem'.dirty = mem.dirty /\ mem'.dram = mem.dram
        /\ \A x \in Buffers \ {b} : mem'.cache[x] = mem.cache[x]
        /\ b \in Buffers => mem'.cache[b] = mem.dram[b]
    BY <2>1 DEF FreshInv, Typed
  <2>4. \A x \in Buffers : Current(mem', x) = Current(mem, x)
    BY <2>1, <2>3 DEF Current
  <2>5. QED BY <2>1, <2>2, <2>3, <2>4, <1>5
<1>8. QED BY <1>3, <1>4, <1>6, <1>7

-----------------------------------------------------------------------------
(* The steps of the programs.                                              *)
LEMMA SentOnlyFresh ==
  ASSUME NEW next, SentOnly(next), FreshInv
  PROVE  /\ pc = "sendingOnly" /\ pc' = next /\ device.key = WorkKey /\ device.owed = <<>>
         /\ UNCHANGED <<program, moduli, roots, pair, loaded, mem, mm2s, s2mm, device>>
BY DEF SentOnly, At, Goto, progVars, loopVars, dmaVars, FreshInv, RunInv

(* Work and its profile depend on the program, its towers and the pair.    *)
LEMMA WorkSame ==
  ASSUME UNCHANGED <<program, moduli, roots, pair>>
  PROVE  UNCHANGED <<Work, WorkKey>>
BY DEF Work, WorkKey, OwnProfile, AlwaysUploads, PairModuli, PairTables, TowerTables,
     ModuliTable, PairCount, TowerCount, Tower0, Tower1, Tower1Real

LEMMA WorkOf ==
  /\ program \in RelinPrograms => Work = pair /\ WorkKey = PairModuli(pair)
  /\ program \in BatchPrograms => Work = pair /\ WorkKey = OwnProfile(pair)
  /\ program = "tower" => Work = 0 /\ WorkKey = TowerTables(pair)
  /\ program = "two_tower" => Work = pair /\ WorkKey = TowerTables(pair)
  /\ program = "evalmul3_allpairs" => Work = AllPairs /\ WorkKey = ModuliTable
BY DEF RelinPrograms, BatchPrograms, Work, WorkKey

(* A key names the whole of a profile, so that the frame cached under it    *)
(* is the pair's own.                                                      *)
LEMMA KeyNames ==
  ASSUME NEW p PROVE TablesNamed(ProfileKey(p)) = PairTables(p) /\ ProfileKey(p) # <<>>
BY DEF TablesNamed, ProfileKey, PairTables, TowerTables

LEMMA CachedIsOwn ==
  ASSUME NEW p \in Nat PROVE SentProfile(p) = OwnProfile(p)
<1> DEFINE first == CHOOSE c \in 0..p : ProfileKey(c) = ProfileKey(p)
<1>1. \E c \in 0..p : ProfileKey(c) = ProfileKey(p)
  <2>1. p \in 0..p
    OBVIOUS
  <2> QED BY <2>1
<1>2. ProfileKey(first) = ProfileKey(p)
  BY <1>1
<1>3. PairTables(first) = PairTables(p)
  BY <1>2, KeyNames
<1> QED BY <1>3 DEF SentProfile, OwnProfile, CachedTables

LEMMA RelinFresh == ASSUME FreshInv, IInv, RelinNext PROVE FreshInv'
<1>a. program \in RelinPrograms /\ (PrepareRelin \/ AllocateRelin \/ Batch \/ Finally)
  BY DEF RelinNext, RelinPrograms, DrainOverlap, CoefficientMajorSetup,
         CoefficientMajorBatch, PingpongSetup, PingpongBatch, RelinearizedSetup,
         RelinearizedBatch
<1>b. program \notin BatchPrograms \union ProductPrograms
  BY <1>a DEF RelinPrograms, BatchPrograms, ProductPrograms
<1>1. CASE PrepareRelin \/ AllocateRelin \/ Finally
  <2>1. /\ pc \notin {"sendingOnly"} \union RunLabels
        /\ pc' \in {"profileBuffer", "sendBuffer", "receiveBuffer", "fillProfile", "finally",
                    "ended"}
        /\ UNCHANGED <<program, mem, device>>
    BY <1>1 DEF PrepareRelin, AllocateRelin, Allocate, Finally, At, Goto, Fail, Raise, progVars,
       dmaVars, RunLabels
  <2>2. pc' \notin {"finally", "ended"} => pc \notin {"finally", "ended"}
    BY <1>1, <2>1 DEF PrepareRelin, AllocateRelin, Allocate, Finally, At
  <2>3. QED BY <1>b, <2>1, <2>2 DEF FreshInv, RunInv, KeyInv, RunLabels, ProductPrograms
<1>2. CASE UploadProfile \/ FillBatch
  <2>1. UNCHANGED <<program, moduli, roots, pair>> /\ UNCHANGED <<Work, WorkKey>>
    BY <1>2, WorkSame DEF UploadProfile, FillBatch, Fill, SendOnly, SentOnly, progVars, loopVars
  <2>2. Work = pair /\ WorkKey = PairModuli(pair)
    BY <1>a, WorkOf
  <2>3. CASE Fill("fillProfile", Profile, ProfileFrame(PairModuli(pair)), "sendProfile")
    <3>1. /\ pc = "fillProfile" /\ pc' = "sendProfile" /\ Typed(mem')
          /\ Current(mem', Profile) = ProfileFrame(WorkKey) /\ UNCHANGED device
      BY <2>2, <2>3, WriteEffect DEF Fill, At, Goto, FreshInv, Buffers, dmaVars
    <3>2. QED BY <1>b, <2>1, <3>1 DEF FreshInv, RunInv, KeyInv, RunLabels, ProductPrograms
  <2>4. CASE SendOnly("sendProfile", Profile)
    BY <2>1, <2>4, SendOnlyFresh
  <2>5. CASE SentOnly("fillFrame")
    BY <1>b, <2>1, <2>5, SentOnlyFresh DEF FreshInv, RunInv, KeyInv, RunLabels, ProductPrograms
  <2>6. CASE FillBatch
    <3>1. /\ pc = "fillFrame" /\ pc' = "runFrame" /\ Typed(mem')
          /\ Current(mem', Send) = DataFrame(Work) /\ UNCHANGED device
      BY <2>2, <2>6, WriteEffect DEF FillBatch, Fill, At, Goto, FreshInv, Buffers, dmaVars
    <3>2. QED BY <1>a, <1>b, <2>1, <3>1 DEF FreshInv, RunInv, KeyInv, RunLabels, ProductPrograms
  <2>7. QED BY <1>2, <2>3, <2>4, <2>5, <2>6 DEF UploadProfile
<1>3. CASE RunFrame
  <2>1. UNCHANGED <<program, moduli, roots, pair>>
    BY <1>3 DEF RunFrame, ZeroReceive, Fill, Arm, SendFrame, FrameSent, Received, progVars,
       loopVars
  <2>2. QED BY <1>3, <2>1, WorkSame, RunFrameFresh
<1>4. CASE ValidateRelin
  <2>1. /\ pc = "validate" /\ pc' \in {"fillProfile", "finally"}
        /\ UNCHANGED <<program, mem, device>>
    BY <1>4 DEF ValidateRelin, Validate, NextPair, At, Goto, Raise, progVars, dmaVars
  <2>2. QED BY <1>b, <2>1 DEF FreshInv, RunInv, KeyInv, RunLabels, ProductPrograms
<1>5. QED BY <1>a, <1>1, <1>2, <1>3, <1>4 DEF Batch

LEMMA BatchFresh == ASSUME FreshInv, IInv, BatchNext PROVE FreshInv'
<1>a. /\ program \in BatchPrograms
      /\ PrepareBatch \/ BeginPair \/ UploadIfNew \/ AllocatePair \/ RunPair \/ Finally
  BY DEF BatchNext, BatchPrograms, MultitowerUpload, MultitowerPairs, CiphertextUpload,
         CiphertextPairs, EvalMul3Upload, EvalMul3Pairs
<1>b. program \notin RelinPrograms \union ProductPrograms
  BY <1>a DEF RelinPrograms, BatchPrograms, ProductPrograms
<1>c. Work = pair /\ WorkKey = OwnProfile(pair)
  BY <1>a, WorkOf
<1> USE DEF FreshInv, RunInv, KeyInv, RunLabels, AlwaysUploads
<1>1. CASE PrepareBatch \/ Finally
  <2>1. /\ pc \in {"prepare", "finally"} /\ pc' \in {"pair", "ended"}
        /\ pc' = "pair" => pc = "prepare"
        /\ UNCHANGED <<program, pair, mem, device, loaded>>
    BY <1>1 DEF PrepareBatch, Finally, At, Goto, progVars, loopVars, dmaVars
  <2>2. QED BY <1>b, <2>1 DEF ProductPrograms
<1>2. CASE BeginPair
  <2>1. /\ pc = "pair" /\ pc' \in {"profileBuffer", "sendBuffer"}
        /\ pc' = "sendBuffer" => ~AlwaysUploads /\ loaded = ProfileKey(pair)
        /\ UNCHANGED <<program, moduli, roots, pair, loaded, mem, device>>
    BY <1>2 DEF BeginPair, KeyDiffers, At, Goto, progVars, loopVars, dmaVars
  <2>2. pc' = "sendBuffer" => device.key = WorkKey
    BY <1>a, <1>c, <2>1, KeyNames DEF OwnProfile
  <2>3. UNCHANGED <<Work, WorkKey>>
    BY <2>1, WorkSame
  <2>4. QED BY <1>a, <1>b, <2>1, <2>2, <2>3 DEF ProductPrograms
<1>3. CASE UploadIfNew
  <2>1. UNCHANGED <<program, moduli, roots, pair>> /\ UNCHANGED <<Work, WorkKey>>
    BY <1>3, WorkSame DEF UploadIfNew, Allocate, Fill, SendOnly, SentOnly, FreeProfile, progVars,
       loopVars
  <2>2. CASE Allocate("profileBuffer", Profile, {Profile}, ChecksAlignment, "fillProfile")
    <3>1. /\ pc = "profileBuffer" /\ pc' \in {"fillProfile", "finally"}
          /\ UNCHANGED <<loaded, mem, device>>
      BY <2>2 DEF Allocate, At, Goto, Fail, Raise, loopVars, dmaVars
    <3>2. QED BY <1>a, <1>b, <2>1, <3>1 DEF ProductPrograms
  <2>3. CASE Fill("fillProfile", Profile, ProfileFrame(SentProfile(pair)), "sendProfile")
    <3>0. pc = "fillProfile" /\ SentProfile(pair) = OwnProfile(pair)
      BY <1>a, <2>3, CachedIsOwn DEF Fill, At
    <3>1. /\ pc = "fillProfile" /\ pc' = "sendProfile" /\ Typed(mem')
          /\ Current(mem', Profile) = ProfileFrame(WorkKey) /\ UNCHANGED <<device, loaded>>
      BY <1>c, <2>3, <3>0, WriteEffect DEF Fill, At, Goto, Buffers, loopVars, dmaVars
    <3>2. QED BY <1>a, <1>b, <2>1, <3>1 DEF ProductPrograms
  <2>4. CASE SendOnly("sendProfile", Profile)
    BY <2>1, <2>4, SendOnlyFresh
  <2>5. CASE SentOnly("freeProfile")
    BY <1>b, <2>1, <2>5, SentOnlyFresh DEF ProductPrograms
  <2>6. CASE FreeProfile
    <3>1. /\ pc = "freeProfile" /\ pc' = "sendBuffer" /\ loaded' = ProfileKey(pair)
          /\ UNCHANGED <<mem, device>>
      BY <2>6 DEF FreeProfile, At, Goto, dmaVars
    <3>2. program' = "evalmul3" \/ device'.key = TablesNamed(loaded')
      BY <1>a, <1>c, <2>1, <3>1, KeyNames DEF OwnProfile, AlwaysUploads
    <3>3. QED BY <1>a, <1>b, <1>c, <2>1, <3>1, <3>2 DEF ProductPrograms
  <2>7. QED BY <1>3, <2>2, <2>3, <2>4, <2>5, <2>6 DEF UploadIfNew
<1>4. CASE AllocatePair
  <2>1. /\ pc \in {"sendBuffer", "receiveBuffer"}
        /\ pc' \in {"receiveBuffer", "fillFrame", "finally"}
        /\ UNCHANGED <<program, moduli, roots, pair, loaded, mem, device>>
    BY <1>4 DEF AllocatePair, Allocate, At, Goto, Fail, Raise, progVars, loopVars, dmaVars
  <2>2. UNCHANGED <<Work, WorkKey>>
    BY <2>1, WorkSame
  <2>3. QED BY <1>a, <1>b, <2>1, <2>2 DEF ProductPrograms
<1>5. CASE FillPair
  <2>1. /\ pc = "fillFrame" /\ pc' = "runFrame" /\ Typed(mem')
        /\ Current(mem', Send) = DataFrame(Work)
        /\ UNCHANGED <<program, moduli, roots, pair, loaded, device>>
    BY <1>5, <1>c, WriteEffect DEF FillPair, Fill, At, Goto, Buffers, progVars, loopVars, dmaVars
  <2>2. UNCHANGED <<Work, WorkKey>>
    BY <2>1, WorkSame
  <2>3. QED BY <1>a, <1>b, <2>1, <2>2 DEF ProductPrograms
<1>6. CASE RunFrame
  <2>1. UNCHANGED <<program, moduli, roots, pair>>
    BY <1>6 DEF RunFrame, ZeroReceive, Fill, Arm, SendFrame, FrameSent, Received, progVars,
       loopVars
  <2>2. QED BY <1>6, <2>1, WorkSame, RunFrameFresh
<1>7. CASE ValidatePair
  <2>1. /\ pc = "validate" /\ pc' \in {"write", "runFrame", "finally"}
        /\ UNCHANGED <<program, moduli, roots, loaded, mem, device>>
        /\ pc' # "finally" => UNCHANGED pair
    BY <1>7 DEF ValidatePair, Validate, At, Goto, Raise, progVars, dmaVars
  <2>2. pc' # "finally" => UNCHANGED <<Work, WorkKey, Row>>
    BY <2>1, WorkSame DEF Row
  <2>3. QED BY <1>a, <1>b, <2>1, <2>2 DEF ProductPrograms
<1>8. CASE WritePair \/ EndPair
  <2>1. /\ pc \in {"write", "freePair"} /\ pc' \in {"freePair", "pair", "finally"}
        /\ UNCHANGED <<program, loaded, mem, device>> /\ pair' \in {pair, pair + 1}
    BY <1>8 DEF WritePair, EndPair, At, Goto, progVars, dmaVars
  <2>2. QED BY <1>b, <2>1 DEF ProductPrograms
<1>9. QED BY <1>a, <1>1, <1>2, <1>3, <1>4, <1>5, <1>6, <1>7, <1>8 DEF RunPair

LEMMA TowerFresh == ASSUME FreshInv, IInv, Tower PROVE FreshInv'
<1>a. program = "tower" /\ program \notin RelinPrograms \union BatchPrograms
  BY DEF Tower, RelinPrograms, BatchPrograms
<1>b. Work = 0 /\ WorkKey = TowerTables(pair)
  BY <1>a, WorkOf
<1> USE DEF FreshInv, RunInv, KeyInv, RunLabels
<1>1. CASE PrepareTower
  <2>1. /\ pc = "prepare" /\ pc' = "sendBuffer" /\ device' = [device EXCEPT !.key = TowerTables(0)]
        /\ UNCHANGED <<program, moduli, roots, pair, mem>>
    BY <1>1 DEF PrepareTower, At, Goto, progVars, loopVars
  <2>2. UNCHANGED <<Work, WorkKey>>
    BY <2>1, WorkSame
  <2>3. pair = 0 /\ device'.key = WorkKey /\ device'.owed = <<>>
    BY <1>a, <1>b, <2>1
  <2>4. QED BY <1>a, <2>1, <2>2, <2>3
<1>2. CASE RunFrame
  <2>1. UNCHANGED <<program, moduli, roots, pair>>
    BY <1>2 DEF RunFrame, ZeroReceive, Fill, Arm, SendFrame, FrameSent, Received, progVars,
       loopVars
  <2>2. QED BY <1>2, <2>1, WorkSame, RunFrameFresh
<1>3. CASE \/ Allocate("sendBuffer", Send, {}, FALSE, "receiveBuffer")
           \/ Allocate("receiveBuffer", Receive, {Send, Receive}, FALSE, "fillFrame")
  <2>1. /\ pc \in {"sendBuffer", "receiveBuffer"}
        /\ pc' \in {"receiveBuffer", "fillFrame", "finally"}
        /\ UNCHANGED <<program, moduli, roots, pair, mem, device>>
    BY <1>3 DEF Allocate, At, Goto, Fail, Raise, progVars, loopVars, dmaVars
  <2>2. UNCHANGED <<Work, WorkKey>>
    BY <2>1, WorkSame
  <2>3. QED BY <1>a, <2>1, <2>2
<1>4. CASE Fill("fillFrame", Send, DataFrame(0), "runFrame")
  <2>1. /\ pc = "fillFrame" /\ pc' = "runFrame" /\ Typed(mem')
        /\ Current(mem', Send) = DataFrame(Work)
        /\ UNCHANGED <<program, moduli, roots, pair, device>>
    BY <1>4, <1>b, WriteEffect DEF Fill, At, Goto, Buffers, progVars, loopVars, dmaVars
  <2>2. UNCHANGED <<Work, WorkKey>>
    BY <2>1, WorkSame
  <2>3. QED BY <1>a, <2>1, <2>2
<1>5. CASE ValidateTower \/ WriteTower \/ Finally
  <2>1. /\ pc \in {"validate", "write", "finally"}
        /\ pc' \in {"write", "runFrame", "finally", "ended"}
        /\ pc = "validate" \/ pc' \in {"finally", "ended"}
        /\ UNCHANGED <<program, moduli, roots, mem, device>>
        /\ pc' \notin {"finally", "ended"} => UNCHANGED pair
    BY <1>5 DEF ValidateTower, Validate, RunAgain, WriteTower, Finally, At, Goto, Raise,
       progVars, loopVars, dmaVars
  <2>2. pc' \notin {"finally", "ended"} => UNCHANGED <<Work, WorkKey, Row>>
    BY <2>1, WorkSame DEF Row
  <2>3. QED BY <1>a, <2>1, <2>2
<1>6. QED BY <1>1, <1>2, <1>3, <1>4, <1>5 DEF Tower, RunTower

LEMMA TwoTowerFresh == ASSUME FreshInv, IInv, TwoTower PROVE FreshInv'
<1>a. program = "two_tower" /\ program \notin RelinPrograms \union BatchPrograms
  BY DEF TwoTower, RelinPrograms, BatchPrograms
<1>b. Work = pair /\ WorkKey = TowerTables(pair)
  BY <1>a, WorkOf
<1> USE DEF FreshInv, RunInv, KeyInv, RunLabels
<1>1. CASE PrepareTwoTower \/ AllocateTwoTower
  <2>1. /\ pc \in {"prepare", "profileBuffer", "sendBuffer", "receiveBuffer"}
        /\ pc' \in {"profileBuffer", "sendBuffer", "receiveBuffer", "fillProfile", "finally"}
        /\ UNCHANGED <<program, mem, device>>
    BY <1>1 DEF PrepareTwoTower, AllocateTwoTower, Allocate, At, Goto, Fail, Raise, progVars,
       dmaVars
  <2>2. QED BY <1>a, <2>1
<1>2. CASE RunTwoTower
  <2>1. CASE RunFrame
    <3>1. UNCHANGED <<program, moduli, roots, pair>>
      BY <2>1 DEF RunFrame, ZeroReceive, Fill, Arm, SendFrame, FrameSent, Received, progVars,
         loopVars
    <3>2. QED BY <2>1, <3>1, WorkSame, RunFrameFresh
  <2>2. CASE Fill("fillProfile", Profile, ProfileFrame(TowerTables(pair)), "fillFrame")
    <3>1. /\ pc = "fillProfile" /\ pc' = "fillFrame" /\ Typed(mem')
          /\ Current(mem', Profile) = ProfileFrame(WorkKey)
          /\ UNCHANGED <<program, moduli, roots, pair, device>>
      BY <1>b, <2>2, WriteEffect DEF Fill, At, Goto, Buffers, progVars, loopVars, dmaVars
    <3>2. QED BY <1>a, <3>1, WorkSame
  <2>3. CASE Fill("fillFrame", Send, DataFrame(pair), "sendProfile")
    <3>1. /\ pc = "fillFrame" /\ pc' = "sendProfile" /\ Typed(mem')
          /\ Current(mem', Send) = DataFrame(Work)
          /\ Current(mem', Profile) = Current(mem, Profile)
          /\ UNCHANGED <<program, moduli, roots, pair, device>>
      BY <1>b, <2>3, WriteEffect, BuffersDiffer
         DEF Fill, At, Goto, Buffers, progVars, loopVars, dmaVars
    <3>2. QED BY <1>a, <3>1, WorkSame
  <2>4. CASE SendOnly("sendProfile", Profile)
    <3>1. UNCHANGED <<program, moduli, roots, pair>>
      BY <2>4 DEF SendOnly, progVars, loopVars
    <3>2. QED BY <2>4, <3>1, WorkSame, SendOnlyFresh
  <2>5. CASE SentOnly("runFrame")
    BY <1>a, <2>5, WorkSame, SentOnlyFresh
  <2>6. CASE Validate(pair, TowerTables(pair), RunAgain("write") /\ UNCHANGED files)
    <3>1. /\ pc = "validate" /\ pc' \in {"write", "runFrame", "finally"}
          /\ UNCHANGED <<program, moduli, roots, mem, device>>
          /\ pc' # "finally" => UNCHANGED pair
      BY <2>6 DEF Validate, RunAgain, At, Goto, Raise, progVars, dmaVars
    <3>2. pc' # "finally" => UNCHANGED <<Work, WorkKey, Row>>
      BY <3>1, WorkSame DEF Row
    <3>3. QED BY <1>a, <3>1, <3>2
  <2>7. QED BY <1>2, <2>1, <2>2, <2>3, <2>4, <2>5, <2>6 DEF RunTwoTower
<1>3. CASE WriteTwoTower \/ Finally
  <2>1. /\ pc \in {"write", "finally"} /\ pc' \in {"fillProfile", "finally", "ended"}
        /\ pc' = "fillProfile" => pc = "write"
        /\ UNCHANGED <<program, mem, device>>
    BY <1>3 DEF WriteTwoTower, Finally, At, Goto, progVars, dmaVars
  <2>2. QED BY <1>a, <2>1
<1>4. QED BY <1>1, <1>2, <1>3 DEF TwoTower

LEMMA AllPairsFresh == ASSUME FreshInv, IInv, EvalMul3AllPairs PROVE FreshInv'
<1>a. program = "evalmul3_allpairs" /\ program \notin RelinPrograms \union BatchPrograms
  BY DEF EvalMul3AllPairs, RelinPrograms, BatchPrograms
<1>b. Work = AllPairs /\ WorkKey = ModuliTable
  BY <1>a, WorkOf
<1> USE DEF FreshInv, RunInv, KeyInv, RunLabels
<1>1. CASE UploadTable
  <2>1. CASE Fill("fillProfile", Profile, ProfileFrame(ModuliTable), "sendProfile")
    <3>1. /\ pc = "fillProfile" /\ pc' = "sendProfile" /\ Typed(mem')
          /\ Current(mem', Profile) = ProfileFrame(WorkKey)
          /\ UNCHANGED <<program, moduli, roots, pair, device>>
      BY <1>b, <2>1, WriteEffect DEF Fill, At, Goto, Buffers, progVars, loopVars, dmaVars
    <3>2. QED BY <1>a, <3>1, WorkSame
  <2>2. CASE SendOnly("sendProfile", Profile)
    <3>1. UNCHANGED <<program, moduli, roots, pair>>
      BY <2>2 DEF SendOnly, progVars, loopVars
    <3>2. QED BY <2>2, <3>1, WorkSame, SendOnlyFresh
  <2>3. CASE SentOnly("freeProfile")
    BY <1>a, <2>3, WorkSame, SentOnlyFresh
  <2>4. CASE Free("freeProfile", {Profile}, "sendBuffer")
    <3>1. /\ pc = "freeProfile" /\ pc' = "sendBuffer"
          /\ UNCHANGED <<program, moduli, roots, pair, mem, device>>
      BY <2>4 DEF Free, At, Goto, progVars, loopVars, dmaVars
    <3>2. QED BY <1>a, <3>1, WorkSame
  <2>5. CASE \/ /\ At("prepare") /\ Goto("profileBuffer")
                /\ UNCHANGED <<progVars, loopVars, heapVars, mem, dmaVars, failures>>
             \/ Allocate("profileBuffer", Profile, {Profile}, TRUE, "fillProfile")
    <3>1. /\ pc \in {"prepare", "profileBuffer"}
          /\ pc' \in {"profileBuffer", "fillProfile", "finally"}
          /\ UNCHANGED <<program, mem, device>>
      BY <2>5 DEF Allocate, At, Goto, Fail, Raise, progVars, dmaVars
    <3>2. QED BY <1>a, <3>1
  <2>6. QED BY <1>1, <2>1, <2>2, <2>3, <2>4, <2>5 DEF UploadTable
<1>2. CASE RunAllPairs
  <2>1. CASE RunFrame
    <3>1. UNCHANGED <<program, moduli, roots, pair>>
      BY <2>1 DEF RunFrame, ZeroReceive, Fill, Arm, SendFrame, FrameSent, Received, progVars,
         loopVars
    <3>2. QED BY <2>1, <3>1, WorkSame, RunFrameFresh
  <2>2. CASE Fill("fillFrame", Send, DataFrame(AllPairs), "receiveBuffer")
    <3>1. /\ pc = "fillFrame" /\ pc' = "receiveBuffer" /\ Typed(mem')
          /\ Current(mem', Send) = DataFrame(Work)
          /\ UNCHANGED <<program, moduli, roots, pair, device>>
      BY <1>b, <2>2, WriteEffect DEF Fill, At, Goto, Buffers, progVars, loopVars, dmaVars
    <3>2. QED BY <1>a, <3>1, WorkSame
  <2>3. CASE \/ Allocate("sendBuffer", Send, {Send}, TRUE, "fillFrame")
             \/ Allocate("receiveBuffer", Receive, {Receive}, TRUE, "runFrame")
    <3>1. /\ \/ pc = "sendBuffer" /\ pc' \in {"fillFrame", "finally"}
             \/ pc = "receiveBuffer" /\ pc' \in {"runFrame", "finally"}
          /\ UNCHANGED <<program, moduli, roots, pair, mem, device>>
      BY <2>3 DEF Allocate, At, Goto, Fail, Raise, progVars, loopVars, dmaVars
    <3>2. QED BY <1>a, <3>1, WorkSame
  <2>4. QED BY <1>2, <2>1, <2>2, <2>3 DEF RunAllPairs
<1>3. CASE ValidateAllPairs \/ Finally
  <2>1. /\ pc \in {"validate", "finally"} /\ pc' \in {"runFrame", "finally", "ended"}
        /\ pc' = "runFrame" => pc = "validate"
        /\ UNCHANGED <<program, moduli, roots, mem, device>>
        /\ pc' = "runFrame" => UNCHANGED pair
    BY <1>3 DEF ValidateAllPairs, RunAgain, Finally, At, Goto, Raise, progVars,
       loopVars, dmaVars
  <2>2. pc' = "runFrame" => UNCHANGED <<Work, WorkKey>>
    BY <2>1, WorkSame
  <2>3. QED BY <1>a, <2>1, <2>2
<1>4. QED BY <1>1, <1>2, <1>3 DEF EvalMul3AllPairs

LEMMA OtherFresh == ASSUME FreshInv, WaitRaises \/ VectorNext PROVE FreshInv'
<1>1. /\ pc' \in {"finally", "pack", "ended"} /\ UNCHANGED <<program, mem, device>>
      /\ pc' = "pack" => pc \in {"prepare", "pack"} /\ program \in Scripts
  BY DEF WaitRaises, Fail, Raise, VectorNext, PrepareRelinearized, PrepareKeyswitchMac,
     PrepareCoefficientMajor, PrepareIf, Emit, At, Goto, Scripts, progVars, dmaVars
<1>2. program \in Scripts =>
        program \notin RelinPrograms \union BatchPrograms \union ProductPrograms
  BY DEF Scripts, RelinPrograms, BatchPrograms, ProductPrograms
<1>3. QED BY <1>1, <1>2 DEF FreshInv, RunInv, KeyInv, RunLabels, ProductPrograms

-----------------------------------------------------------------------------
LEMMA InitFresh == Init => FreshInv
<1> SUFFICES ASSUME Init PROVE FreshInv
  OBVIOUS
<1>1. Typed(mem) /\ DOMAIN device = {"key", "frames", "owed"} /\ device.owed = <<>>
  BY DEF Init, PlatformInit, Typed
<1>2. QED BY <1>1 DEF Init, PlatformInit, FreshInv, RunInv, KeyInv, RunLabels

LEMMA FreshInductive == FreshInv /\ IInv /\ [Next]_HostVars => FreshInv'
<1> SUFFICES ASSUME FreshInv, IInv, [Next]_HostVars PROVE FreshInv'
  OBVIOUS
<1>1. CASE Next
  BY <1>1, RelinFresh, BatchFresh, TowerFresh, TwoTowerFresh, AllPairsFresh, OtherFresh,
     OverlayFresh DEF Next, HostNext, RunnerNext, WaitFails, DeviceNext, CacheNext, ProductNext
<1>2. CASE UNCHANGED HostVars
  <2>1. UNCHANGED <<program, moduli, roots, pc, pair, loaded, mem, mm2s, s2mm, device>>
    BY <1>2 DEF HostVars, vars, progVars, loopVars, dmaVars
  <2>2. UNCHANGED <<Work, WorkKey>>
    BY <2>1, WorkSame
  <2>3. QED BY <2>1, <2>2 DEF FreshInv, RunInv, KeyInv, RunLabels, DeliveredRow, Row
<1>3. QED BY <1>1, <1>2

(* When any of the ten programs compares its receive buffer with OpenFHE's *)
(* words, it reads the row of the frame it sent last, on the data and      *)
(* under the profile of the towers in hand, whatever the cache did and     *)
(* whether or not their profile's upload was skipped.                      *)
THEOREM RunnersReadFreshRow == Spec => []ReadsFreshRow
<1>1. FreshInv => ReadsFreshRow
  <2> SUFFICES ASSUME FreshInv, pc = "validate"
               PROVE  Load(mem, Receive) = Row
    BY DEF ReadsFreshRow, Row
  <2>1. mem.dram[Receive] = Row /\ mem.cache[Receive] \in {Uncached, Row}
    BY DEF FreshInv, RunInv
  <2>2. QED BY <2>1 DEF Load
<1>2. Spec => []FreshInv
  BY InitFresh, FreshInductive, Invariant, PTL DEF Spec
<1>3. QED BY <1>1, <1>2, PTL

-----------------------------------------------------------------------------
(* The results written so far, each for its own tower.                     *)
Own == \A t \in DOMAIN files : Matches(files[t], OwnWork(t), OwnKey(t))
Complete == DOMAIN files = Everything

RelinProgress ==
  /\ pc # "prepare" => TowerCount % 2 = 0
  /\ DOMAIN files = IF run = 0 THEN 0..(2 * pair - 1) ELSE Everything
  /\ pc \in {"finally", "ended"} => run # 0

BatchProgress ==
  /\ pc \notin {"freePair", "finally", "ended"} => DOMAIN files = 0..(2 * pair - 1)
  /\ pc = "freePair" => DOMAIN files = 0..Tower1(pair)
  /\ pc \in {"finally", "ended"} => Complete
  /\ pc = "write" => Matches(checked, pair, OwnProfile(pair))

ProductProgress ==
  /\ program \in {"tower", "evalmul3_allpairs"} => pair = 0 /\ DOMAIN files \subseteq Everything
  /\ program = "two_tower" =>
       pair \in 0..1 /\ (pc \notin {"finally", "ended"} => DOMAIN files = 0..(pair - 1))
  /\ pc \in {"finally", "ended"} => Complete

Progress ==
  /\ IF pc = "ended" THEN outcome = "passed" ELSE outcome = "running"
  /\ run \in Nat /\ (program # "two_tower" => pair \in 0..(PairCount - 1))
  /\ Own
  /\ program \in RelinPrograms => RelinProgress
  /\ program \in BatchPrograms => BatchProgress
  /\ program \in ProductPrograms => ProductProgress

ResultInv ==
  /\ moduli \in TowerModuli /\ TowersGiven
  /\ outcome = "rejected" => pc = "ended"
  /\ (program \in Runners /\ failures = 0 /\ outcome # "rejected") => Progress

-----------------------------------------------------------------------------
LEMMA Towers ==
  ASSUME ResultInv
  PROVE  /\ TowerCount \in Nat \ {0} /\ PairCount \in Nat \ {0}
         /\ PairCount = (TowerCount + 1) \div 2
BY PlatformAssumption DEF ResultInv, TowerCount, PairCount

(* What depends on the program and its towers only.                        *)
LEMMA TowersSame ==
  ASSUME UNCHANGED <<program, moduli, roots>>
  PROVE  /\ UNCHANGED <<TowerCount, PairCount, Everything, TowersGiven>>
         /\ \A p : Tower1(p)' = Tower1(p) /\ OwnProfile(p)' = OwnProfile(p)
         /\ \A t : OwnWork(t)' = OwnWork(t) /\ OwnKey(t)' = OwnKey(t)
BY DEF TowerCount, PairCount, Everything, TowersGiven, Tower1, Tower1Real, Tower0, OwnWork,
       OwnKey, OwnProfile, AlwaysUploads, PairModuli, PairTables, TowerTables, ModuliTable

LEMMA OwnKept ==
  ASSUME UNCHANGED <<program, moduli, roots, files>>
  PROVE  UNCHANGED <<Own, Complete>>
BY TowersSame DEF Own, Complete

LEMMA OwnWritten ==
  ASSUME NEW ACTION towers, NEW ACTION row, Written(towers, row),
         UNCHANGED <<program, moduli, roots>>, Own,
         \A t \in towers : Matches(row, OwnWork(t), OwnKey(t))
  PROVE  Own' /\ DOMAIN files' = DOMAIN files \union towers
BY TowersSame DEF Own, Written

(* A step that leaves loops and results alone, and the first failure.      *)
LEMMA QuietKeeps ==
  ASSUME ResultInv, UNCHANGED <<program, moduli, roots, pair, run, checked, files, outcome>>,
         failures' = failures,
         pc \notin {"validate", "write", "freePair", "finally", "ended"},
         pc' \notin {"prepare", "write", "freePair", "finally", "ended"},
         pc = "prepare" => program \notin RelinPrograms
  PROVE  ResultInv'
<1>1. ResultInv => (UNCHANGED <<TowerCount, PairCount, Everything, TowersGiven, Own, Complete>>)
  BY TowersSame, OwnKept
<1>2. QED BY <1>1 DEF ResultInv, Progress, RelinProgress, BatchProgress, ProductProgress

LEMMA SameResult ==
  ASSUME ResultInv,
         UNCHANGED <<program, moduli, roots, pc, pair, run, checked, files, outcome, failures>>
  PROVE  ResultInv'
<1>1. UNCHANGED <<TowerCount, PairCount, Everything, TowersGiven, Own, Complete>>
  BY TowersSame, OwnKept
<1>2. Tower1(pair)' = Tower1(pair) /\ OwnProfile(pair)' = OwnProfile(pair)
  BY TowersSame
<1>3. QED BY <1>1, <1>2 DEF ResultInv, Progress, RelinProgress, BatchProgress, ProductProgress,
                         Matches

LEMMA FailKeeps ==
  ASSUME ResultInv, IInv, failures' = failures + 1, outcome' = "raised",
         UNCHANGED <<program, moduli, roots>>
  PROVE  ResultInv'
BY TowersSame DEF ResultInv, IInv, ChannelInv

(* What is compared, or written at once, is the right row.                 *)
LEMMA RowMatches ==
  ASSUME FreshInv, pc \in {"validate", "write"}
  PROVE  Matches(Load(mem, Receive), Work, WorkKey)
<1>1. Load(mem, Receive) = Row
  BY DEF FreshInv, RunInv, Load
<1>2. QED BY <1>1 DEF Row, Result, Matches

(* The towers of a pair are the ones whose work it is.                     *)
LEMMA OwnPair ==
  ASSUME NEW p \in Nat, program \in RelinPrograms \union BatchPrograms,
         NEW t \in {2 * p, 2 * p + 1}
  PROVE  /\ OwnWork(t) = p
         /\ OwnKey(t) = IF program \in BatchPrograms THEN OwnProfile(p) ELSE PairModuli(p)
<1>1. t \div 2 = p
  OBVIOUS
<1>2. program \notin {"tower", "two_tower", "evalmul3_allpairs"}
  BY DEF RelinPrograms, BatchPrograms
<1>3. QED BY <1>1, <1>2 DEF OwnWork, OwnKey

(* A step of one of the kinds all programs share keeps the results.        *)
LEMMA AllocateKeeps ==
  ASSUME ResultInv, IInv, NEW here, NEW b, NEW tried, NEW aligned, NEW next,
         Allocate(here, b, tried, aligned, next),
         here \notin {"prepare", "validate", "write", "freePair", "finally", "ended"},
         next \notin {"prepare", "write", "freePair", "finally", "ended"}
  PROVE  ResultInv'
<1>1. CASE failures' = failures + 1
  <2>1. failures' # failures
    BY <1>1 DEF IInv, ChannelInv
  <2>2. outcome' = "raised" /\ UNCHANGED <<program, moduli, roots>>
    BY <2>1 DEF Allocate, At, Goto, Fail, Raise, progVars
  <2>3. QED BY <1>1, <2>2, FailKeeps
<1>2. CASE failures' = failures
  <2>1. failures' # failures + 1
    BY <1>2 DEF IInv, ChannelInv
  <2>2. /\ UNCHANGED <<program, moduli, roots, pair, run, checked, files, outcome>>
        /\ pc = here /\ pc' = next
    BY <2>1 DEF Allocate, At, Goto, Fail, progVars, loopVars
  <2>3. QED BY <1>2, <2>2, QuietKeeps
<1>3. QED BY <1>1, <1>2 DEF Allocate, Fail

LEMMA FillKeeps ==
  ASSUME ResultInv, NEW here, NEW b, NEW STATE frame, NEW next, Fill(here, b, frame, next),
         here \notin {"prepare", "validate", "write", "freePair", "finally", "ended"},
         next \notin {"prepare", "write", "freePair", "finally", "ended"}
  PROVE  ResultInv'
<1>1. /\ UNCHANGED <<program, moduli, roots, pair, run, checked, files, outcome, failures>>
      /\ pc = here /\ pc' = next
  BY DEF Fill, At, Goto, progVars, loopVars
<1>2. QED BY <1>1, QuietKeeps

LEMMA SendOnlyKeeps ==
  ASSUME ResultInv, SendOnly("sendProfile", Profile)
  PROVE  ResultInv'
<1>1. /\ UNCHANGED <<program, moduli, roots, pair, run, checked, files, outcome, failures>>
      /\ pc = "sendProfile" /\ pc' = "sendingOnly"
  BY DEF SendOnly, At, Goto, progVars, loopVars
<1>2. QED BY <1>1, QuietKeeps

LEMMA SentOnlyKeeps ==
  ASSUME ResultInv, NEW next, SentOnly(next),
         next \notin {"prepare", "write", "freePair", "finally", "ended"}
  PROVE  ResultInv'
<1>1. /\ UNCHANGED <<program, moduli, roots, pair, run, checked, files, outcome, failures>>
      /\ pc = "sendingOnly" /\ pc' = next
  BY DEF SentOnly, At, Goto, progVars, loopVars
<1>2. QED BY <1>1, QuietKeeps

LEMMA RunFrameResult == ASSUME ResultInv, RunFrame PROVE ResultInv'
<1>1. /\ UNCHANGED <<program, moduli, roots, pair, run, checked, files, outcome, failures>>
      /\ pc \in RunLabels \ {"validate"} /\ pc' \in RunLabels
  BY DEF RunFrame, ZeroReceive, Fill, Arm, SendFrame, FrameSent, Received, At, Goto, progVars,
     loopVars, RunLabels
<1>2. QED BY <1>1, QuietKeeps DEF RunLabels

LEMMA FinallyKeeps == ASSUME ResultInv, Finally PROVE ResultInv'
<1>1. /\ UNCHANGED <<program, moduli, roots, pair, run, checked, files, failures>>
      /\ pc = "finally" /\ pc' = "ended"
      /\ outcome' = IF outcome = "raised" THEN "raised" ELSE "passed"
  BY DEF Finally, At, progVars, loopVars
<1>2. UNCHANGED <<TowerCount, PairCount, Everything, TowersGiven, Own, Complete>>
  BY <1>1, TowersSame, OwnKept
<1>3. ASSUME program \in Runners, failures = 0, outcome # "rejected"
      PROVE  Progress'
  BY <1>1, <1>2, <1>3 DEF ResultInv, Progress, RelinProgress, BatchProgress, ProductProgress
<1>4. QED BY <1>1, <1>2, <1>3 DEF ResultInv

-----------------------------------------------------------------------------
LEMMA RelinResult == ASSUME ResultInv, FreshInv, IInv, RelinNext PROVE ResultInv'
<1>a. program \in RelinPrograms /\ (PrepareRelin \/ AllocateRelin \/ Batch \/ Finally)
  BY DEF RelinNext, RelinPrograms, DrainOverlap, CoefficientMajorSetup,
         CoefficientMajorBatch, PingpongSetup, PingpongBatch, RelinearizedSetup,
         RelinearizedBatch
<1>b. /\ program \in Runners /\ program \notin BatchPrograms \union ProductPrograms
      /\ program # "two_tower"
  BY <1>a DEF Runners, RelinPrograms, BatchPrograms, ProductPrograms
<1>c. TowerCount \in Nat \ {0} /\ PairCount = (TowerCount + 1) \div 2
  BY Towers
<1>1. CASE PrepareRelin
  <2>1. /\ UNCHANGED <<program, moduli, roots, pair, run, checked, files, failures>>
        /\ pc = "prepare"
        /\ \/ TowerCount % 2 = 0 /\ pc' = "profileBuffer" /\ UNCHANGED outcome
           \/ pc' = "ended" /\ outcome' = "rejected"
    BY <1>1 DEF PrepareRelin, At, Goto, progVars, loopVars
  <2>2. UNCHANGED <<TowerCount, PairCount, Everything, TowersGiven, Own>>
    BY <2>1, TowersSame, OwnKept
  <2>3. QED BY <1>b, <2>1, <2>2 DEF ResultInv, Progress, RelinProgress
<1>2. CASE AllocateRelin \/ UploadProfile \/ FillBatch
  BY <1>2, AllocateKeeps, FillKeeps, SendOnlyKeeps, SentOnlyKeeps
     DEF AllocateRelin, UploadProfile, FillBatch
<1>3. CASE RunFrame
  BY <1>3, RunFrameResult
<1>4. CASE ValidateRelin
  <2>1. /\ pc = "validate" /\ UNCHANGED <<program, moduli, roots, failures>>
        /\ checked' = Load(mem, Receive)
    BY <1>4 DEF ValidateRelin, Validate, At, progVars
  <2>2. Matches(checked', pair, PairModuli(pair))
    BY <1>a, <2>1, RowMatches, WorkOf
  <2>3. /\ NextPair
        /\ IF run = 0 THEN Written({Tower0(pair), Tower1(pair)}, checked') ELSE UNCHANGED files
    BY <1>4, <2>2 DEF ValidateRelin, Validate
  <2>4. UNCHANGED <<TowerCount, PairCount, Everything, TowersGiven, outcome>>
    BY <2>1, <2>3, TowersSame DEF NextPair, Goto
  <2>5. SUFFICES ASSUME failures = 0, outcome # "rejected" PROVE Progress' /\ pc' # "ended"
    BY <2>1, <2>4 DEF ResultInv
  <2>6. Progress /\ RelinProgress /\ Own /\ pair \in 0..(PairCount - 1) /\ run \in Nat
    BY <1>a, <1>b, <2>5 DEF ResultInv, Progress
  <2>7. TowerCount = 2 * PairCount /\ Tower1(pair) = 2 * pair + 1
    BY <1>c, <2>1, <2>6 DEF RelinProgress, Tower1, Tower1Real, Tower0
  <2>8. Own' /\ DOMAIN files' = IF run = 0 THEN 0..(2 * pair + 1) ELSE Everything
    <3>1. CASE run = 0
      <4>1. \A t \in {Tower0(pair), Tower1(pair)} : Matches(checked', OwnWork(t), OwnKey(t))
        BY <1>a, <1>b, <2>2, <2>6, <2>7, OwnPair DEF Tower0
      <4>2. Own' /\ DOMAIN files' = DOMAIN files \union {2 * pair, 2 * pair + 1}
        BY <3>1, <2>1, <2>3, <2>6, <2>7, <4>1, OwnWritten DEF Tower0
      <4>3. DOMAIN files = 0..(2 * pair - 1)
        BY <3>1, <2>6 DEF RelinProgress
      <4>4. QED BY <3>1, <4>2, <4>3, <2>6, <1>c
    <3>2. CASE run # 0
      BY <3>2, <2>1, <2>3, <2>6, OwnKept DEF RelinProgress
    <3>3. QED BY <3>1, <3>2
  <2>9. CASE pair + 1 < PairCount
    <3>1. pair' = pair + 1 /\ run' = run /\ pc' = "fillProfile"
      BY <2>3, <2>9 DEF NextPair, Goto
    <3>2. QED BY <1>b, <2>1, <2>4, <2>6, <2>8, <2>9, <3>1, <1>c, Towers
              DEF Progress, RelinProgress
  <2>10. CASE ~(pair + 1 < PairCount)
    <3>1. pair' = 0 /\ run' = run + 1 /\ pc' \in {"finally", "fillProfile"}
      BY <2>3, <2>10 DEF NextPair, Goto
    <3>2. Everything = 0..(2 * pair + 1)
      BY <2>6, <2>7, <2>10, <1>c, Towers DEF Everything
    <3>3. QED BY <1>b, <2>1, <2>4, <2>6, <2>8, <3>1, <3>2, <1>c, Towers
              DEF Progress, RelinProgress
  <2>11. QED BY <2>9, <2>10
<1>5. CASE Finally
  BY <1>5, FinallyKeeps
<1>6. QED BY <1>a, <1>1, <1>2, <1>3, <1>4, <1>5 DEF Batch

LEMMA BatchResult == ASSUME ResultInv, FreshInv, IInv, BatchNext PROVE ResultInv'
<1>a. /\ program \in BatchPrograms
      /\ PrepareBatch \/ BeginPair \/ UploadIfNew \/ AllocatePair \/ RunPair \/ Finally
  BY DEF BatchNext, BatchPrograms, MultitowerUpload, MultitowerPairs, CiphertextUpload,
         CiphertextPairs, EvalMul3Upload, EvalMul3Pairs
<1>b. /\ program \in Runners /\ program \notin RelinPrograms \union ProductPrograms
      /\ program # "two_tower"
  BY <1>a DEF Runners, RelinPrograms, BatchPrograms, ProductPrograms
<1>c. TowerCount \in Nat \ {0} /\ PairCount = (TowerCount + 1) \div 2
  BY Towers
<1>d. Work = pair /\ WorkKey = OwnProfile(pair)
  BY <1>a, WorkOf
<1>1. CASE PrepareBatch \/ BeginPair \/ FreeProfile
  <2>1. /\ UNCHANGED <<program, moduli, roots, pair, run, checked, files, outcome, failures>>
        /\ pc \in {"prepare", "pair", "freeProfile"}
        /\ pc' \in {"pair", "profileBuffer", "sendBuffer"}
    BY <1>1 DEF PrepareBatch, BeginPair, FreeProfile, At, Goto, progVars, loopVars
  <2>2. QED BY <1>b, <2>1, QuietKeeps
<1>2. CASE UploadIfNew \/ AllocatePair \/ FillPair
  BY <1>1, <1>2, AllocateKeeps, FillKeeps, SendOnlyKeeps, SentOnlyKeeps
     DEF UploadIfNew, AllocatePair, FillPair
<1>3. CASE RunFrame
  BY <1>3, RunFrameResult
<1>4. CASE ValidatePair
  <2>1. /\ pc = "validate" /\ UNCHANGED <<program, moduli, roots, failures>>
        /\ checked' = Load(mem, Receive)
    BY <1>4 DEF ValidatePair, Validate, At, progVars
  <2>2. Matches(checked', pair, OwnProfile(pair))
    BY <1>d, <2>1, RowMatches
  <2>3. /\ UNCHANGED <<pair, files, outcome>> /\ run' = run + 1
        /\ pc' \in {"write", "runFrame"}
    BY <1>4, <2>2 DEF ValidatePair, Validate, Goto
  <2>4. UNCHANGED <<TowerCount, PairCount, Everything, TowersGiven, Own, Complete>>
        /\ OwnProfile(pair)' = OwnProfile(pair)
    BY <2>1, <2>3, TowersSame, OwnKept
  <2>5. Matches(checked, pair, OwnProfile(pair))'
    BY <2>2, <2>3, <2>4 DEF Matches
  <2>6. QED BY <1>a, <1>b, <2>1, <2>3, <2>4, <2>5 DEF ResultInv, Progress, BatchProgress
<1>5. CASE WritePair
  <2>1. /\ pc = "write" /\ pc' = "freePair"
        /\ UNCHANGED <<program, moduli, roots, pair, run, checked, outcome, failures>>
        /\ Written({Tower0(pair)} \union (IF Tower1Real(pair) THEN {Tower1(pair)} ELSE {}),
                   checked)
    BY <1>5 DEF WritePair, At, Goto, progVars
  <2>2. UNCHANGED <<TowerCount, PairCount, Everything, TowersGiven>> /\ Tower1(pair)' = Tower1(pair)
    BY <2>1, TowersSame
  <2>3. SUFFICES ASSUME failures = 0, outcome # "rejected" PROVE Progress'
    BY <2>1, <2>2 DEF ResultInv
  <2>4. Progress /\ BatchProgress /\ Own /\ pair \in 0..(PairCount - 1) /\ run \in Nat
    BY <1>a, <1>b, <2>3 DEF ResultInv, Progress
  <2> DEFINE written == {Tower0(pair)} \union (IF Tower1Real(pair) THEN {Tower1(pair)} ELSE {})
  <2>5. written = (2 * pair)..Tower1(pair) /\ written \subseteq {2 * pair, 2 * pair + 1}
    BY <2>4, <1>c DEF Tower0, Tower1, Tower1Real
  <2>6. \A t \in written : Matches(checked, OwnWork(t), OwnKey(t))
    <3>1. Matches(checked, pair, OwnProfile(pair)) /\ pair \in Nat
      BY <2>1, <2>4, <1>c DEF BatchProgress
    <3>2. SUFFICES ASSUME NEW t \in written PROVE Matches(checked, OwnWork(t), OwnKey(t))
      OBVIOUS
    <3>3. OwnWork(t) = pair /\ OwnKey(t) = OwnProfile(pair)
      BY <1>a, <2>5, <3>1, OwnPair
    <3>4. QED BY <3>1, <3>3
  <2>7. Own' /\ DOMAIN files' = DOMAIN files \union written
    BY <2>1, <2>4, <2>6, OwnWritten
  <2>8. DOMAIN files' = 0..Tower1(pair)
    <3>1. DOMAIN files = 0..(2 * pair - 1)
      BY <2>1, <2>4 DEF BatchProgress
    <3>2. Tower1(pair) \in {2 * pair, 2 * pair + 1}
      BY <2>4, <1>c DEF Tower0, Tower1, Tower1Real
    <3>3. QED BY <3>1, <3>2, <2>4, <2>5, <2>7, <1>c
  <2>9. QED BY <1>b, <2>1, <2>2, <2>4, <2>7, <2>8 DEF Progress, BatchProgress
<1>6. CASE EndPair
  <2>1. /\ pc = "freePair"
        /\ UNCHANGED <<program, moduli, roots, checked, files, outcome, failures>>
        /\ run' = 0
        /\ IF pair + 1 < PairCount THEN pair' = pair + 1 /\ pc' = "pair"
                                   ELSE pair' = pair /\ pc' = "finally"
    BY <1>6 DEF EndPair, At, Goto, progVars
  <2>2. UNCHANGED <<TowerCount, PairCount, Everything, TowersGiven, Own>>
    BY <2>1, TowersSame, OwnKept
  <2>3. SUFFICES ASSUME failures = 0, outcome # "rejected" PROVE Progress'
    BY <2>1, <2>2 DEF ResultInv
  <2>4. Progress /\ Own /\ pair \in 0..(PairCount - 1) /\ DOMAIN files = 0..Tower1(pair)
    BY <1>a, <1>b, <2>1, <2>3 DEF ResultInv, Progress, BatchProgress
  <2>5. pair + 1 < PairCount => Tower1(pair) = 2 * pair + 1
    BY <2>4, <1>c DEF Tower0, Tower1, Tower1Real
  <2>6. ~(pair + 1 < PairCount) => Tower1(pair) = TowerCount - 1
    BY <2>4, <1>c DEF Tower0, Tower1, Tower1Real
  <2>7. pair' \in 0..(PairCount - 1)
    BY <2>1, <2>4, <1>c
  <2>8. IF pair + 1 < PairCount THEN DOMAIN files' = 0..(2 * pair' - 1)
                                ELSE DOMAIN files' = Everything
    BY <2>1, <2>4, <2>5, <2>6, <1>c DEF Everything
  <2>9. QED BY <1>b, <2>1, <2>2, <2>4, <2>7, <2>8 DEF Progress, BatchProgress, Complete
<1>7. CASE Finally
  BY <1>7, FinallyKeeps
<1>8. QED BY <1>a, <1>1, <1>2, <1>3, <1>4, <1>5, <1>6, <1>7 DEF RunPair
-----------------------------------------------------------------------------
(* The tower programs write what they read back from the receive buffer.   *)
LEMMA TowerResult == ASSUME ResultInv, FreshInv, IInv, Tower PROVE ResultInv'
<1>a. /\ program = "tower" /\ program \in Runners
      /\ program \notin RelinPrograms \union BatchPrograms /\ program \in ProductPrograms
  BY DEF Tower, ProductPrograms, Runners, RelinPrograms, BatchPrograms
<1>b. TowerCount = 1 /\ PairCount = 1 /\ Everything = {0}
  BY <1>a, Towers DEF ResultInv, TowersGiven, Everything
<1>c. Work = 0 /\ WorkKey = TowerTables(pair)
  BY <1>a, WorkOf
<1>1. CASE PrepareTower
  <2>1. /\ UNCHANGED <<program, moduli, roots, pair, run, checked, files, outcome, failures>>
        /\ pc = "prepare" /\ pc' = "sendBuffer"
    BY <1>1 DEF PrepareTower, At, Goto, progVars, loopVars
  <2>2. QED BY <1>a, <2>1, QuietKeeps
<1>2. CASE RunTower
  BY <1>2, AllocateKeeps, FillKeeps, RunFrameResult DEF RunTower
<1>3. CASE ValidateTower
  <2>1. /\ pc = "validate" /\ UNCHANGED <<program, moduli, roots, failures>>
        /\ checked' = Load(mem, Receive)
    BY <1>3 DEF ValidateTower, Validate, At, progVars
  <2>2. SUFFICES ASSUME failures = 0, outcome # "rejected" PROVE ResultInv'
    BY <1>3, <2>1, TowersSame DEF ValidateTower, Validate, Raise, RunAgain, Goto, ResultInv
  <2>3. Progress /\ ProductProgress /\ pair = 0
    BY <1>a, <2>2 DEF ResultInv, Progress, ProductProgress
  <2>4. Matches(checked', 0, TowerTables(0))
    BY <1>c, <2>1, <2>3, RowMatches
  <2>5. /\ UNCHANGED <<pair, files, outcome>> /\ run' = run + 1 /\ pc' \in {"write", "runFrame"}
    BY <1>3, <2>4 DEF ValidateTower, Validate, RunAgain, Goto
  <2>6. UNCHANGED <<TowerCount, PairCount, Everything, TowersGiven, Own>>
    BY <2>1, <2>5, TowersSame, OwnKept
  <2>7. QED BY <1>a, <2>1, <2>3, <2>5, <2>6 DEF ResultInv, Progress, ProductProgress
<1>4. CASE WriteTower
  <2>1. /\ pc = "write" /\ pc' = "finally" /\ Written({pair}, Load(mem, Receive))
        /\ UNCHANGED <<program, moduli, roots, pair, run, checked, outcome, failures>>
    BY <1>4 DEF WriteTower, At, Goto, progVars
  <2>2. UNCHANGED <<TowerCount, PairCount, Everything, TowersGiven>>
    BY <2>1, TowersSame
  <2>3. SUFFICES ASSUME failures = 0, outcome # "rejected" PROVE Progress'
    BY <2>1, <2>2 DEF ResultInv
  <2>4. Progress /\ ProductProgress /\ pair = 0 /\ Own /\ DOMAIN files \subseteq Everything
    BY <1>a, <2>3 DEF ResultInv, Progress, ProductProgress
  <2>5. \A t \in {pair} : Matches(Load(mem, Receive), OwnWork(t), OwnKey(t))
    BY <1>a, <1>c, <2>1, <2>4, RowMatches DEF OwnWork, OwnKey
  <2>6. Own' /\ DOMAIN files' = DOMAIN files \union {pair}
    <3>1. Own /\ Written({pair}, Load(mem, Receive)) /\ UNCHANGED <<program, moduli, roots>>
      BY <2>1, <2>4
    <3>2. QED BY <3>1, <2>5, OwnWritten
  <2>7. DOMAIN files' = Everything
    BY <1>b, <2>4, <2>6
  <2>8. QED BY <1>a, <2>1, <2>2, <2>4, <2>6, <2>7 DEF Progress, ProductProgress, Complete
<1>5. CASE Finally
  BY <1>5, FinallyKeeps
<1>6. QED BY <1>1, <1>2, <1>3, <1>4, <1>5 DEF Tower

LEMMA TwoTowerResult == ASSUME ResultInv, FreshInv, IInv, TwoTower PROVE ResultInv'
<1>a. /\ program = "two_tower" /\ program \in Runners
      /\ program \notin RelinPrograms \union BatchPrograms /\ program \in ProductPrograms
  BY DEF TwoTower, ProductPrograms, Runners, RelinPrograms, BatchPrograms
<1>b. TowerCount = 2 /\ Everything = 0..1
  BY <1>a DEF ResultInv, TowersGiven, Everything
<1>c. Work = pair /\ WorkKey = TowerTables(pair)
  BY <1>a, WorkOf
<1>1. CASE PrepareTwoTower
  <2>1. /\ UNCHANGED <<program, moduli, roots, pair, run, checked, files, outcome, failures>>
        /\ pc = "prepare" /\ pc' = "profileBuffer"
    BY <1>1 DEF PrepareTwoTower, At, Goto, progVars, loopVars
  <2>2. QED BY <1>a, <2>1, QuietKeeps
<1>2. CASE AllocateTwoTower
  BY <1>2, AllocateKeeps DEF AllocateTwoTower
<1>3. CASE RunTwoTower
  <2>1. CASE \/ Fill("fillProfile", Profile, ProfileFrame(TowerTables(pair)), "fillFrame")
             \/ Fill("fillFrame", Send, DataFrame(pair), "sendProfile")
             \/ SendOnly("sendProfile", Profile) \/ SentOnly("runFrame") \/ RunFrame
    BY <2>1, FillKeeps, SendOnlyKeeps, SentOnlyKeeps, RunFrameResult
  <2>2. CASE Validate(pair, TowerTables(pair), RunAgain("write") /\ UNCHANGED files)
    <3>1. /\ pc = "validate" /\ UNCHANGED <<program, moduli, roots, failures>>
          /\ checked' = Load(mem, Receive)
      BY <2>2 DEF Validate, At, progVars
    <3>2. Matches(checked', pair, TowerTables(pair))
      BY <1>c, <3>1, RowMatches
    <3>3. /\ UNCHANGED <<pair, files, outcome>> /\ run' = run + 1
          /\ pc' \in {"write", "runFrame"}
      BY <2>2, <3>2 DEF Validate, RunAgain, Goto
    <3>4. UNCHANGED <<TowerCount, PairCount, Everything, TowersGiven, Own>>
      BY <3>1, <3>3, TowersSame, OwnKept
    <3>5. QED BY <1>a, <3>1, <3>3, <3>4 DEF ResultInv, Progress, ProductProgress
  <2>3. QED BY <1>3, <2>1, <2>2 DEF RunTwoTower
<1>4. CASE WriteTwoTower
  <2>1. /\ pc = "write" /\ Written({pair}, Load(mem, Receive)) /\ run' = 0
        /\ UNCHANGED <<program, moduli, roots, checked, outcome, failures>>
        /\ IF pair = 0 THEN pair' = 1 /\ pc' = "fillProfile" ELSE pair' = pair /\ pc' = "finally"
    BY <1>4 DEF WriteTwoTower, At, Goto, progVars
  <2>2. UNCHANGED <<TowerCount, PairCount, Everything, TowersGiven>>
    BY <2>1, TowersSame
  <2>3. SUFFICES ASSUME failures = 0, outcome # "rejected" PROVE Progress'
    BY <2>1, <2>2 DEF ResultInv
  <2>4. Progress /\ pair \in 0..1 /\ Own /\ DOMAIN files = 0..(pair - 1)
    BY <1>a, <2>1, <2>3 DEF ResultInv, Progress, ProductProgress
  <2>5. \A t \in {pair} : Matches(Load(mem, Receive), OwnWork(t), OwnKey(t))
    BY <1>a, <1>c, <2>1, RowMatches DEF OwnWork, OwnKey
  <2>6. Own' /\ DOMAIN files' = DOMAIN files \union {pair}
    BY <2>1, <2>4, <2>5, OwnWritten
  <2>7. DOMAIN files' = 0..pair
    BY <2>4, <2>6
  <2>8. QED BY <1>a, <1>b, <2>1, <2>2, <2>4, <2>6, <2>7 DEF Progress, ProductProgress, Complete
<1>5. CASE Finally
  BY <1>5, FinallyKeeps
<1>6. QED BY <1>1, <1>2, <1>3, <1>4, <1>5 DEF TwoTower

LEMMA AllPairsResult == ASSUME ResultInv, FreshInv, IInv, EvalMul3AllPairs PROVE ResultInv'
<1>a. /\ program = "evalmul3_allpairs" /\ program \in Runners
      /\ program \notin RelinPrograms \union BatchPrograms /\ program \in ProductPrograms
  BY DEF EvalMul3AllPairs, ProductPrograms, Runners, RelinPrograms, BatchPrograms
<1>b. Work = AllPairs /\ WorkKey = ModuliTable
  BY <1>a, WorkOf
<1>1. CASE UploadTable
  <2>1. CASE \/ /\ At("prepare") /\ Goto("profileBuffer")
                /\ UNCHANGED <<progVars, loopVars, heapVars, mem, dmaVars, failures>>
             \/ Free("freeProfile", {Profile}, "sendBuffer")
    <3>1. /\ UNCHANGED <<program, moduli, roots, pair, run, checked, files, outcome, failures>>
          /\ pc \in {"prepare", "freeProfile"} /\ pc' \in {"profileBuffer", "sendBuffer"}
      BY <2>1 DEF Free, At, Goto, progVars, loopVars
    <3>2. QED BY <1>a, <3>1, QuietKeeps
  <2>2. QED BY <1>1, <2>1, AllocateKeeps, FillKeeps, SendOnlyKeeps, SentOnlyKeeps
            DEF UploadTable
<1>2. CASE RunAllPairs
  BY <1>2, AllocateKeeps, FillKeeps, RunFrameResult DEF RunAllPairs
<1>3. CASE ValidateAllPairs
  <2>1. /\ pc = "validate" /\ UNCHANGED <<program, moduli, roots, failures>>
        /\ checked' = Load(mem, Receive)
    BY <1>3 DEF ValidateAllPairs, At, progVars
  <2>2. Matches(checked', AllPairs, ModuliTable)
    BY <1>b, <2>1, RowMatches
  <2> DEFINE matching == {p \in 0..(PairCount - 1) : \A q \in 0..p : PairMatches(checked', q)}
  <2>a. matching = 0..(PairCount - 1)
    <3>1. \A q \in 0..(PairCount - 1) : PairMatches(checked', q)
      BY <2>2 DEF Matches, PairMatches, ModuliTable
    <3>2. \A p \in 0..(PairCount - 1) : 0..p \subseteq 0..(PairCount - 1)
      BY Towers
    <3> QED BY <3>1, <3>2
  <2>b. {t \in Everything : t \div 2 \in matching} = Everything
    BY <2>a, Towers DEF Everything
  <2>3. /\ UNCHANGED <<pair, outcome>> /\ run' = run + 1 /\ pc' \in {"finally", "runFrame"}
        /\ Written(Everything, checked')
    BY <1>3, <2>a, <2>b DEF ValidateAllPairs, RunAgain, Goto
  <2>4. UNCHANGED <<TowerCount, PairCount, Everything, TowersGiven>>
    BY <2>1, TowersSame
  <2>5. SUFFICES ASSUME failures = 0, outcome # "rejected" PROVE Progress'
    BY <2>1, <2>3, <2>4 DEF ResultInv
  <2>6. Progress /\ Own /\ DOMAIN files \subseteq Everything
    BY <1>a, <2>5 DEF ResultInv, Progress, ProductProgress
  <2>7. \A t \in Everything : Matches(checked', OwnWork(t), OwnKey(t))
    BY <1>a, <2>2 DEF OwnWork, OwnKey
  <2>8. Own' /\ DOMAIN files' = Everything
    <3>1. \A t \in DOMAIN files \union Everything : t \in Everything
      BY <2>6
    <3>2. files' = [t \in DOMAIN files \union Everything |-> checked']
      BY <2>3, <3>1 DEF Written
    <3>3. DOMAIN files' = Everything /\ \A t \in DOMAIN files' : files'[t] = checked'
      BY <3>1, <3>2
    <3>4. QED BY <2>1, <2>7, <3>3, TowersSame DEF Own
  <2>9. QED BY <1>a, <2>1, <2>3, <2>4, <2>6, <2>8 DEF Progress, ProductProgress, Complete
<1>4. CASE Finally
  BY <1>4, FinallyKeeps
<1>5. QED BY <1>1, <1>2, <1>3, <1>4 DEF EvalMul3AllPairs

(* Failing waits end the claim; scripts, overlay and cache are not part of *)
(* it.                                                                     *)
LEMMA OtherResult ==
  ASSUME ResultInv, IInv, WaitRaises \/ VectorNext \/ Consume \/ Deliver \/ Evict \/ Fetch
  PROVE  ResultInv'
<1>1. CASE WaitRaises
  <2>1. failures' = failures + 1 /\ outcome' = "raised" /\ UNCHANGED <<program, moduli, roots>>
    BY <1>1 DEF WaitRaises, Fail, Raise, progVars
  <2>2. QED BY <2>1, FailKeeps
<1>2. CASE VectorNext
  <2>1. /\ program \in Scripts /\ UNCHANGED <<program, moduli, roots>>
        /\ outcome' = "rejected" => outcome = "rejected" \/ pc' = "ended"
        /\ pc # "ended"
    BY <1>2 DEF VectorNext, PrepareRelinearized, PrepareKeyswitchMac, PrepareCoefficientMajor,
       PrepareIf, Emit, At, Goto, Scripts, progVars
  <2>2. program \notin Runners
    BY <2>1 DEF Scripts, Runners, RelinPrograms, BatchPrograms, ProductPrograms
  <2>3. QED BY <2>1, <2>2, TowersSame DEF ResultInv
<1>3. CASE Consume \/ Deliver \/ Evict \/ Fetch
  <2>1. UNCHANGED <<program, moduli, roots, pc, pair, run, checked, files, outcome, failures>>
    BY <1>3 DEF Consume, Deliver, Evict, Fetch, progVars, loopVars
  <2>2. QED BY <2>1, SameResult
<1>4. QED BY <1>1, <1>2, <1>3

-----------------------------------------------------------------------------
LEMMA InitResult == Init => ResultInv
<1> SUFFICES ASSUME Init PROVE ResultInv
  OBVIOUS
<1>1. /\ pc = "prepare" /\ outcome = "running" /\ pair = 0 /\ run = 0
      /\ moduli \in TowerModuli /\ TowersGiven /\ files = <<>>
  BY DEF Init, PlatformInit
<1>2. DOMAIN files = {} /\ DOMAIN files = 0..(-1)
  BY <1>1
<1>3. PairCount \in Nat \ {0}
  BY <1>1, PlatformAssumption DEF PairCount, TowerCount
<1>4. QED BY <1>1, <1>2, <1>3 DEF ResultInv, Progress, Own, RelinProgress, BatchProgress,
                               ProductProgress

LEMMA ResultInductive == ResultInv /\ FreshInv /\ IInv /\ [Next]_HostVars => ResultInv'
<1> SUFFICES ASSUME ResultInv, FreshInv, IInv, [Next]_HostVars PROVE ResultInv'
  OBVIOUS
<1>1. CASE Next
  BY <1>1, RelinResult, BatchResult, TowerResult, TwoTowerResult, AllPairsResult, OtherResult
     DEF Next, HostNext, RunnerNext, WaitFails, DeviceNext, CacheNext, ProductNext
<1>2. CASE UNCHANGED HostVars
  BY <1>2, SameResult DEF HostVars, vars, progVars, loopVars
<1>3. QED BY <1>1, <1>2

(* A single-frame program that met no failed allocation, alignment check   *)
(* or wait ends in success, and has then written for every tower of its    *)
(* vector set, an odd last one included, the row of that tower's own pair  *)
(* under that pair's profile.                                              *)
THEOREM RunnersResultsComplete == Spec => []ResultsComplete
<1>1. ResultInv => ResultsComplete
  BY DEF ResultInv, ResultsComplete, Progress, Own, RelinProgress, BatchProgress,
     ProductProgress, Complete, Everything, Runners
<1>2. Spec => []FreshInv
  BY InitFresh, FreshInductive, Invariant, PTL DEF Spec
<1>3. Spec => []ResultInv
  BY InitResult, ResultInductive, Invariant, <1>2, PTL DEF Spec
<1>4. QED BY <1>1, <1>3, PTL
=============================================================================
