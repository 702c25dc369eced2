--------------------------- MODULE ProductRunners ---------------------------
(***************************************************************************)
(* The programs that keep one frame of operands: run_fpga_tower.py (one    *)
(* tower, a fixed profile), run_two_tower_fpga.py (tower after tower, each *)
(* with its profile) and run_fpga_evalmul3_allpairs.py (a table of all     *)
(* profiles, then one frame with every pair).                              *)
(***************************************************************************)
EXTENDS RunnerPlatform

ProductPrograms == {"tower", "two_tower", "evalmul3_allpairs"}

(* All pairs in one transaction.                                            *)
AllPairs    == "allPairs"
Everything  == 0..(TowerCount - 1)

RunAgain(next) ==
  /\ UNCHANGED pair /\ run' = run + 1
  /\ Goto(IF run = TimedRuns THEN next ELSE "runFrame")

-----------------------------------------------------------------------------
(* run_fpga_tower.py: both buffers are allocated before the try.  Its       *)
(* overlay has the profile of its one tower built in.                       *)
PrepareTower ==
  /\ At("prepare") /\ Goto("sendBuffer")
  /\ device' = [device EXCEPT !.key = TowerTables(0)]
  /\ UNCHANGED <<progVars, loopVars, heapVars, mem, mm2s, s2mm, failures>>

RunTower ==
  \/ Allocate("sendBuffer", Send, {}, FALSE, "receiveBuffer")
  \/ Allocate("receiveBuffer", Receive, {Send, Receive}, FALSE, "fillFrame")
  \/ Fill("fillFrame", Send, DataFrame(0), "runFrame")
  \/ RunFrame

ValidateTower == Validate(0, TowerTables(0), RunAgain("write") /\ UNCHANGED files)

WriteTower ==
  /\ At("write") /\ Goto("finally")
  /\ Written({pair}, Load(mem, Receive))
  /\ UNCHANGED <<progVars, pair, run, loaded, checked, heapVars, mem, dmaVars, failures>>

Tower == program = "tower"
         /\ (PrepareTower \/ RunTower \/ ValidateTower \/ WriteTower \/ Finally)

-----------------------------------------------------------------------------
(* run_two_tower_fpga.py: three buffers before the try, then two towers.    *)
PrepareTwoTower ==
  /\ At("prepare") /\ Goto("profileBuffer")
  /\ UNCHANGED <<progVars, loopVars, heapVars, mem, dmaVars, failures>>

AllocateTwoTower ==
  \/ Allocate("profileBuffer", Profile, {}, FALSE, "sendBuffer")
  \/ Allocate("sendBuffer", Send, {}, FALSE, "receiveBuffer")
  \/ Allocate("receiveBuffer", Receive, Buffers, FALSE, "fillProfile")

RunTwoTower ==
  \/ Fill("fillProfile", Profile, ProfileFrame(TowerTables(pair)), "fillFrame")
  \/ Fill("fillFrame", Send, DataFrame(pair), "sendProfile")
  \/ SendOnly("sendProfile", Profile)
  \/ SentOnly("runFrame")
  \/ RunFrame
  \/ Validate(pair, TowerTables(pair), RunAgain("write") /\ UNCHANGED files)

WriteTwoTower ==
  /\ At("write")
  /\ Written({pair}, Load(mem, Receive)) /\ run' = 0
  /\ IF pair = 0 THEN pair' = 1 /\ Goto("fillProfile") ELSE UNCHANGED pair /\ Goto("finally")
  /\ UNCHANGED <<progVars, loaded, checked, heapVars, mem, dmaVars, failures>>

TwoTower == program = "two_tower"
            /\ (PrepareTwoTower \/ AllocateTwoTower \/ RunTwoTower \/ WriteTwoTower \/ Finally)

-----------------------------------------------------------------------------
(* run_fpga_evalmul3_allpairs.py.                                           *)
UploadTable ==
  \/ /\ At("prepare") /\ Goto("profileBuffer")
     /\ UNCHANGED <<progVars, loopVars, heapVars, mem, dmaVars, failures>>
  \/ Allocate("profileBuffer", Profile, {Profile}, TRUE, "fillProfile")
  \/ Fill("fillProfile", Profile, ProfileFrame(ModuliTable), "sendProfile")
  \/ SendOnly("sendProfile", Profile)
  \/ SentOnly("freeProfile")
  \/ Free("freeProfile", {Profile}, "sendBuffer")

RunAllPairs ==
  \/ Allocate("sendBuffer", Send, {Send}, TRUE, "fillFrame")
  \/ Fill("fillFrame", Send, DataFrame(AllPairs), "receiveBuffer")
  \/ Allocate("receiveBuffer", Receive, {Receive}, TRUE, "runFrame")
  \/ RunFrame

(* validate_all_pairs, in every run: pair after pair is compared and then   *)
(* written, up to the first that differs.                                   *)
PairMatches(row, p) ==
  row.is = "result" /\ row.work = AllPairs /\ row.key[p] = PairModuli(p)
ValidateAllPairs ==
  LET matching == {p \in 0..(PairCount - 1) : \A q \in 0..p : PairMatches(checked', q)}
  IN  /\ At("validate")
      /\ checked' = Load(mem, Receive)
      /\ Written({t \in Everything : t \div 2 \in matching}, checked')
      /\ IF matching = 0..(PairCount - 1) THEN RunAgain("finally")
                                          ELSE Raise /\ UNCHANGED <<pair, run>>
      /\ UNCHANGED <<progVars, loaded, heapVars, mem, dmaVars, failures>>

EvalMul3AllPairs ==
  program = "evalmul3_allpairs" /\ (UploadTable \/ RunAllPairs \/ ValidateAllPairs \/ Finally)

ProductNext == Tower \/ TwoTower \/ EvalMul3AllPairs
=============================================================================
