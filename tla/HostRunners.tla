---------------------------- MODULE HostRunners ----------------------------
(***************************************************************************)
(* The programs of cli/ together: one of the ten single-frame runners works *)
(* on some vector set while the cache and the overlay go their own way, or *)
(* one of the three vector scripts on some export.                         *)
(***************************************************************************)
EXTENDS RelinRunner, TowerBatchRunner, ProductRunners, HostFrames

Runners     == RelinPrograms \union BatchPrograms \union ProductPrograms
AllPrograms == Runners \union Scripts

ASSUME RunnersAssumption == Programs \subseteq AllPrograms

(* run_fpga_tower.py and run_two_tower_fpga.py are given one and two towers; *)
(* their files have no tower count.                                         *)
TowersGiven ==
  /\ program = "tower" => TowerCount = 1
  /\ program = "two_tower" => TowerCount = 2

HostVars == <<vars, vectorVars>>

RunnerNext == (RelinNext \/ BatchNext \/ ProductNext) /\ UNCHANGED vectorVars
HostNext   == RunnerNext \/ VectorNext
WaitFails  == WaitRaises /\ UNCHANGED vectorVars
DeviceNext == (Consume \/ Deliver) /\ UNCHANGED vectorVars
CacheNext  == (Evict \/ Fetch) /\ UNCHANGED vectorVars

Init == PlatformInit /\ TowersGiven /\ VectorInit
Next == HostNext \/ WaitFails \/ DeviceNext \/ CacheNext
Spec == Init /\ [][Next]_HostVars

(* The program runs on while it can, and an overlay with a frame to take or *)
(* a row to deliver does it.  A wait whose transfer never ends goes on for  *)
(* ever: that one raises is possible, never certain.  Nothing is asked of   *)
(* the cache.                                                               *)
FairSpec == Spec /\ WF_HostVars(HostNext) /\ WF_HostVars(DeviceNext)

-----------------------------------------------------------------------------
(* The work and the profile a program's current comparison is about.        *)
Work == CASE program \in {"tower"} -> 0
          [] program = "evalmul3_allpairs" -> AllPairs
          [] OTHER -> pair
WorkKey == CASE program \in {"tower", "two_tower"} -> TowerTables(pair)
             [] program = "evalmul3_allpairs" -> ModuliTable
             [] program \in BatchPrograms -> OwnProfile(pair)
             [] OTHER -> PairModuli(pair)

(* When a program compares a receive buffer with OpenFHE's words, what it   *)
(* reads is the row the overlay computed from the last frame it took, on    *)
(* this pair's data and under this pair's profile: never zeroes, an earlier *)
(* run's row, or words its own cache kept.  It is what run_frame's zeroing, *)
(* flushes, waits and invalidation are for.                                 *)
ReadsFreshRow ==
  pc = "validate" => Load(mem, Receive) = Result(Work, WorkKey, device.frames)

(* A program that reaches its end without a failed allocation, alignment    *)
(* check or wait reports success, and has then written for every tower of   *)
(* the vector set a row of that tower's own pair, computed under that       *)
(* pair's profile: an odd last tower too, although its pair duplicates it,  *)
(* and when the upload was skipped because the key was already loaded.      *)
OwnWork(t) == CASE program \in {"tower", "two_tower"} -> t
                [] program = "evalmul3_allpairs" -> AllPairs
                [] OTHER -> t \div 2
OwnKey(t) == CASE program \in {"tower", "two_tower"} -> TowerTables(t)
               [] program = "evalmul3_allpairs" -> ModuliTable
               [] program \in BatchPrograms -> OwnProfile(t \div 2)
               [] OTHER -> PairModuli(t \div 2)
ResultsComplete ==
  (program \in Runners /\ pc = "ended" /\ failures = 0 /\ outcome # "rejected") =>
     /\ outcome = "passed"
     /\ DOMAIN files = 0..(TowerCount - 1)
     /\ \A t \in DOMAIN files : Matches(files[t], OwnWork(t), OwnKey(t))

(* A DMA channel that is moving words moves those of a live buffer, unless  *)
(* a wait raised while it ran; and no program ends holding a buffer,        *)
(* whatever failed, but for those it had allocated before the try that      *)
(* would free them when a later allocation of the same group failed.        *)
AllocatedBeforeTry ==
  CASE program \in RelinPrograms \union {"evalmul3_allpairs"} -> {}
    [] program = "two_tower" -> {Profile, Send}
    [] OTHER -> {Send}
BuffersSafe ==
  /\ failures = 0 => {mm2s, s2mm} \ {NoBuffer} \subseteq held
  /\ pc = "ended" => held \subseteq AllocatedBeforeTry
  /\ pc = "ended" /\ outcome = "passed" => held = {}

(* Every program comes to its end: each wait is for a transfer that some    *)
(* frame already on its way, or a row owed for it, will end; none is only   *)
(* ended by raising.                                                        *)
RunnersEnd == <>(pc = "ended")

(* A script that prints PASS has written, pair after pair and in the order  *)
(* in which its core answers, the words its core computes from the payload  *)
(* beside them.  Two of the scripts make sure of it whatever is wrong with  *)
(* the export; the coefficient-major one only repeats what OpenFHE wrote.   *)
Answer(words, q, n) ==
  CASE program = "prepare_relinearized"      -> CiphertextMajorAnswer(words, 4, q, n)
    [] program = "prepare_keyswitch_mac"     -> CiphertextMajorAnswer(words, 0, q, n)
    [] program = "prepare_coefficient_major" -> CoefficientMajorAnswer(words, ciphertexts, q, n)
Share(words, p) ==
  LET size == Len(words) \div PairCount IN SubSeq(words, p * size + 1, (p + 1) * size)

PreparedExact ==
  (program \in Scripts /\ pc = "ended") =>
    /\ outcome = "raised" => export # OpenFHE
    /\ outcome = "passed" /\ (program = "prepare_coefficient_major" => export = OpenFHE) =>
         \A p \in 0..(PairCount - 1) :
           LET outputs == Share(expectedWords, p)
           IN  \A n \in 1..Len(outputs) :
                 Answer(Share(payload, p), PairModuli(p), n - 1) = outputs[n]

(* The frame a relinearization runner builds for an export is the one its   *)
(* core takes, word for word, and it finds each of the core's answers in    *)
(* the element of its comparison array that holds OpenFHE's residue.        *)
Body(frame) == SubSeq(frame, 3, Len(frame))

FramesFeedCores ==
  (program \in Scripts /\ outcome = "passed" /\ export = OpenFHE) =>
    \A p \in 0..(PairCount - 1), count \in CiphertextCounts :
      LET q      == PairModuli(p)
          major  == FillCoefficientMajor(p, count)
          batch  == FillBatchFrame(p, count)
          counts == [count |-> count, digits |-> Digits]
      IN  /\ Len(major) = 2 + Layout!PayloadWords(counts)
          /\ Len(batch) = 2 + count * Coefficients * (4 + 3 * Digits)
          /\ \A n \in Indices(Layout!OutputWords(counts)) :
               /\ CoefficientMajorAnswer(Body(major), count, q, n)
                    = ValidateCoefficientMajor(p, count, n)
               /\ CiphertextMajorAnswer(Body(batch), 4, q, n) = ValidateBatch(p, n)
=============================================================================
