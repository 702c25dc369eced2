--------------------------- MODULE RunnerPlatform ---------------------------
(***************************************************************************)
(* What the single-frame host programs of cli/ share: pairs of towers and  *)
(* their profiles, DMA buffers behind a CPU cache that DMA does not see,   *)
(* send_only and run_frame, clean-up by finally clauses, and an overlay    *)
(* that computes each data frame under the profile it last received.       *)
(* Allocations, alignment checks and DMA waits may fail.                   *)
(***************************************************************************)
EXTENDS Integers, Sequences

CONSTANTS
  Programs,      \* the programs of cli/ that may run
  TowerModuli,   \* the moduli of a vector set's towers, as sequences
  TowerRoots,    \* the roots of unity psi of its towers, likewise
  TimedRuns,     \* --timed-runs
  MaxFailures    \* allocations, alignment checks and waits that fail

ASSUME PlatformAssumption ==
  /\ TimedRuns \in Nat \ {0} /\ MaxFailures \in Nat
  /\ \A moduli \in TowerModuli : moduli \in Seq(Nat \ {0}) /\ moduli # <<>>

VARIABLES
  program, moduli, roots, \* what runs, on which towers
  pc, outcome,
  pair, run,            \* loop variables: pair_index, validated runs of it
  held, guarded,        \* live buffers, and those a finally clause will free
  loaded,               \* loaded_key
  checked, files,       \* the row last validated, the results written
  mem, mm2s, s2mm,      \* memory and its cache, the two DMA channels
  failures,
  device                \* the overlay: its profile, frames taken, rows owed

progVars == <<program, moduli, roots>>
loopVars == <<pair, run, loaded, checked, files>>
heapVars == <<held, guarded>>
dmaVars  == <<mm2s, s2mm, device>>
vars == <<progVars, pc, outcome, loopVars, heapVars, mem, dmaVars, failures>>

Profile == "profile_buffer"
Send    == "send_buffer"
Receive == "receive_buffer"
Buffers == {Profile, Send, Receive}
NoBuffer == "none"

(* Towers by pairs; an odd last tower is its own partner.                   *)
TowerCount == Len(moduli)
PairCount  == (TowerCount + 1) \div 2
Tower0(p)  == 2 * p
Tower1Real(p) == Tower0(p) + 1 < TowerCount
Tower1(p)  == IF Tower1Real(p) THEN Tower0(p) + 1 ELSE Tower0(p)

(* What profile frames tell an overlay: the moduli of a pair (reciprocals   *)
(* follow from them), of all pairs, or a tower's modulus and the tables of  *)
(* the powers of its root, for overlays that transform.                     *)
PairModuli(p)  == <<moduli[Tower0(p) + 1], moduli[Tower1(p) + 1]>>
ModuliTable    == [p \in 0..(PairCount - 1) |-> PairModuli(p)]
TowerTables(t) == [modulus |-> moduli[t + 1], psi |-> roots[t + 1]]
PairTables(p)  == <<TowerTables(Tower0(p)), TowerTables(Tower1(p))>>

(* What a buffer may hold.                                                  *)
Junk            == [is |-> "junk"]
Zero            == [is |-> "zero"]
ProfileFrame(k) == [is |-> "profile", key |-> k]
DataFrame(w)    == [is |-> "data", work |-> w]
Result(w, k, n) == [is |-> "result", work |-> w, key |-> k, frame |-> n]
Uncached        == [is |-> "uncached"]

-----------------------------------------------------------------------------
(* Memory, the CPU's cache, and the lines that may leave or enter it.       *)
Write(m, b, data) == [m EXCEPT !.cache[b] = data, !.dirty = @ \union {b}]
Flush(m, b) == IF b \in m.dirty THEN [m EXCEPT !.dram[b] = m.cache[b], !.dirty = @ \ {b}] ELSE m
Invalidate(m, b) == [m EXCEPT !.cache[b] = Uncached, !.dirty = @ \ {b}]
Load(m, b) == IF m.cache[b] = Uncached THEN m.dram[b] ELSE m.cache[b]

Evict ==
  /\ \E b \in mem.dirty : mem' = Invalidate(Flush(mem, b), b)
  /\ UNCHANGED <<progVars, pc, outcome, loopVars, heapVars, dmaVars, failures>>
Fetch ==
  /\ \E b \in held \ mem.dirty :
       mem.cache[b] = Uncached /\ mem' = [mem EXCEPT !.cache[b] = mem.dram[b]]
  /\ UNCHANGED <<progVars, pc, outcome, loopVars, heapVars, dmaVars, failures>>

-----------------------------------------------------------------------------
(* Control: a program steps from label to label; an exception runs the      *)
(* finally clauses it is under.                                             *)
At(here) == pc = here
Goto(next) == pc' = next /\ UNCHANGED outcome
Raise == pc' = "finally" /\ outcome' = "raised"
Fail  == failures < MaxFailures /\ failures' = failures + 1 /\ Raise

Finally ==
  /\ At("finally") /\ pc' = "ended"
  /\ outcome' = IF outcome = "raised" THEN "raised" ELSE "passed"
  /\ held' = held \ guarded /\ guarded' = {}
  /\ UNCHANGED <<progVars, loopVars, mem, dmaVars, failures>>

(* allocate, and the try that follows it once `tried' is allocated; a check *)
(* of alignment inside the try raises with the buffer held.                 *)
Allocate(here, b, tried, aligned, next) ==
  /\ At(here)
  /\ \/ /\ held' = held \union {b} /\ guarded' = guarded \union tried
        /\ \/ Goto(next) /\ UNCHANGED failures
           \/ aligned /\ Fail
     \/ Fail /\ UNCHANGED heapVars
  /\ UNCHANGED <<progVars, loopVars, mem, dmaVars>>

Free(here, buffers, next) ==
  /\ At(here) /\ Goto(next)
  /\ held' = held \ buffers /\ guarded' = guarded \ buffers
  /\ UNCHANGED <<progVars, loopVars, mem, dmaVars, failures>>

Fill(here, b, frame, next) ==
  /\ At(here) /\ Goto(next)
  /\ mem' = Write(mem, b, frame)
  /\ UNCHANGED <<progVars, loopVars, heapVars, dmaVars, failures>>

-----------------------------------------------------------------------------
(* send_only.                                                               *)
SendOnly(here, b) ==
  /\ At(here) /\ mm2s = NoBuffer /\ Goto("sendingOnly")
  /\ mem' = Flush(mem, b) /\ mm2s' = b
  /\ UNCHANGED <<progVars, loopVars, heapVars, s2mm, device, failures>>

SentOnly(next) ==
  /\ At("sendingOnly") /\ mm2s = NoBuffer /\ Goto(next)
  /\ UNCHANGED <<progVars, loopVars, heapVars, mem, dmaVars, failures>>

(* run_frame, up to the invalidation.                                       *)
ZeroReceive == Fill("runFrame", Receive, Zero, "arm")

(* A slip: the frame is not flushed.  The overlay takes what memory held,   *)
(* has no answer to it, and the wait for the row never returns.             *)
Arm_frameUnflushed ==
  /\ At("arm") /\ s2mm = NoBuffer /\ Goto("send")
  /\ mem' = Flush(mem, Receive) /\ s2mm' = Receive
  /\ UNCHANGED <<progVars, loopVars, heapVars, mm2s, device, failures>>
(* A slip: the zeroes are not flushed, and may be written back over a row.  *)
Arm_unflushed ==
  /\ At("arm") /\ s2mm = NoBuffer /\ Goto("send")
  /\ mem' = Flush(mem, Send) /\ s2mm' = Receive
  /\ UNCHANGED <<progVars, loopVars, heapVars, mm2s, device, failures>>
Arm ==
  /\ At("arm") /\ s2mm = NoBuffer /\ Goto("send")
  /\ mem' = Flush(Flush(mem, Send), Receive) /\ s2mm' = Receive
  /\ UNCHANGED <<progVars, loopVars, heapVars, mm2s, device, failures>>

SendFrame ==
  /\ At("send") /\ mm2s = NoBuffer /\ Goto("sending")
  /\ mm2s' = Send
  /\ UNCHANGED <<progVars, loopVars, heapVars, mem, s2mm, device, failures>>

FrameSent ==
  /\ At("sending") /\ mm2s = NoBuffer /\ Goto("receiving")
  /\ UNCHANGED <<progVars, loopVars, heapVars, mem, dmaVars, failures>>

Received ==
  /\ At("receiving") /\ s2mm = NoBuffer /\ Goto("validate")
  /\ mem' = Invalidate(mem, Receive)
  /\ UNCHANGED <<progVars, loopVars, heapVars, dmaVars, failures>>

RunFrame == ZeroReceive \/ Arm \/ SendFrame \/ FrameSent \/ Received

(* A wait of the driver may raise; nothing makes it, for it has no timeout. *)
WaitRaises ==
  /\ \/ pc \in {"sendingOnly", "sending"} /\ mm2s # NoBuffer
        /\ mm2s' = NoBuffer /\ UNCHANGED s2mm
     \/ pc = "receiving" /\ s2mm # NoBuffer
        /\ s2mm' = NoBuffer /\ UNCHANGED mm2s
  /\ Fail
  /\ UNCHANGED <<progVars, loopVars, heapVars, mem, device>>

(* Comparison with what OpenFHE computed for `work' under `key', and the     *)
(* writing of the compared row as the result of some towers.                *)
Matches(row, work, key) == row.is = "result" /\ row.work = work /\ row.key = key

Validate(work, key, Done) ==
  /\ At("validate")
  /\ checked' = Load(mem, Receive)
  /\ IF Matches(checked', work, key) THEN Done ELSE Raise /\ UNCHANGED <<pair, run, files>>
  /\ UNCHANGED <<progVars, loaded, heapVars, mem, dmaVars, failures>>

Written(towers, row) ==
  files' = [t \in DOMAIN files \union towers |-> IF t \in towers THEN row ELSE files[t]]

-----------------------------------------------------------------------------
(* The overlay: a frame is taken once the rows of the one before are out.   *)
Consume ==
  /\ mm2s # NoBuffer /\ device.owed = <<>>
  /\ mm2s' = NoBuffer
  /\ LET frame == mem.dram[mm2s]
     IN  device' = CASE frame.is = "profile" -> [device EXCEPT !.key = frame.key]
                     [] frame.is = "data" ->
                          [device EXCEPT !.frames = @ + 1,
                             !.owed = <<Result(frame.work, device.key, device.frames + 1)>>]
                     [] OTHER -> device
  /\ UNCHANGED <<progVars, pc, outcome, loopVars, heapVars, mem, s2mm, failures>>

Deliver ==
  /\ s2mm # NoBuffer /\ device.owed # <<>>
  /\ mem' = [mem EXCEPT !.dram[s2mm] = Head(device.owed)]
  /\ s2mm' = NoBuffer /\ device' = [device EXCEPT !.owed = Tail(@)]
  /\ UNCHANGED <<progVars, pc, outcome, loopVars, heapVars, mm2s, failures>>

-----------------------------------------------------------------------------
PlatformInit ==
  /\ program \in Programs /\ moduli \in TowerModuli
  /\ roots \in TowerRoots /\ Len(roots) = Len(moduli)
  /\ pc = "prepare" /\ outcome = "running"
  /\ pair = 0 /\ run = 0 /\ held = {} /\ guarded = {}
  /\ loaded = <<>> /\ checked = Junk /\ files = <<>>
  /\ mem = [dram |-> [b \in Buffers |-> Junk], cache |-> [b \in Buffers |-> Uncached], dirty |-> {}]
  /\ mm2s = NoBuffer /\ s2mm = NoBuffer /\ failures = 0
  /\ device = [key |-> <<>>, frames |-> 0, owed |-> <<>>]
=============================================================================
