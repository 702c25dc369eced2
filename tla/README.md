# Verification of the PYNQ butterfly relinearization accelerator

TLA+ specifications of the homomorphic-encryption accelerator in this
repository and of the programs around it, the TLC configurations that
model-check them, and theorems about them checked by TLAPS. Hardware is followed
clock edge by clock edge, host programs from one blocking call, exception or
loop turn to the next, golden models butterfly by butterfly. Paths below are
relative to the repository; `cli/` is src/host/openfhe/python/pynq_butterfly/cli.

## 1. The system

The repository grew from small NTT cores to a Zynq accelerator that multiplies
and relinearizes OpenFHE ciphertexts. The current product is the *multi-pair
session* overlay:

```
 host runner (Python, PYNQ)             cli/run_fpga_bv_keyreuse_multi_pair_session.py
   | allocate / fill CMA, arm S2MM, one MM2S send per pair, wait
 AXI DMA + clock converter              Xilinx IP
   | 64-bit AXI-Stream, TKEEP, TLAST
 session DMA wrapper                    rtl/..._multi_pair_session_dma_wrapper.v
   |
 session wrapper                        rtl/evalmul3_bv_keyreuse_multi_pair_session_axis_core.sv
   | RLPF profile frame + RLCM batch frame per pair, injected headers
 relinearization core                   rtl/evalmul3_bv_keyreuse_drain_overlap_axis_core.sv
   | ten launches per coefficient word group
 pipelined Barrett multipliers          rtl/modmul_barrett60_pipeline_split_core.sv
```

### 1.1 Components, state, operations

**Pipelined Barrett multiplier.** State: eight register stages carrying a valid
bit, the product, the modulus and intermediate terms at exact widths (31, 60,
61, 63, 64, 91 bits). Operation: one product per clock, `a*b mod q` seven clocks
after capture. Hard: widths (which bits are dropped), a single conditional
subtraction, moduli that change between products in flight. Correct if every
result is the exact residue under the modulus it was launched with, and valid
bits are neither lost nor invented.

**Relinearization core.** State: an eleven-state input protocol, paired-tower
profile, batch and digit counts, input counters, two coefficient banks
(occupied / ready flags, four memories each), two metadata queues beside the
EvalMul and key-switch multipliers, a registered accumulator stage, an ordered
output scheduler and statistics counters. Operations: load a profile (`RLPF`),
run a batch (`RLCM`), wait for a bank, drain results, output. Five `always_ff`
blocks run in parallel and communicate through shared registers and event
wires. Hard: input of one coefficient, compute drain of the previous one and
output of the one before overlap; results arrive eight clocks after launch and
must find their bank; error paths leave work in flight; memories are not reset.
Correct if the output stream is the exact relinearization of the batch frame in
order, with one TLAST, whatever the gaps and backpressure, and every accepted
batch is delivered.

**Session wrapper.** State: a profile table, an open session (counts, expected
and current pair), a count of payload words still to come, a two-word FIFO, the
injected header word, a fourteen-state protocol. Operations: load a table
(`RLPT`), accept an indexed pair (`RLMP`), inject the child's headers, forward
payload, wait for the pair's output, discard a refused frame. Hard: the wrapper
does not see the child's counters but must agree with them word for word; it
swaps moduli between pairs; it withholds all TLASTs but one so that one receive
DMA spans the session; host frames may be cut short or run long.

**Host runner.** State: CMA buffers (arena, per pair, or one reused), DMA
channels. Operations: build the frames, arm the receive channel, send each pair
and wait, wait for the receive, validate. Hard: order of arming and sending,
failure between steps, buffer lifetime against an active DMA.

**DMA wrapper.** Stateless. Withholds ready from words with partial TKEEP and
leaves `protocol_error` unconnected, so a host sees protocol errors only as a
transfer that does not complete.

**Single-frame host runners.** Ten programs of cli/, one per overlay
generation: each sends a profile frame, then data frames one at a time with
`run_frame` (zero, flush, arm, send, wait, wait, invalidate), compares every row
with OpenFHE's residues and writes the results. State: up to three CMA buffers
with the `finally` clauses that free them, the loop over pairs and timed runs,
the key of the profile last loaded, the results written. They fall into three
families, by the structure of their `main`: relinearization runners that keep
their buffers to the end and send the profile anew each time; batch runners that
allocate per pair and, two of them, skip the upload of a profile already loaded;
and programs that keep one frame (one tower, two towers, all pairs at once).
Hard: stale rows in cache or memory, a skipped upload, odd numbers of towers,
failures between one allocation and the next. Correct if every comparison reads
the row of the frame just sent, every tower gets its own result, and nothing
live is freed nor anything freed in use.

**Vector preparation scripts.** Three scripts read an OpenFHE export, recompute
or copy its residues and pack payload words and expected words for a core. They
must agree with the word order the RTL takes and answers in; nothing in the
code relates the two.

**Golden models.** Three Python models of the negacyclic product, for n = 16,
256 and 4096: profile validation, twiddle tables, transforms in place,
schedules, memory snapshots, schoolbook references. Their files drive one
another's implementations, so they must agree about addresses, twiddles and
order.

**NTT transform engine.** State: stage and group counters, delayed addresses,
eight coefficient banks, a pipelined butterfly that serves both directions. One
group of four butterflies per clock, a drain after each stage. Hard: eight
coefficients must come from eight banks, and a stage must not read what the one
before has still in its pipeline.

**Not modelled.** Earlier relinearization cores (coefficient-major, ping-pong)
and the per-ciphertext cores' clocks, polynomial multiplication pipelines with
AXI-Lite, AXI-Stream, prefetch, buffered and handoff front ends, the other NTT
engines and stores, other Barrett variants, OpenFHE bridges, Vivado, simulation
and board scripts. PROJECT.json lists them with the reasons. Of the
copies under src/deploy, the two `_dma150` runners are byte for byte those of
cli/; the older `evalmul3_two_tower_dma` one is not looked at.

### 1.2 Interaction

Everything inside the FPGA is one clock domain and communicates by
valid/ready/last handshakes and by event wires evaluated before the edge. There
is no shared memory between host and core: only the two DMA streams. The
child core's output goes straight through the wrapper (only TLAST is gated), so
receive backpressure stops the output scheduler, then the banks, then input
(`STATE_WAIT_BANK`), then the wrapper's FIFO, then the send DMA. A host program
and its overlay run at their own speeds and meet in DMA memory, which the host
sees through a cache that DMA does not: what either finds there depends on
flushes, invalidations and waits. Golden models, vector scripts and engines
interact through files only.

## 2. Modules

| Module | Models |
| --- | --- |
| `BarrettPipeline` | the multiplier, all registers with their widths as multiples of the radix R (2^30 in the source) |
| `RelinLayout` | word order of an RLCM payload as the host packs it, and the value each output word must have, as a symbolic sum of products |
| `RelinStream` | abstract: what a relinearization core promises |
| `KeyreuseCore` | the core; `Clock(word, ready)` is one edge, one conjunct per `always_ff` block, wires are operators under their own names |
| `KeyreuseTraffic` | the core between a sender of frames, a receiver and a reset; refinement of `RelinStream` |
| `RelinSession` | abstract: what a session promises |
| `MultiPairSession` | the wrapper, one action per state, composed with `KeyreuseCore!Clock` fed by the wrapper's own wires |
| `SessionTraffic` | wrapper and core between a host and a receive channel; refinement of `RelinSession` |
| `HostSession` | the host runner, one action per blocking call or fallback, against an allocator, a CPU cache, the DMA and a device that answers pair frames in order |
| `RunnerPlatform` | what the ten single-frame programs share: pairs of towers, buffers behind a cache, `send_only`, `run_frame`, `finally` clauses, an overlay that computes under the profile it last received |
| `RelinRunner` | run_fpga_bv_keyreuse_drain_overlap.py, its coefficient-major and ping-pong forerunners, run_fpga_evalmul3_bv_relinearized.py |
| `TowerBatchRunner` | run_fpga_multitower_buffered.py, run_fpga_ciphertext_buffered.py, run_fpga_evalmul3.py |
| `ProductRunners` | run_fpga_tower.py, run_two_tower_fpga.py, run_fpga_evalmul3_allpairs.py |
| `VectorScripts` | the three prepare_..._vectors.py scripts of cli/ for relinearization cores, and OpenFHE's exports |
| `HostFrames` | frames the relinearization runners build, what a core answers to a payload, where a runner looks for each answer |
| `HostRunners` | all thirteen programs, with their properties |
| `Negacyclic` | profiles, root powers, factors, twiddle tables and the two reference products of model/golden_model_n4096.py |
| `GoldenProduct` | that model's `main`, one action per loop turn: validation, twisting, butterflies, pointwise product, comparison |
| `GoldenModel16`, `GoldenModel256` | the n = 16 and n = 256 models as functions |
| `PairedSchedule` | scripts/vectors/verify_ntt4096_dual_butterfly_banking.py |
| `TransformVectors` | reference transforms of scripts/vectors/prepare_ntt4096_four_butterfly_vectors.py |
| `AddressBits` | bits and parities of coefficient addresses |
| `TransformEngine` | rtl/ntt4096_four_butterfly_pipeline_transform_core.sv with its schedule, eight-bank store and dual-mode butterfly |
| `EngineBench` | the engine under its test bench |
| `Transforms` | golden models and engine side by side |
| `BarrettProofs`, `KeyreuseCoreProofs`, `KeyreuseProofs`, `SessionProofs`, `HostProofs`, `RunnerProofs`, `VectorProofs`, `EngineProofs` | theorems |
| `MC...` | finite instances |

Names of wires and registers are the source's. Registers that always move
together are one record (`eval_input`, `output`, `table`, `session`, ...);
a counter per bank is a function of the bank.

**Data.** A payload word is *where it came from* (frame, index), a residue is the
sequence of products it is the sum of, each tagged with the profile it was
reduced by. The comparison of an output word with `Relinearized` therefore fails
for a wrong operand, a missing or duplicated digit, a wrong bank, stale memory,
another pair's moduli or another order. `add_mod_pair` with moduli other than the
addends' yields `Garbage`, and so does memory that was never written.
What a product is worth numerically is `BarrettPipeline`'s subject.

**Pipelines.** The ten multipliers are two shift registers of `Latency` stages
(six EvalMul lanes launch together, four key-switch lanes launch together). The
valid bits of lanes launched together are equal, and the source checks only lane
0's; `LatencyFixed` shows no lane can drift.

**Wrong frames.** A faulty frame carries a refused value, ends early (any word),
runs long, or comes without a profile. A word's value is a member of a small
set; a refused one stands for all the values its comparison rejects.

**Host.** `held` is what the allocator has given out, `named` what `main`'s
variables refer to and its `finally` frees: a leak or a double free is a
difference between the two. A buffer is a set of rows (one per pair in the arena
and the receive buffer), a row holds one symbolic content. Memory is what DMA
sees; the CPU's cache may fetch any row or write any dirty row back at any time,
so a missing flush or invalidate shows. The allocator refuses what does not fit
its capacity, its longest block or its number of handles (board logs in
docs/history/readme-bv-keyreuse-multi-pair-cma-arena-fix.md show each mattering),
and any exception between allocation and use is a *misplaced* buffer. A DMA wait
may raise. The device is the session of `RelinSession` at the grain of pairs: it
takes a pair frame once earlier rows are out, for the banks hold two coefficients.
The frames themselves are `SessionTraffic`'s subject.

**Single-frame programs.** `pc` is a label per blocking call or loop turn, named
after what comes next; several programs share an action where their code is the
same function. A buffer is `held` when allocated and `guarded` when a `finally`
clause is in force that frees it, so an exception anywhere between shows as the
difference. `mem` has, for each buffer, what DMA sees (`dram`), what the CPU sees
(`cache`) and whether the line may still be written back (`dirty`); `Evict` and
`Fetch` happen at any time. A row names the work, the profile and the number of
the frame it answers, so reading last run's row, or this pair's row under the
previous pair's profile, is seen. A profile frame and the key that stands for it are
two things: the frame carries moduli and tables built from roots, the key what
`ProfileKey` names, and two of the batch programs decide by the key whether to upload, and
send the frame that their `ProfileFrameCache` built for the first pair with this key. All
towers have one cyclotomic order. The all-pairs program compares
and writes pair after pair, so a mismatch leaves the pairs before it written. Of the overlay only its behaviour at the two
channels is modelled. The scripts have no buffers and run on small numbers: a
word is a pair of residues, an export is either OpenFHE's or has one residue
changed, and OpenFHE's is its definition by the polynomials it samples.

**Transforms.** Ring size, modulus and root come from profiles, so the models
run with n = 1 to 8; `GoldenProduct` keeps the loops of the code (stage, block,
butterfly), the others, which are pure functions of their input, are recursive
functions. In `TransformEngine` four address triples become `Triples`, the ten
stages between a read and the write of its result become `Latency`; banks,
parities, orders of lanes and the delayed addresses are the source's. A
coefficient is a residue: the butterfly's exactness is `BarrettPipeline`'s subject.

**`Slip` definitions.** Operators whose comment starts with "A slip" are mutated
forms of the operator below them (a dropped guard, an off-by-one, a swapped
order). No specification uses them; each property is shown to fail when its
operator is replaced by the slip.

## 3. What TLC checks

| Run | Instance | Shows |
| --- | --- | --- |
| `barrett` | R = 8, moduli 5..7, two products, all operands, any gaps, reset | exact results, fixed latency, one subtraction |
| `barrett_documented` | R = 8, moduli 1..7 | *violated*: the documented range of q is too wide (finding 2) |
| `core_stream` | N = 4, 2 ciphertexts, 1 or 2 digits, 3 frames, 1 reset, latency and depths of the source | type invariant, results land in filling banks only, a drained bank is held, counters agree, `RelinStream` is implemented (exact words in order, no spurious error), every batch delivered |
| `core_source` | N = 4, 8 ciphertexts (the least batch), receiver always ready, any input gaps, queue depths 3 and 9 | input never waits for a bank; queues this shallow never stall it, let alone 16 and 32 |
| `core_faults` | N = 2, two profiles, four frames, each faulty in any way, sender waits for the core to drain after a fault | realignment (`FramesStayAligned`), `MetadataInStep`, later batches exact (`StreamExact`) |
| `core_abort` | a truncated frame with the next right behind it | *violated*: the core's assertion on result banks (finding 1) |
| `session` | N = 4, tables of one and two pairs, four frames, 1 reset, any gaps and backpressure | `RelinSession` is implemented; word counts agree |
| `session_delivered` | as `session`, fair, no reset | every session ends and the accelerator is free again |
| `session_faults` | N = 2, three frames with early, late and refused words anywhere | the child sees only well-formed frames (`ChildNeverErrs`) and is at rest when moduli change (`ChildRests`), no end of pair is missed, a session keeps its table |
| `host` | 2 pairs, warm-up and one timed run, every mode, 18 heaps, one misplaced buffer, one failing wait | frames and results arrive as built whatever the cache does; `auto` takes the first mode that fits alone; nothing leaks; no channel works on a freed buffer; the runner ends |
| `transforms` | golden models on rings of 1 to 8 coefficients, 42 accepted and refused profiles, monomials and dense inputs; engine with 64 coefficients modulo 257, pipeline of 3, two transforms behind each other, reset at any clock | every butterfly computes its part of the transform (`CellIsPartialTransform`); an accepted profile cannot fail its validation (`ValidationSucceeds`); schedules, twiddle addresses and banks of four programs agree (`SchedulesAgree`), and so do memories, results and references (`SnapshotsAgree`); the engine leaves the reference transform in its banks in the promised number of clocks (`TransformExact`) and reads only what is settled, from eight banks (`ReadsSettled`) |
| `runners` | 13 programs, vector sets of 1 to 4 towers with equal and different moduli and roots, warm-up and one timed run, one failing allocation, alignment check or wait, any cache; exports of 2 coefficients and 2 digits with any one residue changed | `ReadsFreshRow`, `ResultsComplete`, `BuffersSafe`; scripts that print PASS wrote the answers their core gives to the payload (`PreparedExact`); runners' frames are the ones their core takes and answers are looked for where they are (`FramesFeedCores`); every program ends |

**Bounds.** N = 4 uses each bank twice, so reuse of a bank, its counters and its
memories occurs; N = 2 (fault runs) uses each once per batch and again in the
next batch. Two ciphertexts and two digits give first/last and overwrite/add
cases. The latency is the source's 8, longer than a whole small batch, so results
of one coefficient always overlap the input of the next: harder than the source,
whose batches are at least the latency. Frame counts allow batch after batch,
profile after batch, session after session and table after session. `MaxIssue`,
`MaxFrames` and `MaxResets` are the only bounds on unbounded behaviour; the
statistics counters are bounded by them. R = 8 is the least radix with more than
one accepted modulus of each parity; the proofs cover the rest. `CHECK_DEADLOCK`
stays on for the hardware, whose clock always ticks; the host runner ends, and
`HostEnds` says it gets there. Its heaps are the least with each storage just
fitting or just not (capacity, block length, handles); two sessions make stale
rows of the first possible in the second.

For `runners`: one to four towers give one and two pairs, odd and even; two pairs
with one key (97, 101, 97, 101) make the second upload be skipped; pairs that share
only a first modulus (97, 101, 97, 89), or both moduli but not the roots (3, 5, 3, 7),
must not. The relinearization runners take twelve towers and no other number; the
run has `RelinTowers = 4`, and sees them refuse the rest; warm-up and one timed run make the row of the
run before a candidate for a stale read. Two coefficients, two ciphertexts and
two digits make every swap of word order visible, with moduli too large for
sampled residues to coincide. One failure is enough because a failure ends the
program. For `transforms`: n = 8 has three stages, first, middle and last;
profiles include every root for n = 4, composite and even moduli, and source
rings of higher degree. The engine has 64 coefficients (`Triples = 2`): six stages,
eight groups of four butterflies in each, so that groups of a stage follow one
another through the pipeline and the first of the next stage comes right behind;
forward then inverse makes the second start on the first's result. Programs that end stop, so these
two runs, and `host`, do not check deadlock: `RunnersEnd` and `HostEnds` do.

**Fairness.** `Runs`: the clock ticks. `Sends`: a frame once begun is eventually
offered its next word (MM2S completes a transfer it started); it is weak
fairness of the step with a word offered, so gaps of any length remain possible.
`Takes`: a receiver shown a word is eventually ready (S2MM is armed before the
first pair, run_fpga_bv_keyreuse_multi_pair_session.py:849). `StartPair`: the
host submits the remaining pairs of a session it opened (its loop at :860).
Nothing is assumed of the core or wrapper themselves beyond the clock. The host
runner is one thread that is never descheduled for good, and the device and its
channels go on while they can (`SessionDelivered` is the reason). The single-frame
programs and their overlays likewise: `HostNext` and `DeviceNext` are weakly fair,
each whole; the cache is not, a line may stay dirty for good. A wait may raise
(`WaitRaises`, `WaitFails`), but no fairness makes it: the source's waits have no
timeout, so one whose transfer nothing ends goes on for ever, and `HostEnds` or
`RunnersEnd` fails.

## 4. What is proved

All with tlapm from nothing; TLC checked each invariant first.

*Multiplier* (`BarrettProofs`; assumptions: R even, R >= 4, moduli with
R/2 <= q < R whose reciprocal fits 31 bits). `PipelineInvariant`: `PipelineInv`
says for each stage which part of the Barrett calculation it holds for the
operands `trace` remembers. It is inductive because each stage's value is
determined by the previous one's and the widths are shown not to cut anything.
The arithmetic core is `EstimatedQuotient` (the quotient is exact or one too
small) and `CorrectedIsResidue`. `Exactness`, `Latency7` and `OneSubtraction`
follow. Taking R = 2^30 gives the source.

*Core* (`KeyreuseCoreProofs`, `KeyreuseProofs`; assumption: `CoreAssumption`,
the constants are natural numbers and N is even). Two layers.

`CoreInv` is `MetadataInv /\ BankInv`: queue lengths equal the number of valid
stages, and a bank that is output is occupied and ready while nothing can start
or reset it except a header, which also silences the output. It is inductive for
*any* words offered, hence for all faulty traffic and inside the wrapper. It gives
`MetadataLockstep`, `BankHeld`, and with depths above the latency
`CreditsSuffice`. `AlignmentKept` (`FramesStayAligned`) also holds for any words:
its `FrameInv` relates the words the sender still owes to the state the
protocol swallows them in.

`FlowInv` is about traffic the core is meant for. It numbers the products of a
coefficient in the order they are launched, and says that whatever is in a
queue or a stage of either multiplier is the product whose number follows from how
many valid stages are ahead of it: the coefficient being computed or, at the
front, the end of the previous one (`PriorBank`). From these numbers it follows
in which bank a result lands, that the last one of a coefficient (and no other) hands
its bank over, that there is a bank free when the next coefficient starts,
and what the output has counted (its drain conjuncts). `LandsOnlyInFillingBank` and
`CountersAgree` say only what is seen at a landing or at rest, and are not
inductive. The assumption is `WellFormed`: `Faults = {}` and the counts of
frames within the limits of the core. The invariant is stated over the core and the words
offered (`KeyreuseCoreProofs`), so that it serves both the traffic of
`KeyreuseTraffic` and the wrapper's. `ResultsLandWhereTheyBelong`,
`CompletionCounted` and `NoFalseAlarm` follow; `RegistersInRange` adds `RangeInv`, since no
counter can be bounded without knowing where in its batch it is.
TLC checked `FlowInv` first on the instance of the run `core_stream` (97,403 states).

What the words are worth is the next layer, `DataInv`, stated for the number of the
frame under way so that it serves traffic and wrapper alike. An operand register
holds the payload word its counters name; the n-th oldest product of a pipeline is
the product due for the n-th entry of its queue (`InOrder`: position is measured by
the number of valid stages, not by stage); a memory cell holds the EvalMul products
once `eval_result_count` has passed it, and the sum of the first so many digits as
`FlowInv` counts results landed; the sum in `bv_accum` has yet to be written. A
batch of a single ciphertext adds a digit to a cell on consecutive results, one
clock after the sum before it is read: `GapInv` shows the two key words between
digits keep them far enough apart. `LoadInv` says a profile that is ready came in one
frame, `JobInv` that the job recorded at the header is the frame whose words go in,
and that `delivered` and `accepted` are the core's own counters written as one
number. With these inductive under `WellFormed` (`StreamInvariant`), `OutputExact`
reads the bank being drained, which `FlowInv` says is filled completely:
`OutputIsExact` is `StreamExact`. `CoreRefinesStream` then maps every step to a step
of `RelinStream` or a stutter, so that `ImplementsStream` holds for all constants
(`MaxFrames` a natural number). TLC checked `FlowInv`, `JobInv` and `StreamExact` together
first, on three frames of up to two ciphertexts (290,549 states).

That the next coefficient never waits for a bank (`NeverWaitsForBank`) is a matter of
timing, which `FlowInv` knows nothing of: it numbers products, and does not say how
long one stays. `TimelyInv` tells the time in words received. A clock takes one word
at most and moves every product one stage on, so while word p of a coefficient is
awaited the products of the coefficient before are all beyond stage p (counted with
`Rank`, as the valid stages ahead); they have landed by word `Latency`, the bank is
ready by `Latency + 1`, the output has it by `Latency + 2` and, the receiver being
always ready, ships a word in every clock after that. A coefficient of more than
`Latency + 3 + 2 * count` words therefore finds the bank free: `BankFreeInTime`, whose
hypotheses are `WellFormed`, `Readiness = {TRUE}` and that length (`RoomToDrain`).
`LeastBatchNeverWaits` reduces it to the smallest batch, `3 * MinBatch >= Latency + 2`:
the source's 8 ciphertexts would bear up to 22 stages, and it has 8. The length is
needed: TLC reaches `WAIT_BANK` with batches of 3 ciphertexts and one digit, `Latency` 8.

*Session* (`SessionProofs`). `ShiftAddExact`, `WordCountExact` and
`SourceLimitsFit` show that the five-, seven- and twelve-bit truncations of the
wrapper's word count lose nothing for batches of at most 64 ciphertexts and 16
digits; this is what keeps wrapper and child in step. `SessionCoreInvariant`
carries `CoreInv` over to the composition. `SessionInv` then shows that the wrapper,
whatever the host sends (every fault of `SessionTraffic`, truncation,
refused headers, resets), offers its child only well formed frames: for each
state of the wrapper, which word of which frame the child expects, and that the
count of words left agrees with the child's four counters. The child's `FlowInv`
is one of its conjuncts, each step of the child being a step of well formed traffic,
so that no separate environment has to be trusted. `ChildIsNeverWrong`,
`WordsCounted`, `LastWordSeen`, `RestsBetweenPairs` and `SessionKeepsTable` follow. The
assumption `SourceSized` is the source's limits: `MaxBatch <= 64`,
`MaxDigits <= 16`. TLC checked `SessionInv` on the instances of the runs
`session` (100,126 states) and `session_faults` (200,952).

`SessionRefines` is the refinement: a host that follows the protocol, the wrapper
and the core implement `RelinSession`, in whatever order clocks, gaps, backpressure,
submissions and resets come. Its assumptions are `SourceSized` and `WellBehaved`: no
faults (a host that cuts a frame short is promised nothing), counts within the
core's limits, tables of 1 to `MaxPairCount` profiles. `ImplementsSession` relates
what is shown to the host's list of jobs, so `SessionInv`, which knows nothing of
the host, is too weak. `TurnInvariant` adds to it, in two parts:

 - `HostTurn`: host and wrapper are in the same frame at the same word, or both
   between two; the table's registers are the host's table; the pair under way
   is the host's, and the counts in wrapper and core are those of its job;
 - `PairStream`: the profile in the core is that of the job owed, the FIFO holds
   the job's payload from where the core is (`PayloadSame`), `DataInv` holds of
   the job's frame while the wrapper forwards it or waits for its output, and the
   words delivered are those of the pairs done plus what the core has shipped.

From these, `ShownIsPromised` gives the word on the port as the word promised (TLAST
included, which the wrapper strips from every pair but the last), and each step
maps to one of `RelinSession`: a choice of the host to `LoadTable`, `Open` or
`Submit`, a clock to `Offer`, `Take` or a stutter, a reset to `Restart`. TLC checked
the conjuncts of both parts on the instance of `session` before they were proved.

*Host* (`HostProofs`; assumption: `HostAssumption`, the constants are natural
numbers). `HeldInv` gives what is held and what is named at each point of `main`,
`ModeInv` which modes can have led there, `ChannelInv` where a transfer can be
under way and on which buffer. `NothingLeaked` and `ChannelBuffersHeld` alone are
not inductive: they speak of the end, or of the buffers without the point at
which they are used. `HostNothingLeaked`, `HostStorageMatchesMode` and
`HostChannelBuffersHeld` follow for any number of pairs, runs and failures. That
no buffer is freed twice is part of `NothingLeaked`: a name refers to a live buffer.

What frames and rows contain takes two more layers. `DataInv` follows memory: what a
row would read as with the cache's lines over it (`Current`), and what memory itself
`Holds`, which is what the DMA moves. A send row is built before it is flushed
and memory holds it until it is built again; a receive row is not dirty while the
device may write it, and is read only after it is invalidated; the device's
own position in the sessions follows from `run` and `index`.
`HostSentIsBuilt` and `HostValidatedIsDelivered` follow, for any behaviour of the
cache. `ChoiceInv` relates the storage tried to the bytes allocated so far, and gives
`HostAutoTakesFirstThatFits`. All six invariants of the run `host` are
theorems. TLC checked both layers on that run's instance with two timed runs
(54,884 states).

*Single-frame programs* (`RunnerProofs`; assumptions: `PlatformAssumption`, vector sets
are nonempty sequences of moduli other than zero and there is a timed run;
`RunnersAssumption`, `Programs` are among the thirteen). Three layers, each an
inductive invariant that uses the ones below it:

 - Buffers: `HeldInv` says for each program and label which buffers are
   held and guarded, `ChannelInv` where a channel can be at work and that a
   failure leads to the end. `BuffersSafe` speaks of the end, or of held buffers
   without a label, and is not inductive. `RunnersBuffersSafe`.
 - Frames: `RunInv` follows a frame from its filling through flush, DMA,
   overlay and invalidation to the comparison, in terms of `Current`, what the
   program wrote last whether or not it has been written back; in particular the
   receive buffer is not dirty from `send` on, so no eviction can overwrite the
   row (the reason for flushing zeroes), and the overlay owes nothing outside a
   frame. `KeyInv` adds for each program why the overlay's profile is the right
   one when the frame is filled; for the programs that skip uploads, that
   `loaded`, once set, is the overlay's profile, and that pairs with one key have one
   frame (`KeyNames`, `CachedIsOwn`), since the key names moduli and roots. `RunnersReadFreshRow`: for every
   behaviour of the cache.
 - Results: `ResultInv` counts the results: which towers are done at each
   label of each program's loops, each with its own pair's work and profile;
   comparisons succeed by the layer below, so without a failure the only outcome
   is success. `RunnersResultsComplete`, for any number of towers.

*Vector scripts and frames* (`VectorProofs`; besides the assumptions above,
`VectorAssumption`: coefficients, digits and the least number of ciphertexts are
positive). The subject is what recursive functions compute: sums over digits and
products, concatenations of blocks. The library's induction rules take an operator
and cannot be used; `SetInduction` does their work, by the least natural number
outside a set (`WFMin`), for sets of the numbers at which a function is what it
should be. The proof goes up in three layers:

 - Sums. `PlusAssociative`: adding residues digit by digit, as the scripts do, in the
   order of an answer's products, as the cores do, or once without reducing, as an
   export's definition does, gives one result (`KsSummed`, `AccumulatesSplit`, `LaneSum`).
 - Layout. `Embeds` says where a block lies; `CiphertextAnswer` and `MajorAnswer` say
   that a core which finds a coefficient's block at its place answers with what is
   computed from that coefficient (`Computed`), for every index of an output.
   `FlattenUniform` and `Places` find the block in a concatenation and back.
 - Scripts. `ScriptInv` says of the loops over pairs and coefficients that payload and
   expected words are blocks of one width in their order, each compared and found
   exact (`Packed`), and that a script raises on a damaged export only.

`PreparedExact` speaks of the end, and is not inductive. `ScriptsPreparedExact` is it
for any towers, moduli, coefficients, digits and ciphertexts; `ScriptsFeedCores` is
`FramesFeedCores`: both kinds of batch frame are what the cores read, and answers are
compared with the element that holds their residue.

*Engine* (`EngineProofs`; hypothesis of its theorems: `ScheduleSound`). While the engine
is busy, the clocks gone by since its stage began decide all of its control: which group
is issued, what the capture register, the delayed addresses and the valid bits of the
pipeline belong to, how many groups are written (`Moment`, in which `Flight` is the
pipeline). `EngineInvariant`: this is inductive, with resets and loads at any clock.
`EngineOnTime`: a transform is done in the promised number of clocks. `EngineReadsSettled`
is `ReadsSettled`: a group is read from eight banks, and none of its coefficients is in
flight, since groups of a stage share no address and a stage starts with the pipeline
empty. `ScheduleSound` says what the schedule contributes: eight lanes in eight banks,
and a group can be told from any of its addresses. Addresses are built by folds over
bits and powers of two, which the provers leave uninterpreted; TLC evaluates
`ScheduleSound` with the run `transforms`, at every size up to the RTL's 4096
coefficients (`ScheduleSoundToRTLSize`).

Only model-checked:

 - `CellIsPartialTransform`, `ValidationSucceeds`, `SchedulesAgree`, `SnapshotsAgree` and
   the data of `TransformExact`: what butterflies over powers of roots, bit reversals
   and sizes 2^n compute. The provers have no exponentiation.
 - Liveness (`BatchDelivered`, `SessionDelivered`, `HostEnds`, `RunnersEnd`): temporal
   proofs under fairness and ENABLED are out of the prover's reach.

## 5. Disagreements found

1. `core_abort`. A frame truncated inside a coefficient returns the core to IDLE
   with products in flight; a header accepted within the latency marks only bank
   0 occupied, so a product for bank 1 lands in an unoccupied bank, contrary to
   the assertion at rtl/evalmul3_bv_keyreuse_drain_overlap_axis_core.sv:1931. The
   wrapper counts words itself and never lets this happen (`ChildNeverErrs`).
2. `barrett_documented`. The header of the multiplier and README.md:196 allow
   0 < q < 2^30; for q <= 2^29 the reciprocal does not fit the 31-bit port.

Some weaknesses of host programs contradict no stated claim. The properties except
them by name, and so do not catch them. Of the session runner: a misaligned reusable buffer is never freed (`NothingLeaked`
excepts it), and after a send wait that raises the receive buffer is freed with
its transfer still armed (`ChannelBuffersHeld` holds only while no wait has raised).
Of the single-frame programs (`AllocatedBeforeTry`): in the batch programs and
run_fpga_tower.py the second allocation is made before the `try` that frees the
first, so that its failure leaks the send buffer; in run_two_tower_fpga.py, two
buffers. The coefficient-major vector script copies OpenFHE's residues without
computing them, so its `expected_words` are only as good as the export
(`PreparedExact` asks it for OpenFHE's own exports only).

## 6. Not modelled, and why

Data paths' bit layout (lane packing, endianness), statistics outputs that only
mirror registers, simulation-only assertions (several are properties here), the
DMA IP, the clock converter and PYNQ (not in the repository; `HostSession` and
`RunnerPlatform` model what the programs rely on). Of all programs: argument and
limit checks, file formats and sizes, modulus-width and frame-length checks of
readers and scripts, timing, reports, and an interrupt from the keyboard, which their `except Exception`
clauses do not catch. The n = 4096 golden model draws 32 nonzero coefficients for a sparse
product and eight points for a dense one (model/golden_model_n4096.py:588 and :672),
which would raise on rings smaller than that; on those checked, `GoldenProduct` takes
the inputs of its profile's set and every point. The 32-bit statistics counters do not wrap in the model. A
batch run under a profile whose reciprocals were refused has no specified value;
`StreamExact` says nothing of it. What a refused pair frame leaves of the host's
receive transfer is not modelled: the runner has no timeout, and sends none.

RTL outside the product's path: the per-ciphertext EvalMul and key-switch cores
(of the relinearization one, the function of its payload is in `HostFrames`), the
earlier coefficient-major and ping-pong cores, polynomial pipelines and their
front ends, the remaining NTT engines and stores, other multipliers. They are
clocked designs of the same kinds as the ones modelled; each would take a module
of its own. The OpenFHE bridges (C++) are sequential exports around a library
that is not in the repository.

## 7. Plan

Done: the session product from multiplier to host runner; the single-frame host
runners and vector scripts; the golden models; the four-butterfly engine. Next, in
order:

1. `PingpongCore`, `CoefficientMajorCore`: predecessors as variants implementing
   `RelinStream`, showing what each generation's overlap adds.
2. `EvalMulSession` (all-tower core), the per-ciphertext relinearization core's
   clocks, and its composition with `RelinRunner` in place of the abstract overlay.
3. Bank handoff of the polynomial pipelines (prefetch, buffered, handoff4).
4. Proofs: `ScheduleSound` itself, with the bank functions rewritten without folds.
