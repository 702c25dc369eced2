---------------------------- MODULE KeyreuseCore ----------------------------
(***************************************************************************)
(* The coefficient-major relinearization core with evaluation-key reuse    *)
(* and compute-drain overlap,                                              *)
(* rtl/evalmul3_bv_keyreuse_drain_overlap_axis_core.sv.  One step (Clock)  *)
(* is one rising clock edge with the word offered on s_axis and the value  *)
(* of m_axis_tready as inputs; every always_ff block is one conjunct.      *)
(* Data is symbolic (RelinLayout); BarrettPipeline says what a product is  *)
(* worth.                                                                  *)
(***************************************************************************)
EXTENDS RelinLayout, FiniteSets

CONSTANTS
  MinBatch, MaxBatch, MaxDigits,
  EvalMetaDepth, BvMetaDepth,
  Latency,        \* register stages of a multiplier, 8 in the source
  Profiles        \* paired-tower profiles a frame can load

ASSUME CoreAssumption ==
  /\ N \in Nat /\ N >= 2 /\ N % 2 = 0
  /\ MinBatch \in Nat \ {0} /\ MaxBatch \in Nat /\ MinBatch <= MaxBatch
  /\ MaxDigits \in Nat \ {0}
  /\ EvalMetaDepth \in Nat \ {0} /\ BvMetaDepth \in Nat \ {0}
  /\ Latency \in Nat \ {0}
  /\ NoProfile \notin Profiles

VARIABLES
  state, protocol_error,
  profile,            \* modulus_word, mu_word and profile_ready
  batch,              \* batch_count and digit_count
  coefficient_index, compute_bank,
  eval_input,         \* ciphertext, phase and the three operand registers
  bv_input,           \* digit, ciphertext and the two held key words
  completed,          \* the profile, ciphertext and batch counters
  bank_occupied, bank_ready,
  output,             \* the output scheduler's registers
  completed_coefficients,
  eval_meta, eval_pipe, eval_result_count, c0_memory, c1_memory,
  bv_meta, bv_pipe, bv_accum, bv_final_result_count, ks_b_memory, ks_a_memory

protocolVars == <<state, protocol_error, profile, batch, coefficient_index,
                  compute_bank, eval_input, bv_input, completed>>
bankVars   == <<bank_occupied, bank_ready>>
outputVars == <<output, completed_coefficients>>
evalVars   == <<eval_meta, eval_pipe, eval_result_count, c0_memory, c1_memory>>
bvVars     == <<bv_meta, bv_pipe, bv_accum, bv_final_result_count,
                ks_b_memory, ks_a_memory>>
coreVars   == <<protocolVars, bankVars, outputVars, evalVars, bvVars>>

Banks == 0..1
Other(bank) == 1 - bank
Ciphertexts == 0..(MaxBatch - 1)
LastCoefficient == N - 1

-----------------------------------------------------------------------------
(* Symbolic data.                                                          *)
Garbage   == <<Product(ZeroWord, ZeroWord, NoProfile)>>
NoProduct == [valid |-> FALSE]

(* add_mod_pair: the sum is a residue only if both addends are residues of *)
(* the modulus of this very clock.                                         *)
AddMod(x, y, q) ==
  IF \A term \in {x[i] : i \in DOMAIN x} \union {y[i] : i \in DOMAIN y} : term.q = q
    THEN x \o y ELSE Garbage

(* A word of the input stream: what it is, its value, and TLAST.           *)
NoWord == [is |-> "nothing", value |-> ZeroWord, last |-> FALSE]

(* A reciprocal of another modulus reduces by neither.                     *)
LoadedProfile == IF profile.q = profile.mu THEN profile.q ELSE NoProfile

-----------------------------------------------------------------------------
(* Combinational wires.                                                    *)
s_axis_tready ==
  \/ state \in {"IDLE", "PROFILE_Q", "PROFILE_MU", "BATCH_HEADER",
                "COEFFICIENT_KEY_B", "COEFFICIENT_KEY_A", "DISCARD"}
  \/ state = "COEFFICIENT_EVAL"
       /\ (eval_input.phase = 3 => Len(eval_meta) < EvalMetaDepth)
  \/ state = "COEFFICIENT_DIGITS" /\ Len(bv_meta) < BvMetaDepth

Handshake(word) == word.is # "nothing" /\ s_axis_tready

(* A slip: one ciphertext too many.                                         *)
final_input_ciphertext_late == eval_input.ciphertext = batch.count
final_input_ciphertext == eval_input.ciphertext + 1 = batch.count
final_bv_ciphertext    == bv_input.ciphertext + 1 = batch.count
final_bv_digit         == bv_input.digit + 1 = batch.digits
final_external_payload_word ==
  final_bv_ciphertext /\ final_bv_digit /\ coefficient_index = LastCoefficient

ValidCounts(word) ==
  /\ word.is = "counts"
  /\ word.value.count \in MinBatch..MaxBatch
  /\ word.value.digits \in 1..MaxDigits

accepted_batch_header(word) ==
  state = "BATCH_HEADER" /\ Handshake(word) /\ ~word.last /\ ValidCounts(word)

input_coefficient_complete(word) ==
  /\ state = "COEFFICIENT_DIGITS" /\ Handshake(word)
  /\ final_bv_ciphertext /\ final_bv_digit

(* Slips: a bank is taken while it drains; compute waits until everything   *)
(* has drained.                                                            *)
next_bank_available_always == TRUE
next_bank_available_serialized == \A bank \in Banks : ~bank_occupied[bank]
next_bank_available == ~bank_occupied[Other(compute_bank)]

start_next_coefficient_event(word) ==
  /\ next_bank_available
  /\ \/ input_coefficient_complete(word) /\ coefficient_index # LastCoefficient
     \/ state = "WAIT_BANK"

(* Slips: a bank is handed over before its key switch is finished; only   *)
(* while the other one is idle.                                              *)
compute_complete_eval_only(bank) ==
  /\ bank_occupied[bank] /\ ~bank_ready[bank]
  /\ eval_result_count[bank] = batch.count
compute_complete_alone(bank) ==
  /\ bank_occupied[bank] /\ ~bank_ready[bank] /\ ~bank_occupied[Other(bank)]
  /\ eval_result_count[bank] = batch.count
  /\ bv_final_result_count[bank] = batch.count
compute_complete(bank) ==
  /\ bank_occupied[bank] /\ ~bank_ready[bank]
  /\ eval_result_count[bank] = batch.count
  /\ bv_final_result_count[bank] = batch.count

m_axis_tvalid == output.active
m_axis_tdata ==
  IF output.component = 1
    THEN AddMod(c1_memory[output.bank][output.ciphertext],
                ks_a_memory[output.bank][output.ciphertext], profile.q)
    ELSE AddMod(c0_memory[output.bank][output.ciphertext],
                ks_b_memory[output.bank][output.ciphertext], profile.q)
m_axis_tlast ==
  /\ output.active /\ output.component = 1
  /\ output.ciphertext + 1 = batch.count
  /\ output.coefficient_index = LastCoefficient

output_coefficient_complete(ready) ==
  /\ output.active /\ ready
  /\ output.component = 1 /\ output.ciphertext + 1 = batch.count
output_batch_complete(ready) ==
  output_coefficient_complete(ready) /\ output.coefficient_index = LastCoefficient

accelerator_busy ==
  \/ state # "IDLE" \/ output.active
  \/ \E bank \in Banks : bank_occupied[bank] \/ bank_ready[bank]
  \/ eval_meta # <<>> \/ bv_meta # <<>> \/ bv_accum.valid

eval_launch(word) ==
  state = "COEFFICIENT_EVAL" /\ Handshake(word) /\ eval_input.phase = 3
bv_launch(word) == state = "COEFFICIENT_DIGITS" /\ Handshake(word)

-----------------------------------------------------------------------------
(* External protocol and coefficient scheduler.                            *)

(* A slip: wait for a TLAST that the refused word already carried.          *)
Reject_always_discards(word) ==
  /\ protocol_error' = TRUE
  /\ state' = "DISCARD"
  /\ UNCHANGED <<profile, batch, coefficient_index, compute_bank, eval_input,
                 bv_input, completed>>

(* The frame is refused: what is left of it, up to TLAST, is discarded.    *)
Reject(word) ==
  /\ protocol_error' = TRUE
  /\ state' = IF word.last THEN "IDLE" ELSE "DISCARD"
  /\ UNCHANGED <<profile, batch, coefficient_index, compute_bank, eval_input,
                 bv_input, completed>>

Goto(next) == state' = next /\ UNCHANGED protocol_error

AcceptCommand(word) ==
  /\ state = "IDLE"
  /\ IF word.last \/ ~(word.is = "RLPF" \/ (word.is = "RLCM" /\ profile.ready))
       THEN Reject(word)
       ELSE /\ Goto(IF word.is = "RLPF" THEN "PROFILE_Q" ELSE "BATCH_HEADER")
            /\ UNCHANGED <<profile, batch, coefficient_index, compute_bank,
                           eval_input, bv_input, completed>>

AcceptModuli(word) ==
  /\ state = "PROFILE_Q"
  /\ IF word.last \/ word.is # "moduli" \/ word.value \notin Profiles
       THEN Reject(word)
       ELSE /\ Goto("PROFILE_MU")
            /\ profile' = [profile EXCEPT !.q = word.value]
            /\ UNCHANGED <<batch, coefficient_index, compute_bank, eval_input,
                           bv_input, completed>>

AcceptReciprocals(word) ==
  /\ state = "PROFILE_MU"
  /\ IF ~word.last \/ word.is # "reciprocals" \/ word.value \notin Profiles
       THEN Reject(word)
       ELSE /\ Goto("IDLE")
            /\ profile' = [profile EXCEPT !.mu = word.value, !.ready = TRUE]
            /\ completed' = [completed EXCEPT !.profiles = @ + 1]
            /\ UNCHANGED <<batch, coefficient_index, compute_bank, eval_input,
                           bv_input>>

(* A slip: the digit counter is left where an aborted frame had it.         *)
RestartInput_keeps_digit ==
  /\ eval_input' = [eval_input EXCEPT !.ciphertext = 0, !.phase = 0]
  /\ bv_input' = [bv_input EXCEPT !.ciphertext = 0]

(* What a coefficient's input starts from, whatever the last one left.     *)
RestartInput ==
  /\ eval_input' = [eval_input EXCEPT !.ciphertext = 0, !.phase = 0]
  /\ bv_input' = [bv_input EXCEPT !.digit = 0, !.ciphertext = 0]

AcceptCounts(word) ==
  /\ state = "BATCH_HEADER"
  /\ IF word.last \/ ~ValidCounts(word)
       THEN Reject(word)
       ELSE /\ Goto("COEFFICIENT_EVAL")
            /\ batch' = word.value
            /\ coefficient_index' = 0
            /\ compute_bank' = 0
            /\ RestartInput
            /\ UNCHANGED <<profile, completed>>

(* TLAST inside a coefficient ends the frame and leaves the batch undone.  *)
Truncate ==
  /\ protocol_error' = TRUE /\ state' = "IDLE"
  /\ UNCHANGED <<profile, batch, coefficient_index, compute_bank, eval_input,
                 bv_input, completed>>

AcceptOperand(word) ==
  /\ state = "COEFFICIENT_EVAL"
  /\ IF word.last THEN Truncate
     ELSE /\ eval_input' =
               [ciphertext |-> IF eval_input.phase < 3 THEN eval_input.ciphertext
                               ELSE IF final_input_ciphertext THEN 0
                               ELSE eval_input.ciphertext + 1,
                phase |-> (eval_input.phase + 1) % 4,
                a0 |-> IF eval_input.phase = 0 THEN word.value ELSE eval_input.a0,
                a1 |-> IF eval_input.phase = 1 THEN word.value ELSE eval_input.a1,
                b0 |-> IF eval_input.phase = 2 THEN word.value ELSE eval_input.b0]
          /\ Goto(IF eval_input.phase = 3 /\ final_input_ciphertext
                    THEN "COEFFICIENT_KEY_B" ELSE state)
          /\ UNCHANGED <<profile, batch, coefficient_index, compute_bank,
                         bv_input, completed>>

AcceptKey(word) ==
  /\ state \in {"COEFFICIENT_KEY_B", "COEFFICIENT_KEY_A"}
  /\ IF word.last THEN Truncate
     ELSE /\ IF state = "COEFFICIENT_KEY_B"
               THEN /\ bv_input' = [bv_input EXCEPT !.key_b = word.value]
                    /\ Goto("COEFFICIENT_KEY_A")
               ELSE /\ bv_input' = [bv_input EXCEPT !.key_a = word.value,
                                                    !.ciphertext = 0]
                    /\ Goto("COEFFICIENT_DIGITS")
          /\ UNCHANGED <<profile, batch, coefficient_index, compute_bank,
                         eval_input, completed>>

(* The next coefficient goes to the bank this one does not use.            *)
StartNextCoefficient ==
  /\ coefficient_index' = coefficient_index + 1
  /\ compute_bank' = Other(compute_bank)
  /\ RestartInput
  /\ Goto("COEFFICIENT_EVAL")
  /\ UNCHANGED <<profile, batch, completed>>

AcceptDigit(word) ==
  /\ state = "COEFFICIENT_DIGITS"
  /\ IF word.last # final_external_payload_word THEN Reject(word)
     ELSE IF input_coefficient_complete(word) /\ coefficient_index # LastCoefficient
               /\ next_bank_available
       THEN StartNextCoefficient
     ELSE /\ bv_input' =
               [bv_input EXCEPT
                  !.ciphertext = IF final_bv_ciphertext THEN 0 ELSE @ + 1,
                  !.digit = IF ~final_bv_ciphertext THEN @
                            ELSE IF final_bv_digit THEN 0 ELSE @ + 1]
          /\ Goto(IF ~final_bv_ciphertext THEN state
                  ELSE IF ~final_bv_digit THEN "COEFFICIENT_KEY_B"
                  ELSE IF coefficient_index = LastCoefficient
                    THEN "WAIT_BATCH_OUTPUT" ELSE "WAIT_BANK")
          /\ UNCHANGED <<profile, batch, coefficient_index, compute_bank,
                         eval_input, completed>>

Discard(word) ==
  /\ state = "DISCARD"
  /\ Goto(IF word.last THEN "IDLE" ELSE state)
  /\ UNCHANGED <<profile, batch, coefficient_index, compute_bank, eval_input,
                 bv_input, completed>>

WaitBank == state = "WAIT_BANK" /\ next_bank_available /\ StartNextCoefficient

(* A slip: ciphertexts are counted as batches are.                          *)
FinishBatch_counts_one(ready) ==
  /\ state = "WAIT_BATCH_OUTPUT" /\ output_batch_complete(ready)
  /\ completed' = [completed EXCEPT !.ciphertexts = @ + 1, !.batches = @ + 1]
  /\ Goto("IDLE")
  /\ UNCHANGED <<profile, batch, coefficient_index, compute_bank, eval_input,
                 bv_input>>

FinishBatch(ready) ==
  /\ state = "WAIT_BATCH_OUTPUT" /\ output_batch_complete(ready)
  /\ completed' = [completed EXCEPT !.ciphertexts = @ + batch.count,
                                    !.batches = @ + 1]
  /\ Goto("IDLE")
  /\ UNCHANGED <<profile, batch, coefficient_index, compute_bank, eval_input,
                 bv_input>>

(* No word is transferred and no wait ends.                                *)
Hold(word, ready) ==
  /\ ~Handshake(word)
  /\ ~(state = "WAIT_BANK" /\ next_bank_available)
  /\ ~(state = "WAIT_BATCH_OUTPUT" /\ output_batch_complete(ready))
  /\ UNCHANGED protocolVars

Protocol(word, ready) ==
  \/ /\ Handshake(word)
     /\ \/ AcceptCommand(word)     \/ AcceptModuli(word)
        \/ AcceptReciprocals(word) \/ AcceptCounts(word)
        \/ AcceptOperand(word)     \/ AcceptKey(word)
        \/ AcceptDigit(word)       \/ Discard(word)
  \/ WaitBank
  \/ FinishBatch(ready)
  \/ Hold(word, ready)

-----------------------------------------------------------------------------
(* Two-bank ownership: a release overrides what else happens to a bank.    *)
BankOwnership(word, ready) ==
  IF accepted_batch_header(word)
    THEN /\ bank_occupied' = [bank \in Banks |-> bank = 0]
         /\ bank_ready' = [bank \in Banks |-> FALSE]
    ELSE LET released(bank) ==
               output_coefficient_complete(ready) /\ bank = output.bank
             started(bank) ==
               start_next_coefficient_event(word) /\ bank = Other(compute_bank)
         IN /\ bank_occupied' =
                 [bank \in Banks |->
                    ~released(bank) /\ (started(bank) \/ bank_occupied[bank])]
            /\ bank_ready' =
                 [bank \in Banks |->
                    /\ ~released(bank)
                    /\ compute_complete(bank) \/ (bank_ready[bank] /\ ~started(bank))]

(* Ordered output scheduler: the parity of a coefficient is its bank.      *)
IdleOutput == [active |-> FALSE, bank |-> 0, coefficient_index |-> 0,
               ciphertext |-> 0, component |-> 0]

OutputScheduler(word, ready) ==
  LET parity == output.coefficient_index % 2
      final  == output.ciphertext + 1 = batch.count
  IN
  \/ /\ accepted_batch_header(word)
     /\ output' = IdleOutput
     /\ UNCHANGED completed_coefficients
  \/ /\ ~accepted_batch_header(word) /\ ~output.active
     /\ output' = IF bank_ready[parity]
                    THEN [output EXCEPT !.active = TRUE, !.bank = parity,
                                        !.ciphertext = 0, !.component = 0]
                    ELSE output
     /\ UNCHANGED completed_coefficients
  \/ /\ ~accepted_batch_header(word) /\ output.active /\ ~ready
     /\ UNCHANGED outputVars
  \/ /\ ~accepted_batch_header(word) /\ output.active /\ ready
     /\ output.component = 0
     /\ output' = [output EXCEPT !.component = 1]
     /\ UNCHANGED completed_coefficients
  \/ /\ ~accepted_batch_header(word) /\ output.active /\ ready
     /\ output.component = 1
     /\ completed_coefficients' = completed_coefficients + 1
     /\ output' =
          [output EXCEPT
             !.component = 0,
             !.active = ~final,
             !.ciphertext = IF final THEN 0 ELSE @ + 1,
             !.coefficient_index =
               IF final /\ @ # LastCoefficient THEN @ + 1 ELSE @]

-----------------------------------------------------------------------------
(* EvalMul: launch metadata runs beside the multipliers and names the bank *)
(* and ciphertext a result is for.                                         *)
Shift(pipe, product) ==
  [stage \in 1..Latency |-> IF stage = 1 THEN product ELSE pipe[stage - 1]]

(* A slip: a credit is lost when a push and a pop coincide.                 *)
Push_loses_credit(meta, pop, push, entry) ==
  (IF pop /\ ~push THEN Tail(meta) ELSE meta) \o (IF push THEN <<entry>> ELSE <<>>)
Push(meta, pop, push, entry) ==
  (IF pop THEN Tail(meta) ELSE meta) \o (IF push THEN <<entry>> ELSE <<>>)

(* Per-bank result counters: a header clears both, a coefficient its own.  *)
Counted(count, word, hit) ==
  [bank \in Banks |->
     IF accepted_batch_header(word) THEN 0
     ELSE IF hit[bank] THEN count[bank] + 1
     ELSE IF start_next_coefficient_event(word) /\ bank = Other(compute_bank) THEN 0
     ELSE count[bank]]

eval_meta_pop == eval_pipe[Latency].valid
eval_result_c0 == <<eval_pipe[Latency].a0b0>>
eval_result_c1 == AddMod(<<eval_pipe[Latency].a0b1>>,
                         <<eval_pipe[Latency].a1b0>>, profile.q)

EvalPath(word) ==
  LET pop == eval_meta_pop
      entry == Head(eval_meta)
      hit == [bank \in Banks |-> pop /\ entry.bank = bank]
      launched(b1) ==
        [valid |-> TRUE,
         a0b0 |-> Product(eval_input.a0, eval_input.b0, LoadedProfile),
         a0b1 |-> Product(eval_input.a0, b1, LoadedProfile),
         a1b0 |-> Product(eval_input.a1, eval_input.b0, LoadedProfile)]
  IN
  /\ eval_meta' = Push(eval_meta, pop, eval_launch(word),
                       [ciphertext |-> eval_input.ciphertext, bank |-> compute_bank])
  /\ eval_pipe' = Shift(eval_pipe, IF eval_launch(word)
                                     THEN launched(word.value) ELSE NoProduct)
  /\ eval_result_count' = Counted(eval_result_count, word, hit)
  /\ IF pop
       THEN /\ c0_memory' = [c0_memory EXCEPT
                              ![entry.bank][entry.ciphertext] = eval_result_c0]
            /\ c1_memory' = [c1_memory EXCEPT
                              ![entry.bank][entry.ciphertext] = eval_result_c1]
       ELSE UNCHANGED <<c0_memory, c1_memory>>

(* BV accumulation: the accumulator is read as a product leaves its        *)
(* multiplier, and written one clock later.                                *)
bv_meta_pop == bv_pipe[Latency].valid

(* A slip: digit 0 adds to what the memory held before.                     *)
Accumulated_always(prior, result) == AddMod(prior, <<result>>, profile.q)

(* Digit 0 starts a sum, whatever the memory held; later digits add to it. *)
Accumulated(prior, result) ==
  IF bv_accum.digit = 0 THEN <<result>> ELSE AddMod(prior, <<result>>, profile.q)

BvPath(word) ==
  LET pop == bv_meta_pop
      entry == Head(bv_meta)
      final ==
        [bank \in Banks |-> /\ bv_accum.valid /\ bv_accum.bank = bank
                            /\ bv_accum.digit + 1 = batch.digits]
      launched ==
        [valid |-> TRUE,
         b |-> Product(word.value, bv_input.key_b, LoadedProfile),
         a |-> Product(word.value, bv_input.key_a, LoadedProfile)]
  IN
  /\ bv_meta' = Push(bv_meta, pop, bv_launch(word),
                     [ciphertext |-> bv_input.ciphertext,
                      digit |-> bv_input.digit, bank |-> compute_bank])
  /\ bv_pipe' = Shift(bv_pipe, IF bv_launch(word) THEN launched ELSE NoProduct)
  /\ bv_final_result_count' = Counted(bv_final_result_count, word, final)
  /\ bv_accum' =
       IF ~pop THEN [bv_accum EXCEPT !.valid = FALSE]
       ELSE [valid |-> TRUE, bank |-> entry.bank, digit |-> entry.digit,
             ciphertext |-> entry.ciphertext,
             result_b |-> bv_pipe[Latency].b, result_a |-> bv_pipe[Latency].a,
             prior_b |-> ks_b_memory[entry.bank][entry.ciphertext],
             prior_a |-> ks_a_memory[entry.bank][entry.ciphertext]]
  /\ IF bv_accum.valid
       THEN /\ ks_b_memory' =
                 [ks_b_memory EXCEPT ![bv_accum.bank][bv_accum.ciphertext] =
                    Accumulated(bv_accum.prior_b, bv_accum.result_b)]
            /\ ks_a_memory' =
                 [ks_a_memory EXCEPT ![bv_accum.bank][bv_accum.ciphertext] =
                    Accumulated(bv_accum.prior_a, bv_accum.result_a)]
       ELSE UNCHANGED <<ks_b_memory, ks_a_memory>>

-----------------------------------------------------------------------------
(* One clock edge.                                                         *)
Clock(word, ready) ==
  /\ Protocol(word, ready)
  /\ BankOwnership(word, ready)
  /\ OutputScheduler(word, ready)
  /\ EvalPath(word)
  /\ BvPath(word)

(* Every register as reset_n leaves it; the memories keep what they held.  *)
ResetProfile   == [q |-> NoProfile, mu |-> NoProfile, ready |-> FALSE]
ResetBatch     == [count |-> 0, digits |-> 0]
ResetEvalInput == [ciphertext |-> 0, phase |-> 0,
                   a0 |-> ZeroWord, a1 |-> ZeroWord, b0 |-> ZeroWord]
ResetBvInput   == [digit |-> 0, ciphertext |-> 0, key_b |-> ZeroWord, key_a |-> ZeroWord]
ResetCompleted == [profiles |-> 0, ciphertexts |-> 0, batches |-> 0]
ResetAccum     == [valid |-> FALSE, bank |-> 0, digit |-> 0, ciphertext |-> 0,
                   result_b |-> Garbage[1], result_a |-> Garbage[1],
                   prior_b |-> Garbage, prior_a |-> Garbage]
NoBank    == [bank \in Banks |-> FALSE]
ZeroCount == [bank \in Banks |-> 0]
EmptyPipe == [stage \in 1..Latency |-> NoProduct]
Uninitialised == [bank \in Banks |-> [ciphertext \in Ciphertexts |-> Garbage]]

CoreInit ==
  /\ state = "IDLE" /\ protocol_error = FALSE
  /\ profile = ResetProfile /\ batch = ResetBatch /\ completed = ResetCompleted
  /\ coefficient_index = 0 /\ compute_bank = 0
  /\ eval_input = ResetEvalInput /\ bv_input = ResetBvInput
  /\ bank_occupied = NoBank /\ bank_ready = NoBank
  /\ output = IdleOutput /\ completed_coefficients = 0
  /\ eval_meta = <<>> /\ eval_pipe = EmptyPipe /\ eval_result_count = ZeroCount
  /\ bv_meta = <<>> /\ bv_pipe = EmptyPipe /\ bv_accum = ResetAccum
  /\ bv_final_result_count = ZeroCount
  /\ c0_memory = Uninitialised /\ c1_memory = Uninitialised
  /\ ks_b_memory = Uninitialised /\ ks_a_memory = Uninitialised

CoreReset ==
  /\ state' = "IDLE" /\ protocol_error' = FALSE
  /\ profile' = ResetProfile /\ batch' = ResetBatch /\ completed' = ResetCompleted
  /\ coefficient_index' = 0 /\ compute_bank' = 0
  /\ eval_input' = ResetEvalInput /\ bv_input' = ResetBvInput
  /\ bank_occupied' = NoBank /\ bank_ready' = NoBank
  /\ output' = IdleOutput /\ completed_coefficients' = 0
  /\ eval_meta' = <<>> /\ eval_pipe' = EmptyPipe /\ eval_result_count' = ZeroCount
  /\ bv_meta' = <<>> /\ bv_pipe' = EmptyPipe /\ bv_accum' = ResetAccum
  /\ bv_final_result_count' = ZeroCount
  /\ UNCHANGED <<c0_memory, c1_memory, ks_b_memory, ks_a_memory>>

-----------------------------------------------------------------------------
(* Properties of the core whatever its environment.                        *)

(* However frames are cut short or refused, every product in a multiplier  *)
(* has exactly one entry in the metadata queue beside it: a result never   *)
(* meets an empty queue, and no entry outlives its product.                *)
InFlight(pipe) == {stage \in 1..Latency : pipe[stage].valid}
MetadataInStep ==
  /\ Len(eval_meta) = Cardinality(InFlight(eval_pipe))
  /\ Len(bv_meta) = Cardinality(InFlight(bv_pipe))

(* The bank an output word is read from stays occupied and handed over     *)
(* until its last word is taken, whatever the input does meanwhile.        *)
DrainedBankHeld ==
  output.active => bank_occupied[output.bank] /\ bank_ready[output.bank]

(* The metadata queues never hold back a word: a credit is always left.    *)
CreditsNeverStall ==
  state \in {"COEFFICIENT_EVAL", "COEFFICIENT_DIGITS"} => s_axis_tready
=============================================================================
