--------------------------- MODULE KeyreuseCoreProofs ---------------------------
(***************************************************************************)
(* What one clock edge of the relinearization core preserves, for every    *)
(* ring size, batch limit, queue depth and multiplier latency, with any    *)
(* input word and any m_axis_tready: the lemmas serve every environment.   *)
(***************************************************************************)
EXTENDS KeyreuseCore, FiniteSetTheorems, FunctionTheorems, SequenceTheorems,
        TLAPS

-----------------------------------------------------------------------------
(* Metadata queues beside the multipliers.                                 *)

(* A queue gains the pushed entry and loses the popped one.                *)
LEMMA PushLength ==
  ASSUME NEW S, NEW meta \in Seq(S), NEW pop, NEW push, NEW entry,
         pop => Len(meta) > 0
  PROVE  /\ Push(meta, pop, push, entry) \in Seq(S \union {entry})
         /\ Len(Push(meta, pop, push, entry)) =
              Len(meta) - (IF pop THEN 1 ELSE 0) + (IF push THEN 1 ELSE 0)
<1> DEFINE T == S \union {entry}
           rest == IF pop THEN Tail(meta) ELSE meta
           added == IF push THEN <<entry>> ELSE <<>>
<1>1. meta \in Seq(T)
  OBVIOUS
<1>2. rest \in Seq(T) /\ Len(rest) = Len(meta) - (IF pop THEN 1 ELSE 0)
  <2>1. CASE pop
    <3>1. meta # <<>>
      BY <2>1
    <3> QED BY <1>1, <2>1, <3>1
  <2>2. CASE ~pop
    BY <1>1, <2>2
  <2> QED BY <2>1, <2>2
<1>3. added \in Seq(T) /\ Len(added) = (IF push THEN 1 ELSE 0)
  <2>1. CASE push
    <3>1. entry \in T
      OBVIOUS
    <3>2. <<entry>> \in Seq(T) /\ Len(<<entry>>) = 1
      <4> HIDE DEF T
      <4> QED BY <3>1
    <3> QED BY <2>1, <3>2
  <2>2. CASE ~push
    BY <2>2
  <2> QED BY <2>1, <2>2
<1>4. Push(meta, pop, push, entry) = rest \o added
  BY DEF Push
<1> HIDE DEF rest, added
<1>5. rest \o added \in Seq(T) /\ Len(rest \o added) = Len(rest) + Len(added)
  <2> HIDE DEF T
  <2> QED BY <1>2, <1>3, ConcatProperties
<1> QED BY <1>2, <1>3, <1>4, <1>5

(* Every set of pipeline stages is finite.                                 *)
LEMMA StagesFinite ==
  ASSUME NEW pipe
  PROVE  /\ IsFiniteSet(InFlight(pipe)) /\ Cardinality(InFlight(pipe)) \in Nat
         /\ Cardinality(InFlight(pipe)) <= Latency
<1>1. IsFiniteSet(1..Latency) /\ Cardinality(1..Latency) = Latency
  BY FS_Interval, CoreAssumption
<1>2. InFlight(pipe) \subseteq 1..Latency
  BY DEF InFlight
<1> QED BY <1>1, <1>2, FS_Subset, FS_CardinalityType

(* A clock edge moves every product one stage on: the last one leaves and  *)
(* a launched one enters.                                                  *)
LEMMA ShiftInFlight ==
  ASSUME NEW pipe, NEW product
  PROVE  Cardinality(InFlight(Shift(pipe, product))) =
           Cardinality(InFlight(pipe)) - (IF pipe[Latency].valid THEN 1 ELSE 0)
             + (IF product.valid THEN 1 ELSE 0)
<1> DEFINE here  == InFlight(pipe)
           stay  == here \ {Latency}
           moved == {stage + 1 : stage \in stay}
           next  == InFlight(Shift(pipe, product))
<1>1. Latency \in Nat /\ Latency > 0
  BY CoreAssumption
<1>2. here \subseteq 1..Latency /\ stay \subseteq 1..(Latency - 1)
  BY <1>1 DEF InFlight
<1>3. IsFiniteSet(here) /\ Cardinality(here) \in Nat
  BY StagesFinite
<1>4. IsFiniteSet(stay) /\ Cardinality(stay) \in Nat
      /\ Cardinality(stay) = Cardinality(here) - (IF pipe[Latency].valid THEN 1 ELSE 0)
  <2>1. Latency \in here <=> pipe[Latency].valid
    BY <1>1 DEF InFlight
  <2>2. IsFiniteSet(stay)
        /\ Cardinality(stay) =
             IF Latency \in here THEN Cardinality(here) - 1 ELSE Cardinality(here)
    BY <1>3, FS_RemoveElement
  <2>3. Cardinality(stay) \in Nat
    BY <2>2, FS_CardinalityType
  <2> QED BY <1>3, <2>1, <2>2, <2>3
<1>5. IsFiniteSet(moved) /\ Cardinality(moved) = Cardinality(stay)
  <2> DEFINE f == [stage \in stay |-> stage + 1]
  <2>1. f \in Bijection(stay, moved)
    <3>1. f \in [stay -> moved]
      OBVIOUS
    <3>2. \A x, y \in stay : f[x] = f[y] => x = y
      BY <1>2
    <3>3. \A m \in moved : \E x \in stay : f[x] = m
      OBVIOUS
    <3> HIDE DEF f, moved, stay
    <3>4. f \in Injection(stay, moved)
      BY <3>1, <3>2, Fun_IsInj
    <3>5. f \in Surjection(stay, moved)
      BY <3>1, <3>3, Fun_IsSurj
    <3> QED BY <3>4, <3>5 DEF Bijection
  <2>2. ExistsBijection(stay, moved)
    BY <2>1 DEF ExistsBijection
  <2> HIDE DEF moved, stay
  <2> QED BY <1>4, <2>2, FS_Bijection
<1>6. next = IF product.valid THEN moved \union {1} ELSE moved
  <2>1. \A stage \in 1..Latency :
          Shift(pipe, product)[stage].valid
            <=> IF stage = 1 THEN product.valid ELSE pipe[stage - 1].valid
    BY <1>1 DEF Shift
  <2>2. ASSUME NEW stage \in 1..Latency, stage # 1
        PROVE  stage \in moved <=> pipe[stage - 1].valid
    <3>1. stage - 1 \in 1..(Latency - 1) /\ (stage - 1) + 1 = stage
      BY <1>1, <2>2
    <3>2. stage \in moved <=> stage - 1 \in stay
      <4>1. ASSUME NEW other \in stay, other + 1 = stage PROVE other = stage - 1
        BY <1>2, <4>1
      <4> QED BY <3>1, <4>1
    <3> QED BY <1>1, <3>1, <3>2 DEF InFlight
  <2>3. 1 \notin moved /\ moved \subseteq 1..Latency
    BY <1>1, <1>2
  <2>4. \A stage \in 1..Latency :
          stage \in next <=> IF stage = 1 THEN product.valid ELSE stage \in moved
    BY <2>1, <2>2 DEF InFlight
  <2>5. next \subseteq 1..Latency /\ 1 \in 1..Latency
    BY <1>1 DEF InFlight
  <2> HIDE DEF next, moved
  <2> QED BY <2>3, <2>4, <2>5
<1>7. 1 \notin moved
  BY <1>1, <1>2
<1>8. IsFiniteSet(moved \union {1})
      /\ Cardinality(moved \union {1}) = Cardinality(moved) + 1
  <2> HIDE DEF moved
  <2> QED BY <1>5, <1>7, FS_AddElement
<1> HIDE DEF here, stay, moved, next
<1>9. Cardinality(next) = Cardinality(stay) + (IF product.valid THEN 1 ELSE 0)
  BY <1>4, <1>5, <1>6, <1>8
<1> QED BY <1>3, <1>4, <1>9 DEF next, here

(* The strengthening: both queues are sequences, of whatever entries.      *)
MetadataInv ==
  /\ \E S : eval_meta \in Seq(S)
  /\ \E S : bv_meta \in Seq(S)
  /\ MetadataInStep

(* A product about to leave has its entry waiting.                         *)
LEMMA EntryForResult ==
  ASSUME NEW pipe, pipe[Latency].valid
  PROVE  Cardinality(InFlight(pipe)) > 0
<1>1. Latency \in InFlight(pipe)
  BY CoreAssumption DEF InFlight
<1>2. IsFiniteSet(InFlight(pipe)) /\ Cardinality(InFlight(pipe)) \in Nat
  BY StagesFinite
<1>3. Cardinality(InFlight(pipe)) # 0
  BY <1>1, <1>2, FS_EmptySet
<1> QED BY <1>2, <1>3

(* One clock edge keeps both queues in step with their multipliers: the    *)
(* core pushes when it launches and pops when the last stage is valid.     *)
LEMMA MetadataStep ==
  ASSUME MetadataInv, NEW word, EvalPath(word), BvPath(word)
  PROVE  MetadataInv'
<1>1. PICK S : eval_meta \in Seq(S)
  BY DEF MetadataInv
<1>2. PICK T : bv_meta \in Seq(T)
  BY DEF MetadataInv
<1>3. /\ Len(eval_meta) = Cardinality(InFlight(eval_pipe))
      /\ Len(bv_meta) = Cardinality(InFlight(bv_pipe))
  BY DEF MetadataInv, MetadataInStep
<1>4. /\ \E U : eval_meta' \in Seq(U)
      /\ Len(eval_meta') = Cardinality(InFlight(eval_pipe'))
  <2>1. PICK entry, product :
          /\ eval_meta' = Push(eval_meta, eval_pipe[Latency].valid,
                               eval_launch(word), entry)
          /\ eval_pipe' = Shift(eval_pipe, product)
          /\ product.valid <=> eval_launch(word)
    BY DEF EvalPath, eval_meta_pop, NoProduct
  <2>2. eval_pipe[Latency].valid => Len(eval_meta) > 0
    BY <1>3, EntryForResult
  <2>3. /\ eval_meta' \in Seq(S \union {entry})
        /\ Len(eval_meta') = Len(eval_meta)
             - (IF eval_pipe[Latency].valid THEN 1 ELSE 0)
             + (IF eval_launch(word) THEN 1 ELSE 0)
    BY <1>1, <2>1, <2>2, PushLength
  <2>4. Cardinality(InFlight(eval_pipe')) = Cardinality(InFlight(eval_pipe))
          - (IF eval_pipe[Latency].valid THEN 1 ELSE 0)
          + (IF product.valid THEN 1 ELSE 0)
    BY <2>1, ShiftInFlight
  <2> QED BY <1>3, <2>1, <2>3, <2>4
<1>5. /\ \E U : bv_meta' \in Seq(U)
      /\ Len(bv_meta') = Cardinality(InFlight(bv_pipe'))
  <2>1. PICK entry, product :
          /\ bv_meta' = Push(bv_meta, bv_pipe[Latency].valid,
                             bv_launch(word), entry)
          /\ bv_pipe' = Shift(bv_pipe, product)
          /\ product.valid <=> bv_launch(word)
    BY DEF BvPath, bv_meta_pop, NoProduct
  <2>2. bv_pipe[Latency].valid => Len(bv_meta) > 0
    BY <1>3, EntryForResult
  <2>3. /\ bv_meta' \in Seq(T \union {entry})
        /\ Len(bv_meta') = Len(bv_meta)
             - (IF bv_pipe[Latency].valid THEN 1 ELSE 0)
             + (IF bv_launch(word) THEN 1 ELSE 0)
    BY <1>2, <2>1, <2>2, PushLength
  <2>4. Cardinality(InFlight(bv_pipe')) = Cardinality(InFlight(bv_pipe))
          - (IF bv_pipe[Latency].valid THEN 1 ELSE 0)
          + (IF product.valid THEN 1 ELSE 0)
    BY <2>1, ShiftInFlight
  <2> QED BY <1>3, <2>1, <2>3, <2>4
<1> QED BY <1>4, <1>5 DEF MetadataInv, MetadataInStep, InFlight

(* Empty queues beside empty pipelines, at power-on and after reset_n.     *)
LEMMA EmptyMetadata ==
  /\ CoreInit => MetadataInv
  /\ CoreReset => MetadataInv'
<1>1. InFlight(EmptyPipe) = {}
  BY CoreAssumption DEF InFlight, EmptyPipe, NoProduct
<1>2. Cardinality(InFlight(EmptyPipe)) = 0
  BY <1>1, FS_EmptySet
<1>3. <<>> \in Seq({}) /\ Len(<<>>) = 0
  OBVIOUS
<1>4. ASSUME CoreInit PROVE MetadataInv
  BY <1>2, <1>3, <1>4 DEF CoreInit, MetadataInv, MetadataInStep
<1>5. ASSUME CoreReset PROVE MetadataInv'
  <2>1. eval_meta' = <<>> /\ bv_meta' = <<>>
        /\ eval_pipe' = EmptyPipe /\ bv_pipe' = EmptyPipe
    BY <1>5 DEF CoreReset
  <2> QED BY <1>2, <1>3, <2>1 DEF MetadataInv, MetadataInStep, InFlight
<1> QED BY <1>4, <1>5

-----------------------------------------------------------------------------
(* Ownership of the two banks.                                             *)
BankInv ==
  /\ bank_occupied \in [Banks -> BOOLEAN]
  /\ bank_ready \in [Banks -> BOOLEAN]
  /\ output \in [active : BOOLEAN, bank : Banks, coefficient_index : Nat,
                 ciphertext : Nat, component : 0..1]
  /\ \A bank \in Banks : bank_ready[bank] => bank_occupied[bank]
  /\ output.active => bank_ready[output.bank]

(* A bank in use is never started again, and only its last word frees it.  *)
LEMMA BankStep ==
  ASSUME BankInv, NEW word, NEW ready,
         BankOwnership(word, ready), OutputScheduler(word, ready)
  PROVE  BankInv'
<1> USE DEF BankInv
<1>1. CASE accepted_batch_header(word)
  <2>1. /\ bank_occupied' = [bank \in Banks |-> bank = 0]
        /\ bank_ready' = [bank \in Banks |-> FALSE]
    BY <1>1 DEF BankOwnership
  <2>2. output' = IdleOutput
    BY <1>1 DEF OutputScheduler
  <2>3. output' \in [active : BOOLEAN, bank : Banks, coefficient_index : Nat,
                     ciphertext : Nat, component : 0..1] /\ output'.active = FALSE
    BY <2>2 DEF IdleOutput, Banks
  <2> QED BY <2>1, <2>3
<1>2. CASE ~accepted_batch_header(word)
  <2> DEFINE released(bank) ==
               output_coefficient_complete(ready) /\ bank = output.bank
             started(bank) ==
               start_next_coefficient_event(word) /\ bank = Other(compute_bank)
  <2>1. /\ bank_occupied' =
             [bank \in Banks |->
                ~released(bank) /\ (started(bank) \/ bank_occupied[bank])]
        /\ bank_ready' =
             [bank \in Banks |->
                /\ ~released(bank)
                /\ compute_complete(bank) \/ (bank_ready[bank] /\ ~started(bank))]
    BY <1>2 DEF BankOwnership
  <2>2. \A bank \in Banks : started(bank) => ~bank_occupied[bank]
    BY DEF start_next_coefficient_event, next_bank_available
  <2>3. \A bank \in Banks : compute_complete(bank) => bank_occupied[bank]
    BY DEF compute_complete
  <2>4. \A bank \in Banks : released(bank) =>
          /\ output.active /\ ready /\ output.component = 1
          /\ output.ciphertext + 1 = batch.count
    BY DEF output_coefficient_complete
  <2> HIDE DEF released, started
  <2>5. /\ bank_occupied' \in [Banks -> BOOLEAN] /\ bank_ready' \in [Banks -> BOOLEAN]
        /\ \A bank \in Banks : bank_ready'[bank] => bank_occupied'[bank]
    BY <2>1, <2>3
  <2>6. \A bank \in Banks : bank_ready[bank] /\ ~released(bank) => bank_ready'[bank]
    BY <2>1, <2>2
  <2>7. /\ output' \in [active : BOOLEAN, bank : Banks, coefficient_index : Nat,
                        ciphertext : Nat, component : 0..1]
        /\ output'.active => bank_ready'[output'.bank]
    <3>1. CASE ~output.active
      <4> DEFINE parity == output.coefficient_index % 2
      <4>1. output' = IF bank_ready[parity]
                        THEN [output EXCEPT !.active = TRUE, !.bank = parity,
                                            !.ciphertext = 0, !.component = 0]
                        ELSE output
        BY <1>2, <3>1 DEF OutputScheduler
      <4>2. parity \in Banks
        BY DEF Banks
      <4>3. ~released(parity)
        BY <2>4, <3>1, <4>2
      <4>4. bank_ready[parity] => bank_ready'[parity]
        BY <2>6, <4>2, <4>3
      <4> HIDE DEF parity
      <4>5. CASE bank_ready[parity]
        <5>1. output'.bank = parity
              /\ output' \in [active : BOOLEAN, bank : Banks, coefficient_index : Nat,
                              ciphertext : Nat, component : 0..1]
          <6>1. output' = [active |-> TRUE, bank |-> parity,
                           coefficient_index |-> output.coefficient_index,
                           ciphertext |-> 0, component |-> 0]
            BY <4>1, <4>5
          <6>2. output.coefficient_index \in Nat
            OBVIOUS
          <6> QED BY <4>2, <6>1, <6>2
        <5> QED BY <4>4, <4>5, <5>1
      <4>6. CASE ~bank_ready[parity]
        BY <3>1, <4>1, <4>6
      <4> QED BY <4>5, <4>6
    <3>2. CASE output.active /\ ~ready
      <4>1. output' = output
        BY <1>2, <3>2 DEF OutputScheduler, outputVars
      <4> QED BY <2>4, <2>6, <3>2, <4>1
    <3>3. CASE output.active /\ ready /\ output.component = 0
      <4>1. output' = [output EXCEPT !.component = 1]
        BY <1>2, <3>3 DEF OutputScheduler
      <4>2. output'.bank = output.bank
            /\ output' \in [active : BOOLEAN, bank : Banks, coefficient_index : Nat,
                            ciphertext : Nat, component : 0..1]
        BY <4>1
      <4>3. ~released(output.bank)
        BY <2>4, <3>3
      <4> QED BY <2>6, <3>3, <4>2, <4>3
    <3>4. CASE output.active /\ ready /\ output.component = 1
      <4> DEFINE final == output.ciphertext + 1 = batch.count
      <4>1. output' =
              [output EXCEPT
                 !.component = 0,
                 !.active = ~final,
                 !.ciphertext = IF final THEN 0 ELSE @ + 1,
                 !.coefficient_index =
                   IF final /\ @ # LastCoefficient THEN @ + 1 ELSE @]
        BY <1>2, <3>4 DEF OutputScheduler
      <4>2. output'.bank = output.bank /\ output'.active = ~final
            /\ output' \in [active : BOOLEAN, bank : Banks, coefficient_index : Nat,
                            ciphertext : Nat, component : 0..1]
        <5> DEFINE ciphertext == IF final THEN 0 ELSE output.ciphertext + 1
                   index == IF final /\ output.coefficient_index # LastCoefficient
                              THEN output.coefficient_index + 1
                              ELSE output.coefficient_index
        <5>1. ciphertext \in Nat /\ index \in Nat /\ output.bank \in Banks
          OBVIOUS
        <5>2. output' = [output EXCEPT !.component = 0, !.active = ~final,
                                       !.ciphertext = ciphertext,
                                       !.coefficient_index = index]
          BY <4>1
        <5> HIDE DEF final, ciphertext, index
        <5>3. output' = [active |-> ~final, bank |-> output.bank,
                         coefficient_index |-> index, ciphertext |-> ciphertext,
                         component |-> 0]
          BY <5>2
        <5> QED BY <5>1, <5>3
      <4>3. ~final => ~released(output.bank)
        BY <2>4
      <4> HIDE DEF final
      <4> QED BY <2>6, <3>4, <4>2, <4>3
    <3> QED BY <3>1, <3>2, <3>3, <3>4
  <2> QED BY <2>5, <2>7
<1> QED BY <1>1, <1>2

-----------------------------------------------------------------------------
(* Both invariants together, as the environments of the core use them.     *)
CoreInv == MetadataInv /\ BankInv

(* Power-on and reset leave queues and pipelines in step.                  *)
LEMMA CoreStarts == (CoreInit => CoreInv) /\ (CoreReset => CoreInv')
<1>1. CoreInit => BankInv
  BY DEF CoreInit, BankInv, NoBank, IdleOutput, Banks
<1>2. CoreReset => BankInv'
  BY DEF CoreReset, BankInv, NoBank, IdleOutput, Banks
<1> QED BY <1>1, <1>2, EmptyMetadata DEF CoreInv

(* Every clock edge keeps queues, pipelines and banks in step, for any input word. *)
LEMMA CoreStep ==
  ASSUME CoreInv, NEW word, NEW ready, Clock(word, ready) \/ UNCHANGED coreVars
  PROVE  CoreInv'
<1>1. CASE Clock(word, ready)
  BY <1>1, MetadataStep, BankStep DEF Clock, CoreInv
<1>2. CASE UNCHANGED coreVars
  BY <1>2 DEF coreVars, bankVars, outputVars, evalVars, bvVars, CoreInv,
     MetadataInv, MetadataInStep, InFlight, BankInv
<1> QED BY <1>1, <1>2

(* Queues deeper than the multipliers are long never fill.                 *)
LEMMA CreditsLeft ==
  ASSUME CoreInv, EvalMetaDepth > Latency, BvMetaDepth > Latency
  PROVE  CreditsNeverStall
<1>1. Len(eval_meta) <= Latency /\ Len(bv_meta) <= Latency
  BY StagesFinite DEF CoreInv, MetadataInv, MetadataInStep
<1>2. Len(eval_meta) \in Nat /\ Len(bv_meta) \in Nat
  BY StagesFinite DEF CoreInv, MetadataInv, MetadataInStep
<1>3. Len(eval_meta) < EvalMetaDepth /\ Len(bv_meta) < BvMetaDepth
  BY <1>1, <1>2, CoreAssumption
<1> QED BY <1>3 DEF CreditsNeverStall, s_axis_tready

-----------------------------------------------------------------------------
(* The flow of a batch through the core, while no frame goes wrong.        *)
(* Positions are counted from the first launch of the coefficient that is  *)
(* being computed: negative ones belong to the coefficient before it, which *)
(* is in the other bank.                                                   *)
Idling  == {"IDLE", "PROFILE_Q", "PROFILE_MU", "BATCH_HEADER"}
Keying  == {"COEFFICIENT_KEY_B", "COEFFICIENT_KEY_A"}
InputDone == {"WAIT_BANK", "WAIT_BATCH_OUTPUT"}
Running == {"COEFFICIENT_EVAL", "COEFFICIENT_DIGITS"} \union Keying \union InputDone

Row(digit)  == digit * batch.count
FinalRow    == Row(batch.digits - 1)
AllRows     == Row(batch.digits)
PriorBank   == Other(compute_bank)

(* Launches of this coefficient, and those whose results have landed.      *)
EvalLaunched == IF state = "COEFFICIENT_EVAL" THEN eval_input.ciphertext ELSE batch.count
BvLaunched ==
  CASE state = "COEFFICIENT_EVAL"   -> 0
    [] state \in Keying             -> Row(bv_input.digit)
    [] state = "COEFFICIENT_DIGITS" -> Row(bv_input.digit) + bv_input.ciphertext
    [] OTHER                        -> AllRows
EvalLanded == EvalLaunched - Len(eval_meta)
BvLanded   == BvLaunched - Len(bv_meta) - (IF bv_accum.valid THEN 1 ELSE 0)

EvalEntryAt(entry, position) ==
  IF position < 0
    THEN entry.bank = PriorBank /\ entry.ciphertext = position + batch.count
    ELSE entry.bank = compute_bank /\ entry.ciphertext = position
BvEntryAt(entry, position) ==
  /\ entry.digit \in 0..(batch.digits - 1) /\ entry.ciphertext \in 0..(batch.count - 1)
  /\ IF position < 0
       THEN /\ entry.bank = PriorBank
            /\ Row(entry.digit) + entry.ciphertext = position + AllRows
       ELSE /\ entry.bank = compute_bank
            /\ Row(entry.digit) + entry.ciphertext = position

Beyond(position, start) == IF position > start THEN position - start ELSE 0

(* The protocol's own registers.                                           *)
InputInv ==
  /\ state \in Idling \union Running
  /\ DOMAIN batch = {"count", "digits"}
  /\ DOMAIN eval_input = {"ciphertext", "phase", "a0", "a1", "b0"}
  /\ DOMAIN bv_input = {"digit", "ciphertext", "key_b", "key_a"}
  /\ DOMAIN completed = {"profiles", "ciphertexts", "batches"}
  /\ completed.ciphertexts \in Nat /\ completed_coefficients \in Nat
  /\ state \in Running =>
       /\ batch.count \in MinBatch..MaxBatch /\ batch.digits \in 1..MaxDigits
       /\ coefficient_index \in 0..LastCoefficient
       /\ compute_bank = coefficient_index % 2
       /\ eval_input.ciphertext \in 0..(batch.count - 1) /\ eval_input.phase \in 0..3
       /\ bv_input.ciphertext \in 0..(batch.count - 1)
       /\ bv_input.digit \in 0..(batch.digits - 1)
       /\ state = "COEFFICIENT_EVAL" => bv_input.digit = 0
       /\ state = "WAIT_BANK" => coefficient_index # LastCoefficient
       /\ state = "WAIT_BATCH_OUTPUT" => coefficient_index = LastCoefficient

EvalInv ==
  /\ EvalLanded >= -batch.count
  /\ EvalLanded < 0 => bank_occupied[PriorBank]
  /\ \A i \in 1..Len(eval_meta) : EvalEntryAt(eval_meta[i], EvalLanded + i - 1)
  /\ eval_result_count[compute_bank] = Beyond(EvalLanded, 0)
  /\ bank_occupied[PriorBank] =>
       eval_result_count[PriorBank] =
         IF EvalLanded < 0 THEN EvalLanded + batch.count ELSE batch.count

BvInv ==
  /\ "valid" \in DOMAIN bv_accum
  /\ BvLanded >= -AllRows
  /\ BvLanded < 0 => bank_occupied[PriorBank]
  /\ \A i \in 1..Len(bv_meta) :
       BvEntryAt(bv_meta[i], BvLaunched - Len(bv_meta) + i - 1)
  /\ bv_accum.valid => BvEntryAt(bv_accum, BvLanded)
  /\ bv_final_result_count[compute_bank] = Beyond(BvLanded, FinalRow)
  /\ bank_occupied[PriorBank] =>
       bv_final_result_count[PriorBank] =
         IF BvLanded < 0 THEN Beyond(BvLanded + batch.count, 0) ELSE batch.count

DrainInv ==
  /\ bank_occupied[compute_bank]
  /\ output.coefficient_index =
       IF bank_occupied[PriorBank] THEN coefficient_index - 1 ELSE coefficient_index
  /\ output.active => output.bank = output.coefficient_index % 2
  /\ ~output.active => output.ciphertext = 0
  /\ output.ciphertext < batch.count
  /\ bank_ready[compute_bank] =>
       /\ state \in InputDone
       /\ EvalLanded = batch.count /\ BvLanded = AllRows
  /\ bank_ready[PriorBank] => EvalLanded >= 0 /\ BvLanded >= 0
  /\ state = "WAIT_BANK" /\ output.active => bank_occupied[PriorBank]
  /\ completed_coefficients =
       N * completed.ciphertexts + Row(output.coefficient_index) + output.ciphertext

RestInv ==
  /\ "valid" \in DOMAIN bv_accum
  /\ eval_meta = <<>> /\ bv_meta = <<>> /\ ~bv_accum.valid /\ ~output.active
  /\ \A bank \in Banks : ~bank_occupied[bank] /\ ~bank_ready[bank]
  /\ completed_coefficients = N * completed.ciphertexts

FlowInv ==
  /\ InputInv
  /\ IF state \in Running THEN EvalInv /\ BvInv /\ DrainInv ELSE RestInv

(* What a well-formed frame holds next, by the state that reads it.        *)
GoodWord(word) ==
  Handshake(word) =>
    /\ state = "IDLE" =>
         ~word.last /\ (word.is = "RLPF" \/ (word.is = "RLCM" /\ profile.ready))
    /\ state = "PROFILE_Q" => ~word.last /\ word.is = "moduli" /\ word.value \in Profiles
    /\ state = "PROFILE_MU" =>
         word.last /\ word.is = "reciprocals" /\ word.value \in Profiles
    /\ state = "BATCH_HEADER" => /\ ~word.last /\ ValidCounts(word)
                                 /\ DOMAIN word.value = {"count", "digits"}
    /\ state \in Running =>
         (word.last <=> state = "COEFFICIENT_DIGITS" /\ final_external_payload_word)

(* Rows of launches, one for every digit of a coefficient.                 *)
LEMMA RowStep ==
  ASSUME NEW k \in Nat, batch.count \in Nat
  PROVE  Row(k) \in Nat /\ Row(k + 1) = Row(k) + batch.count /\ Row(0) = 0
BY DEF Row

(* A row inside the batch has its digits inside the digit count.           *)
LEMMA RowLimits ==
  ASSUME batch.count \in Nat \ {0}, batch.digits \in Nat \ {0}
  PROVE  /\ FinalRow \in Nat /\ AllRows \in Nat /\ AllRows = FinalRow + batch.count
         /\ \A k \in 0..(batch.digits - 1) : Row(k) \in Nat /\ Row(k) <= FinalRow
         /\ \A k \in 0..(batch.digits - 1) :
              k + 1 # batch.digits => Row(k) + batch.count <= FinalRow
<1> DEFINE c == batch.count
           d == batch.digits
<1>1. c \in Nat /\ d \in Nat /\ d > 0 /\ d - 1 \in Nat
  OBVIOUS
<1>2. AllRows = FinalRow + c /\ FinalRow \in Nat /\ AllRows \in Nat
  BY <1>1, RowStep DEF FinalRow, AllRows
<1>3. ASSUME NEW k \in 0..(d - 1), NEW m \in Nat, k + m = d - 1
      PROVE  Row(k) \in Nat /\ FinalRow = Row(k) + m * c
  BY <1>1, <1>3 DEF FinalRow, Row
<1>4. ASSUME NEW k \in 0..(d - 1)
      PROVE  Row(k) \in Nat /\ Row(k) <= FinalRow /\ (k + 1 # d => Row(k) + c <= FinalRow)
  <2> DEFINE m == d - 1 - k
  <2>1. m \in Nat /\ k + m = d - 1
    BY <1>1
  <2>2. FinalRow = Row(k) + m * c /\ Row(k) \in Nat
    BY <2>1, <1>3
  <2>3. k + 1 # d => m >= 1
    BY <1>1
  <2> HIDE DEF m
  <2>4. m * c \in Nat /\ (m >= 1 => m * c >= c)
    BY <2>1, <1>1
  <2> HIDE DEF c, d
  <2> QED BY <2>2, <2>3, <2>4, <1>1, <1>2
<1> QED BY <1>2, <1>4

(* The input's counters and states, word by word.                          *)
LEMMA InputStep ==
  ASSUME InputInv, NEW word, NEW ready, Protocol(word, ready), GoodWord(word),
         completed_coefficients' \in Nat
  PROVE  InputInv' /\ UNCHANGED protocol_error
<1> USE DEF InputInv, Idling, Running, Keying, InputDone, Goto
<1>1. Handshake(word) => state \notin InputDone \union {"DISCARD"}
  BY DEF Handshake, s_axis_tready
<1>2. CASE Handshake(word) /\ AcceptCommand(word)
  BY <1>2 DEF AcceptCommand, GoodWord
<1>3. CASE Handshake(word) /\ AcceptModuli(word)
  BY <1>3 DEF AcceptModuli, GoodWord
<1>4. CASE Handshake(word) /\ AcceptReciprocals(word)
  <2>1. /\ state' = "IDLE" /\ completed' = [completed EXCEPT !.profiles = @ + 1]
        /\ UNCHANGED <<protocol_error, batch, eval_input, bv_input>>
    BY <1>4 DEF AcceptReciprocals, GoodWord
  <2> QED BY <2>1
<1>5. CASE Handshake(word) /\ AcceptCounts(word)
  <2>1. ~word.last /\ ValidCounts(word) /\ DOMAIN word.value = {"count", "digits"}
        /\ state = "BATCH_HEADER"
    BY <1>5 DEF AcceptCounts, GoodWord
  <2>2. /\ state' = "COEFFICIENT_EVAL" /\ batch' = word.value
        /\ coefficient_index' = 0 /\ compute_bank' = 0
        /\ eval_input' = [eval_input EXCEPT !.ciphertext = 0, !.phase = 0]
        /\ bv_input' = [bv_input EXCEPT !.digit = 0, !.ciphertext = 0]
        /\ UNCHANGED <<protocol_error, completed>>
    BY <1>5, <2>1 DEF AcceptCounts, RestartInput
  <2> QED BY <2>1, <2>2, CoreAssumption DEF ValidCounts, LastCoefficient
<1>6. CASE Handshake(word) /\ AcceptOperand(word)
  <2>1. state = "COEFFICIENT_EVAL" /\ ~word.last
    BY <1>6 DEF AcceptOperand, GoodWord
  <2>2. /\ eval_input' =
             [ciphertext |-> IF eval_input.phase < 3 THEN eval_input.ciphertext
                             ELSE IF final_input_ciphertext THEN 0
                             ELSE eval_input.ciphertext + 1,
              phase |-> (eval_input.phase + 1) % 4,
              a0 |-> IF eval_input.phase = 0 THEN word.value ELSE eval_input.a0,
              a1 |-> IF eval_input.phase = 1 THEN word.value ELSE eval_input.a1,
              b0 |-> IF eval_input.phase = 2 THEN word.value ELSE eval_input.b0]
        /\ state' = IF eval_input.phase = 3 /\ final_input_ciphertext
                      THEN "COEFFICIENT_KEY_B" ELSE state
        /\ UNCHANGED <<protocol_error, batch, coefficient_index, compute_bank, bv_input,
                       completed>>
    BY <1>6, <2>1 DEF AcceptOperand
  <2>3. eval_input'.ciphertext \in 0..(batch.count - 1) /\ eval_input'.phase \in 0..3
    BY <2>1, <2>2, CoreAssumption DEF final_input_ciphertext
  <2> QED BY <2>1, <2>2, <2>3
<1>7. CASE Handshake(word) /\ AcceptKey(word)
  <2>1. ~word.last /\ state \in Keying
    BY <1>7 DEF AcceptKey, GoodWord
  <2>2. /\ bv_input' = [bv_input EXCEPT !.key_b = word.value]
           \/ bv_input' = [bv_input EXCEPT !.key_a = word.value, !.ciphertext = 0]
        /\ state' \in {"COEFFICIENT_KEY_A", "COEFFICIENT_DIGITS"}
        /\ UNCHANGED <<protocol_error, batch, coefficient_index, compute_bank, eval_input,
                       completed>>
    BY <1>7, <2>1 DEF AcceptKey
  <2>3. /\ DOMAIN bv_input' = DOMAIN bv_input /\ bv_input'.digit = bv_input.digit
        /\ bv_input'.ciphertext \in {bv_input.ciphertext, 0}
    BY <2>2
  <2> QED BY <2>1, <2>2, <2>3, CoreAssumption
<1>8. ASSUME StartNextCoefficient, state \in Running, coefficient_index # LastCoefficient
      PROVE  InputInv' /\ UNCHANGED protocol_error
  <2>1. coefficient_index' % 2 = Other(compute_bank)
        /\ coefficient_index' \in 0..LastCoefficient
    BY <1>8, CoreAssumption DEF StartNextCoefficient, Other, LastCoefficient
  <2> QED BY <1>8, <2>1, CoreAssumption DEF StartNextCoefficient, RestartInput
<1>9. CASE Handshake(word) /\ AcceptDigit(word)
  <2>1. state = "COEFFICIENT_DIGITS" /\ (word.last <=> final_external_payload_word)
    BY <1>9 DEF AcceptDigit, GoodWord
  <2>2. CASE input_coefficient_complete(word) /\ coefficient_index # LastCoefficient
             /\ next_bank_available
    BY <1>9, <2>1, <2>2, <1>8 DEF AcceptDigit
  <2>3. CASE ~(input_coefficient_complete(word) /\ coefficient_index # LastCoefficient
               /\ next_bank_available)
    <3>1. /\ bv_input' =
               [bv_input EXCEPT
                  !.ciphertext = IF final_bv_ciphertext THEN 0 ELSE @ + 1,
                  !.digit = IF ~final_bv_ciphertext THEN @
                            ELSE IF final_bv_digit THEN 0 ELSE @ + 1]
          /\ state' = IF ~final_bv_ciphertext THEN state
                      ELSE IF ~final_bv_digit THEN "COEFFICIENT_KEY_B"
                      ELSE IF coefficient_index = LastCoefficient
                        THEN "WAIT_BATCH_OUTPUT" ELSE "WAIT_BANK"
          /\ UNCHANGED <<protocol_error, batch, coefficient_index, compute_bank, eval_input,
                         completed>>
      BY <1>9, <2>1, <2>3 DEF AcceptDigit
    <3>2. bv_input'.ciphertext = (IF final_bv_ciphertext THEN 0 ELSE bv_input.ciphertext + 1)
          /\ bv_input'.digit = (IF ~final_bv_ciphertext THEN bv_input.digit
                                ELSE IF final_bv_digit THEN 0 ELSE bv_input.digit + 1)
          /\ DOMAIN bv_input' = DOMAIN bv_input
      BY <3>1
    <3>3. bv_input'.ciphertext \in 0..(batch.count - 1)
          /\ bv_input'.digit \in 0..(batch.digits - 1)
      BY <2>1, <3>2, CoreAssumption DEF final_bv_ciphertext, final_bv_digit
    <3> QED BY <2>1, <3>1, <3>2, <3>3
  <2> QED BY <2>2, <2>3
<1>10. CASE WaitBank
  BY <1>10, <1>8 DEF WaitBank
<1>11. CASE FinishBatch(ready)
  <2>1. /\ state' = "IDLE" /\ UNCHANGED <<protocol_error, batch, eval_input, bv_input>>
        /\ completed' = [completed EXCEPT !.ciphertexts = @ + batch.count,
                                          !.batches = @ + 1]
        /\ batch.count \in Nat
    BY <1>11, CoreAssumption DEF FinishBatch
  <2> QED BY <2>1
<1>12. CASE Hold(word, ready)
  BY <1>12 DEF Hold, protocolVars
<1> QED BY <1>1, <1>2, <1>3, <1>4, <1>5, <1>6, <1>7, <1>9, <1>10, <1>11, <1>12
        DEF Protocol, Discard

(* The core starts on the next coefficient, or finishes the batch.         *)
Starts(word)    == start_next_coefficient_event(word)
Finishes(ready) == state = "WAIT_BATCH_OUTPUT" /\ output_batch_complete(ready)

(* How one clock edge moves the point launches have come to.               *)
LEMMA Advance ==
  ASSUME InputInv, NEW word, NEW ready, Protocol(word, ready), GoodWord(word),
         state \in Running
  PROVE  /\ UNCHANGED batch
         /\ Starts(word) =>
              /\ state' = "COEFFICIENT_EVAL" /\ state \in {"COEFFICIENT_DIGITS", "WAIT_BANK"}
              /\ coefficient_index' = coefficient_index + 1
              /\ coefficient_index # LastCoefficient
              /\ compute_bank' = PriorBank /\ ~bank_occupied[PriorBank]
              /\ UNCHANGED completed
              /\ ~eval_launch(word) /\ EvalLaunched = batch.count /\ EvalLaunched' = 0
              /\ BvLaunched + (IF bv_launch(word) THEN 1 ELSE 0) = AllRows
              /\ BvLaunched' = 0
         /\ Finishes(ready) =>
              /\ state' = "IDLE" /\ ~eval_launch(word) /\ ~bv_launch(word) /\ ~Starts(word)
              /\ completed' = [completed EXCEPT !.ciphertexts = @ + batch.count,
                                                !.batches = @ + 1]
         /\ ~Starts(word) /\ ~Finishes(ready) =>
              /\ state' \in Running
              /\ UNCHANGED <<coefficient_index, compute_bank, completed>>
              /\ EvalLaunched' = EvalLaunched + (IF eval_launch(word) THEN 1 ELSE 0)
              /\ BvLaunched' = BvLaunched + (IF bv_launch(word) THEN 1 ELSE 0)
              /\ state \in InputDone => state' = state
<1> USE DEF InputInv, Idling, Running, Keying, InputDone, Goto, Starts, Finishes
<1> DEFINE c == batch.count
           d == batch.digits
<1>1. c \in Nat \ {0} /\ d \in Nat \ {0} /\ bv_input.digit \in 0..(d - 1)
      /\ bv_input.ciphertext \in 0..(c - 1) /\ eval_input.ciphertext \in 0..(c - 1)
  BY CoreAssumption
<1>2. Row(bv_input.digit + 1) = Row(bv_input.digit) + c /\ Row(bv_input.digit) \in Nat
      /\ Row(0) = 0
  BY <1>1, RowStep
<1>3. /\ Handshake(word) => state \notin InputDone
      /\ eval_launch(word) => Handshake(word) /\ state = "COEFFICIENT_EVAL"
      /\ bv_launch(word) <=> Handshake(word) /\ state = "COEFFICIENT_DIGITS"
  BY DEF Handshake, s_axis_tready, eval_launch, bv_launch
<1>4. Starts(word) =>
        /\ ~bank_occupied[PriorBank]
        /\ \/ state = "WAIT_BANK"
           \/ /\ state = "COEFFICIENT_DIGITS" /\ Handshake(word)
              /\ final_bv_ciphertext /\ final_bv_digit /\ coefficient_index # LastCoefficient
  BY DEF start_next_coefficient_event, next_bank_available, PriorBank,
     input_coefficient_complete
<1>5. ASSUME StartNextCoefficient
      PROVE  /\ UNCHANGED <<batch, completed>> /\ state' = "COEFFICIENT_EVAL"
             /\ coefficient_index' = coefficient_index + 1 /\ compute_bank' = PriorBank
             /\ EvalLaunched' = 0 /\ BvLaunched' = 0
  BY <1>5 DEF StartNextCoefficient, RestartInput, PriorBank, EvalLaunched, BvLaunched
<1>6. CASE Handshake(word) /\ AcceptOperand(word)
  <2>1. state = "COEFFICIENT_EVAL" /\ ~word.last
    BY <1>6 DEF AcceptOperand, GoodWord
  <2>2. /\ eval_input'.ciphertext = (IF eval_input.phase < 3 THEN eval_input.ciphertext
                                     ELSE IF final_input_ciphertext THEN 0
                                     ELSE eval_input.ciphertext + 1)
        /\ state' = IF eval_input.phase = 3 /\ final_input_ciphertext
                      THEN "COEFFICIENT_KEY_B" ELSE state
        /\ UNCHANGED <<batch, coefficient_index, compute_bank, bv_input, completed>>
    BY <1>6, <2>1 DEF AcceptOperand
  <2>3. eval_launch(word) <=> eval_input.phase = 3
    BY <1>6, <2>1 DEF eval_launch
  <2>4. ~bv_launch(word) /\ ~Starts(word) /\ bv_input.digit = 0
    BY <1>3, <1>4, <2>1
  <2>5. EvalLaunched' = EvalLaunched + (IF eval_launch(word) THEN 1 ELSE 0)
    BY <1>1, <2>1, <2>2, <2>3 DEF EvalLaunched, final_input_ciphertext
  <2>6. BvLaunched = 0 /\ BvLaunched' = 0
    BY <1>2, <2>1, <2>2, <2>4 DEF BvLaunched, Row
  <2> QED BY <2>1, <2>2, <2>4, <2>5, <2>6
<1>7. CASE Handshake(word) /\ AcceptKey(word)
  <2>1. ~word.last /\ state \in Keying
    BY <1>7 DEF AcceptKey, GoodWord
  <2>2. /\ \/ /\ bv_input' = [bv_input EXCEPT !.key_b = word.value]
              /\ state' = "COEFFICIENT_KEY_A"
           \/ /\ bv_input' = [bv_input EXCEPT !.key_a = word.value, !.ciphertext = 0]
              /\ state' = "COEFFICIENT_DIGITS"
        /\ UNCHANGED <<batch, coefficient_index, compute_bank, eval_input, completed>>
    BY <1>7, <2>1 DEF AcceptKey
  <2>3. /\ bv_input'.digit = bv_input.digit
        /\ state' = "COEFFICIENT_DIGITS" => bv_input'.ciphertext = 0
    BY <2>2
  <2>4. ~eval_launch(word) /\ ~bv_launch(word) /\ ~Starts(word)
    BY <1>3, <1>4, <2>1
  <2>5. EvalLaunched' = EvalLaunched
    BY <2>1, <2>2 DEF EvalLaunched
  <2>7. BvLaunched = Row(bv_input.digit) /\ Row(bv_input.digit)' = Row(bv_input.digit)
    BY <2>1, <2>2, <2>3 DEF BvLaunched, Row
  <2>8. BvLaunched' = BvLaunched
    <3>1. CASE state' = "COEFFICIENT_KEY_A"
      BY <2>7, <3>1 DEF BvLaunched
    <3>2. CASE state' = "COEFFICIENT_DIGITS"
      BY <1>2, <2>3, <2>7, <3>2 DEF BvLaunched
    <3> QED BY <2>2, <3>1, <3>2
  <2>6. EvalLaunched \in Nat /\ BvLaunched \in Nat
    BY <1>1, <1>2, <2>1 DEF EvalLaunched, BvLaunched
  <2> QED BY <2>1, <2>2, <2>4, <2>5, <2>6, <2>8
<1>8. CASE Handshake(word) /\ AcceptDigit(word)
  <2>1. state = "COEFFICIENT_DIGITS" /\ (word.last <=> final_external_payload_word)
    BY <1>8 DEF AcceptDigit, GoodWord
  <2>2. ~eval_launch(word) /\ bv_launch(word) /\ EvalLaunched = c
    BY <1>3, <1>8, <2>1 DEF EvalLaunched
  <2>3. BvLaunched = Row(bv_input.digit) + bv_input.ciphertext
    BY <2>1 DEF BvLaunched
  <2>4. final_bv_ciphertext => BvLaunched + 1 = Row(bv_input.digit + 1)
    BY <1>1, <1>2, <2>3 DEF final_bv_ciphertext
  <2>5. final_bv_digit => Row(bv_input.digit + 1) = AllRows
    BY <1>1 DEF final_bv_digit, AllRows
  <2>6. CASE Starts(word)
    <3>1. StartNextCoefficient
      BY <1>4, <1>8, <2>1, <2>6 DEF AcceptDigit, input_coefficient_complete,
         start_next_coefficient_event
    <3> QED BY <1>4, <1>5, <2>1, <2>2, <2>4, <2>5, <2>6, <3>1
  <2>7. CASE ~Starts(word)
    <3>0. ~(input_coefficient_complete(word) /\ coefficient_index # LastCoefficient
            /\ next_bank_available)
      BY <2>7 DEF start_next_coefficient_event
    <3>1. /\ bv_input' =
               [bv_input EXCEPT
                  !.ciphertext = IF final_bv_ciphertext THEN 0 ELSE @ + 1,
                  !.digit = IF ~final_bv_ciphertext THEN @
                            ELSE IF final_bv_digit THEN 0 ELSE @ + 1]
          /\ state' = IF ~final_bv_ciphertext THEN state
                      ELSE IF ~final_bv_digit THEN "COEFFICIENT_KEY_B"
                      ELSE IF coefficient_index = LastCoefficient
                        THEN "WAIT_BATCH_OUTPUT" ELSE "WAIT_BANK"
          /\ UNCHANGED <<batch, coefficient_index, compute_bank, eval_input, completed>>
      BY <1>8, <2>1, <3>0 DEF AcceptDigit
    <3>2. bv_input'.ciphertext = (IF final_bv_ciphertext THEN 0 ELSE bv_input.ciphertext + 1)
          /\ bv_input'.digit = (IF ~final_bv_ciphertext THEN bv_input.digit
                                ELSE IF final_bv_digit THEN 0 ELSE bv_input.digit + 1)
      BY <3>1
    <3>3. EvalLaunched' = c
      BY <2>1, <3>1 DEF EvalLaunched
    <3>4. BvLaunched' = BvLaunched + 1
      <4>1. CASE ~final_bv_ciphertext
        <5>1. BvLaunched' = Row(bv_input.digit) + (bv_input.ciphertext + 1)
          BY <2>1, <3>1, <3>2, <4>1 DEF BvLaunched, Row
        <5> QED BY <1>1, <1>2, <2>3, <5>1
      <4>2. CASE final_bv_ciphertext /\ ~final_bv_digit
        <5>1. BvLaunched' = Row(bv_input.digit + 1)
          BY <3>1, <3>2, <4>2 DEF BvLaunched, Row
        <5> QED BY <2>4, <4>2, <5>1
      <4>3. CASE final_bv_ciphertext /\ final_bv_digit
        <5>1. BvLaunched' = AllRows
          BY <3>1, <4>3 DEF BvLaunched, AllRows, Row
        <5> QED BY <2>4, <2>5, <4>3, <5>1
      <4> QED BY <4>1, <4>2, <4>3
    <3>5. state' \in Running
      BY <2>1, <3>1
    <3> QED BY <1>1, <2>1, <2>2, <2>7, <3>1, <3>3, <3>4, <3>5
  <2> QED BY <2>6, <2>7
<1>9. CASE WaitBank
  <2>1. Starts(word) /\ state = "WAIT_BANK" /\ StartNextCoefficient
    BY <1>9 DEF WaitBank, start_next_coefficient_event
  <2>2. ~eval_launch(word) /\ ~bv_launch(word) /\ EvalLaunched = c /\ BvLaunched = AllRows
    BY <1>3, <2>1 DEF EvalLaunched, BvLaunched
  <2>3. AllRows \in Nat
    BY <1>1, RowLimits
  <2> QED BY <1>4, <1>5, <2>1, <2>2, <2>3
<1>10. CASE FinishBatch(ready)
  BY <1>3, <1>4, <1>10 DEF FinishBatch
<1>11. CASE Hold(word, ready)
  <2>1. ~Handshake(word) /\ UNCHANGED protocolVars
    BY <1>11 DEF Hold
  <2>2. ~eval_launch(word) /\ ~bv_launch(word) /\ ~Starts(word) /\ ~Finishes(ready)
    BY <1>3, <1>4, <1>11 DEF Hold, PriorBank, next_bank_available,
       start_next_coefficient_event
  <2>3. EvalLaunched' = EvalLaunched /\ BvLaunched' = BvLaunched
    BY <2>1 DEF protocolVars, EvalLaunched, BvLaunched, Row, AllRows
  <2>4. EvalLaunched \in Nat /\ BvLaunched \in Nat
    BY <1>1, <1>2, RowLimits DEF EvalLaunched, BvLaunched
  <2> QED BY <2>1, <2>2, <2>3, <2>4 DEF protocolVars
<1>12. state \notin Idling \union {"DISCARD"}
  OBVIOUS
<1> QED BY <1>6, <1>7, <1>8, <1>9, <1>10, <1>11, <1>12
        DEF Protocol, AcceptCommand, AcceptModuli, AcceptReciprocals, AcceptCounts, Discard

-----------------------------------------------------------------------------
(* The metadata queues move on by what was popped.                         *)
LEMMA PushElements ==
  ASSUME NEW S, NEW meta \in Seq(S), NEW pop, NEW push, NEW entry,
         pop => Len(meta) > 0
  PROVE  LET next   == Push(meta, pop, push, entry)
             popped == IF pop THEN 1 ELSE 0
         IN \A i \in 1..Len(next) :
              next[i] = IF i <= Len(meta) - popped THEN meta[i + popped] ELSE entry
<1> DEFINE rest == IF pop THEN Tail(meta) ELSE meta
           added == IF push THEN <<entry>> ELSE <<>>
           popped == IF pop THEN 1 ELSE 0
           T == S \union {entry}
<1>1. rest \in Seq(T) /\ Len(rest) = Len(meta) - popped
      /\ \A i \in 1..Len(rest) : rest[i] = meta[i + popped]
  <2>1. CASE pop
    <3>1. meta # <<>> /\ meta \in Seq(T)
      BY <2>1
    <3>2. Tail(meta) \in Seq(T) /\ Len(Tail(meta)) = Len(meta) - 1
          /\ \A i \in 1..Len(Tail(meta)) : Tail(meta)[i] = meta[i + 1]
      BY <3>1, HeadTailProperties
    <3> QED BY <2>1, <3>2
  <2>2. CASE ~pop
    <3>1. meta \in Seq(T)
      OBVIOUS
    <3> QED BY <2>2, <3>1
  <2> QED BY <2>1, <2>2
<1>2. added \in Seq(T) /\ \A i \in 1..Len(added) : i = 1 /\ added[i] = entry
  <2>1. entry \in T
    OBVIOUS
  <2> HIDE DEF T
  <2>2. CASE push
    BY <2>1, <2>2
  <2>3. CASE ~push
    BY <2>3
  <2> QED BY <2>2, <2>3
<1> HIDE DEF rest, added, T
<1>3. /\ Len(rest \o added) = Len(rest) + Len(added)
      /\ \A i \in 1..(Len(rest) + Len(added)) :
           (rest \o added)[i] = IF i <= Len(rest) THEN rest[i] ELSE added[i - Len(rest)]
  BY <1>1, <1>2, ConcatProperties
<1>4. Push(meta, pop, push, entry) = rest \o added
  BY DEF Push, rest, added
<1>5. Len(rest) \in Nat /\ Len(added) \in Nat
  BY <1>1, <1>2
<1>6. ASSUME NEW i \in 1..Len(rest \o added)
      PROVE  (rest \o added)[i] = IF i <= Len(meta) - popped THEN meta[i + popped] ELSE entry
  <2>1. CASE i <= Len(rest)
    BY <1>1, <1>3, <1>5, <2>1
  <2>2. CASE i > Len(rest)
    <3>1. i - Len(rest) \in 1..Len(added)
      BY <1>3, <1>5, <2>2
    <3> QED BY <1>1, <1>2, <1>3, <1>5, <2>2, <3>1
  <2> QED BY <1>5, <2>1, <2>2
<1> QED BY <1>4, <1>6

(* What a clock edge adds to and takes from each queue.                    *)
LEMMA EvalQueueLength ==
  ASSUME MetadataInv, NEW word, EvalPath(word)
  PROVE  Len(eval_meta') = Len(eval_meta) - (IF eval_meta_pop THEN 1 ELSE 0)
                             + (IF eval_launch(word) THEN 1 ELSE 0)
<1>1. PICK S : eval_meta \in Seq(S)
  BY DEF MetadataInv
<1>2. PICK entry, product :
        /\ eval_meta' = Push(eval_meta, eval_pipe[Latency].valid, eval_launch(word), entry)
        /\ product.valid <=> eval_launch(word)
  BY DEF NoProduct, EvalPath, eval_meta_pop
<1>3. eval_pipe[Latency].valid => Len(eval_meta) > 0
  BY EntryForResult DEF MetadataInv, MetadataInStep
<1>4. /\ eval_meta' \in Seq(S \union {entry})
      /\ Len(eval_meta') = Len(eval_meta) - (IF eval_pipe[Latency].valid THEN 1 ELSE 0)
                          + (IF eval_launch(word) THEN 1 ELSE 0)
  BY <1>1, <1>2, <1>3, PushLength
<1> QED BY <1>4 DEF eval_meta_pop

(* How the digit-product queue's length changes at a clock edge.           *)
LEMMA BvQueueLength ==
  ASSUME MetadataInv, NEW word, BvPath(word)
  PROVE  Len(bv_meta') = Len(bv_meta) - (IF bv_meta_pop THEN 1 ELSE 0)
                           + (IF bv_launch(word) THEN 1 ELSE 0)
<1>1. PICK S : bv_meta \in Seq(S)
  BY DEF MetadataInv
<1>2. PICK entry, product :
        /\ bv_meta' = Push(bv_meta, bv_pipe[Latency].valid, bv_launch(word), entry)
        /\ product.valid <=> bv_launch(word)
  BY DEF NoProduct, BvPath, bv_meta_pop
<1>3. bv_pipe[Latency].valid => Len(bv_meta) > 0
  BY EntryForResult DEF MetadataInv, MetadataInStep
<1>4. /\ bv_meta' \in Seq(S \union {entry})
      /\ Len(bv_meta') = Len(bv_meta) - (IF bv_pipe[Latency].valid THEN 1 ELSE 0)
                        + (IF bv_launch(word) THEN 1 ELSE 0)
  BY <1>1, <1>2, <1>3, PushLength
<1> QED BY <1>4 DEF bv_meta_pop

(* A bank's counter: it counts a hit, or is cleared for its next coefficient. *)
LEMMA CountedRunning ==
  ASSUME NEW count, NEW word, NEW hit, state \in Running, NEW bank \in Banks
  PROVE  Counted(count, word, hit)[bank] =
           IF hit[bank] THEN count[bank] + 1
           ELSE IF Starts(word) /\ bank = PriorBank THEN 0 ELSE count[bank]
BY DEF Counted, accepted_batch_header, Running, Keying, InputDone, Starts, PriorBank

(* There are two banks: the one that is not drained is the one being filled. *)
LEMMA OtherBank ==
  ASSUME compute_bank \in Banks
  PROVE  /\ PriorBank \in Banks /\ PriorBank # compute_bank /\ Other(PriorBank) = compute_bank
         /\ \A bank \in Banks : bank \in {compute_bank, PriorBank}
BY DEF PriorBank, Other, Banks

(* The bank the protocol computes in, and which results may still be on    *)
(* their way when it moves on.                                             *)
BanksFollow(word, landed) ==
  /\ compute_bank \in Banks
  /\ Starts(word) => /\ compute_bank' = PriorBank /\ ~bank_occupied[PriorBank]
                     /\ bank_occupied'[compute_bank]
  /\ ~Starts(word) => /\ compute_bank' = compute_bank
                      /\ bank_occupied'[PriorBank] => bank_occupied[PriorBank]
                      /\ landed < 0 => bank_occupied'[PriorBank]

(* EvalMul results land in launch order, each counted for its own bank.    *)
LEMMA EvalStep ==
  ASSUME InputInv, MetadataInv, EvalInv, state \in Running, state' \in Running,
         NEW word, EvalPath(word), UNCHANGED batch,
         BanksFollow(word, EvalLanded),
         EvalLaunched' = EvalLaunched + (IF eval_launch(word) THEN 1 ELSE 0)
                           - (IF Starts(word) THEN batch.count ELSE 0),
         Starts(word) => ~eval_launch(word) /\ EvalLaunched = batch.count
  PROVE  /\ EvalInv'
         /\ EvalLanded \in Int /\ EvalLanded' \in Int /\ EvalLanded <= batch.count
         /\ EvalLanded' <= batch.count
         /\ EvalLanded' >= EvalLanded - (IF Starts(word) THEN batch.count ELSE 0)
<1> DEFINE c      == batch.count
           pop    == eval_meta_pop
           popped == IF pop THEN 1 ELSE 0
           push   == eval_launch(word)
           pushed == IF push THEN 1 ELSE 0
           shift  == IF Starts(word) THEN c ELSE 0
           entry  == Head(eval_meta)
           hit    == [bank \in Banks |-> pop /\ entry.bank = bank]
           new    == [ciphertext |-> eval_input.ciphertext, bank |-> compute_bank]
           size   == Len(eval_meta)
<1>1. c \in Nat \ {0} /\ eval_input.ciphertext \in 0..(c - 1)
  BY CoreAssumption DEF InputInv
<1>2. PICK S : eval_meta \in Seq(S)
  BY DEF MetadataInv
<1>3. size \in Nat /\ (pop => size > 0) /\ (pop => entry = eval_meta[1])
  <2>1. pop => size > 0
    BY EntryForResult DEF MetadataInv, MetadataInStep, eval_meta_pop
  <2> QED BY <1>2, <2>1
<1>4. /\ eval_meta' = Push(eval_meta, pop, push, new)
      /\ eval_result_count' = Counted(eval_result_count, word, hit)
  BY DEF EvalPath
<1>5. Len(eval_meta') = size - popped + pushed
  BY EvalQueueLength
<1>6. \A i \in 1..Len(eval_meta') :
        eval_meta'[i] = IF i <= size - popped THEN eval_meta[i + popped] ELSE new
  BY <1>2, <1>3, <1>4, PushElements
<1>7. EvalLaunched \in 0..c /\ (push => EvalLaunched = eval_input.ciphertext)
  BY <1>1 DEF EvalLaunched, eval_launch
<1>8. EvalLanded = EvalLaunched - size /\ EvalLanded \in Int
  BY <1>3, <1>7 DEF EvalLanded
<1>9. EvalLanded' = EvalLanded + popped - shift /\ EvalLanded' \in Int
  <2>1. EvalLanded' = EvalLaunched' - Len(eval_meta')
    BY DEF EvalLanded
  <2>2. EvalLaunched' = EvalLaunched + pushed - shift
    OBVIOUS
  <2>3. popped \in 0..1 /\ pushed \in 0..1 /\ shift \in {0, c}
    OBVIOUS
  <2> HIDE DEF popped, pushed, shift, c, size
  <2> QED BY <1>1, <1>3, <1>5, <1>7, <1>8, <2>1, <2>2, <2>3
<1>10. Starts(word) => EvalLanded >= 0
  BY <1>8 DEF EvalInv, BanksFollow
<1>11. /\ PriorBank \in Banks /\ PriorBank # compute_bank
       /\ \A bank \in Banks : bank \in {compute_bank, PriorBank}
       /\ PriorBank' = IF Starts(word) THEN compute_bank ELSE PriorBank
       /\ compute_bank' = IF Starts(word) THEN PriorBank ELSE compute_bank
  BY OtherBank DEF BanksFollow, PriorBank
<1>12. pop => EvalEntryAt(entry, EvalLanded)
  BY <1>3, <1>8 DEF EvalInv
<1>13. eval_result_count'[compute_bank] =
         eval_result_count[compute_bank] + (IF pop /\ EvalLanded >= 0 THEN 1 ELSE 0)
  <2>1. hit[compute_bank] <=> pop /\ EvalLanded >= 0
    <3> HIDE DEF pop, entry
    <3>1. hit[compute_bank] <=> pop /\ entry.bank = compute_bank
      BY DEF BanksFollow
    <3>2. pop => (entry.bank = compute_bank <=> EvalLanded >= 0)
      BY <1>8, <1>11, <1>12 DEF EvalEntryAt
    <3> QED BY <3>1, <3>2
  <2>2. eval_result_count[compute_bank] \in Nat
    BY <1>8 DEF EvalInv, Beyond
  <2> HIDE DEF hit, pop
  <2> QED BY <1>4, <1>11, <2>1, <2>2, CountedRunning DEF BanksFollow
<1>14. eval_result_count'[PriorBank] =
         IF pop /\ EvalLanded < 0 THEN eval_result_count[PriorBank] + 1
         ELSE IF Starts(word) THEN 0 ELSE eval_result_count[PriorBank]
  <2>1. hit[PriorBank] <=> pop /\ EvalLanded < 0
    BY <1>8, <1>11, <1>12 DEF EvalEntryAt
  <2> HIDE DEF hit, pop
  <2> QED BY <1>4, <1>11, <2>1, CountedRunning
<1>15. EvalLanded' >= -c
  BY <1>1, <1>3, <1>8, <1>9, <1>10 DEF EvalInv
<1>16. EvalLanded' < 0 => bank_occupied'[PriorBank']
  <2>1. CASE Starts(word)
    BY <1>11, <2>1 DEF BanksFollow
  <2>2. CASE ~Starts(word)
    BY <1>1, <1>8, <1>9, <1>11, <2>2 DEF BanksFollow
  <2> QED BY <2>1, <2>2
<1>17. ASSUME NEW i \in 1..Len(eval_meta')
       PROVE  EvalEntryAt(eval_meta[i], EvalLanded + i - 1)'
  <2> DEFINE p == EvalLanded + popped + i - 1
  <2>1. p \in Int /\ p < c /\ EvalLanded' + i - 1 = p - shift
    <3>1. popped \in 0..1 /\ pushed \in 0..1 /\ shift \in {0, c}
          /\ (pushed = 1 => EvalLaunched < c)
      BY <1>1, <1>7
    <3>2. i \in Int /\ i <= size - popped + pushed
      BY <1>5, <1>3
    <3> HIDE DEF popped, pushed, shift, c, size
    <3> QED BY <1>1, <1>3, <1>7, <1>8, <1>9, <3>1, <3>2
  <2>2. EvalEntryAt(eval_meta'[i], p)
    <3>1. CASE i <= size - popped
      <4>1. i + popped \in 1..size
        BY <1>3, <3>1
      <4>2. EvalEntryAt(eval_meta[i + popped], EvalLanded + (i + popped) - 1)
        BY <4>1 DEF EvalInv
      <4>3. EvalLanded + (i + popped) - 1 = p
        BY <1>8, <4>1
      <4> QED BY <1>6, <3>1, <4>2, <4>3
    <3>2. CASE i > size - popped
      <4>1. push /\ i = size - popped + 1
        BY <1>3, <1>5, <3>2
      <4>2. p = EvalLaunched
        BY <1>3, <1>7, <1>8, <4>1
      <4>3. eval_meta'[i] = new
        BY <1>3, <1>6, <3>2
      <4>4. new.bank = compute_bank /\ new.ciphertext = eval_input.ciphertext
        OBVIOUS
      <4> HIDE DEF new, p
      <4> QED BY <1>7, <4>1, <4>2, <4>3, <4>4 DEF EvalEntryAt
    <3> QED BY <1>3, <3>1, <3>2
  <2>3. Starts(word) => p >= 0
    BY <1>3, <1>8, <1>10
  <2>4. EvalEntryAt(eval_meta[i], EvalLanded + i - 1)'
          <=> IF p - shift < 0
                THEN /\ eval_meta'[i].bank = PriorBank'
                     /\ eval_meta'[i].ciphertext = p - shift + c
                ELSE /\ eval_meta'[i].bank = compute_bank'
                     /\ eval_meta'[i].ciphertext = p - shift
    BY <2>1 DEF EvalEntryAt
  <2> HIDE DEF p
  <2> QED BY <1>1, <1>11, <2>1, <2>2, <2>3, <2>4 DEF EvalEntryAt
<1>18. eval_result_count'[compute_bank'] = Beyond(EvalLanded', 0)
  <2>1. CASE Starts(word)
    <3>1. EvalLanded' <= 0
      BY <1>1, <1>3, <1>7, <1>8, <1>9, <2>1
    <3> QED BY <1>1, <1>8, <1>9, <1>10, <1>11, <1>14, <2>1, <3>1 DEF Beyond
  <2>2. CASE ~Starts(word)
    <3>1. eval_result_count[compute_bank] = Beyond(EvalLanded, 0)
      BY DEF EvalInv
    <3> QED BY <1>8, <1>9, <1>11, <1>13, <2>2, <3>1 DEF Beyond
  <2> QED BY <2>1, <2>2
<1>19. bank_occupied'[PriorBank'] =>
         eval_result_count'[PriorBank'] =
           IF EvalLanded' < 0 THEN EvalLanded' + c ELSE c
  <2>1. CASE Starts(word)
    <3>1. eval_result_count[compute_bank] = Beyond(EvalLanded, 0)
      BY DEF EvalInv
    <3>2. EvalLanded' <= 0
      BY <1>1, <1>3, <1>7, <1>8, <1>9, <2>1
    <3>3. eval_result_count'[PriorBank'] = EvalLanded + (IF pop THEN 1 ELSE 0)
      BY <1>8, <1>10, <1>11, <1>13, <2>1, <3>1 DEF Beyond
    <3>4. EvalLanded' + c = EvalLanded + (IF pop THEN 1 ELSE 0)
      BY <1>1, <1>8, <1>9, <2>1
    <3>5. EvalLanded' \in Int /\ c \in Int
      BY <1>1, <1>8, <1>9
    <3> HIDE DEF c, pop
    <3> QED BY <3>2, <3>3, <3>4, <3>5
  <2>2. CASE ~Starts(word)
    BY <1>1, <1>8, <1>9, <1>11, <1>14, <2>2 DEF BanksFollow, EvalInv
  <2> QED BY <2>1, <2>2
<1>20. batch'.count = c
  OBVIOUS
<1>21. EvalLanded <= c /\ EvalLanded' <= c /\ EvalLanded' >= EvalLanded - shift
  <2>1. popped \in 0..1 /\ pushed \in 0..1 /\ shift \in Nat
        /\ (pushed = 1 => EvalLaunched < c)
    BY <1>1, <1>7
  <2>2. size \in Nat /\ size - popped >= 0 /\ EvalLaunched <= c /\ EvalLaunched \in Nat
    BY <1>3, <1>7
  <2> HIDE DEF popped, pushed, shift, c, size
  <2> QED BY <1>1, <1>8, <1>9, <2>1, <2>2
<1> HIDE DEF c
<1> QED BY <1>8, <1>9, <1>15, <1>16, <1>17, <1>18, <1>19, <1>20, <1>21 DEF EvalInv, c

(* How many of the positions from start on have been passed, one step on.  *)
LEMMA BeyondNext ==
  ASSUME NEW position \in Int, NEW start \in Int, NEW step \in 0..1
  PROVE  Beyond(position + step, start) =
           Beyond(position, start) + (IF step = 1 /\ position >= start THEN 1 ELSE 0)
BY DEF Beyond

(* Only the entries of a coefficient's last digit are counted.             *)
LEMMA LastDigit ==
  ASSUME batch.count \in Nat \ {0}, batch.digits \in Nat \ {0},
         NEW entry, NEW position \in Int, BvEntryAt(entry, position)
  PROVE  /\ position >= 0 => /\ entry.bank = compute_bank
                             /\ entry.digit + 1 = batch.digits <=> position >= FinalRow
         /\ position < 0 => /\ entry.bank = PriorBank
                            /\ entry.digit + 1 = batch.digits <=> position + batch.count >= 0
<1> DEFINE c == batch.count
           d == batch.digits
           k == entry.digit
           x == entry.ciphertext
<1>1. k \in 0..(d - 1) /\ x \in 0..(c - 1)
  BY DEF BvEntryAt
<1>2. /\ FinalRow \in Nat /\ AllRows = FinalRow + c /\ Row(k) \in Nat
      /\ k + 1 # d => Row(k) + c <= FinalRow
  BY <1>1, RowLimits
<1>3. k + 1 = d => Row(k) = FinalRow
  BY <1>1 DEF FinalRow
<1>4. /\ position < 0 => entry.bank = PriorBank /\ Row(k) + x = position + AllRows
      /\ position >= 0 => entry.bank = compute_bank /\ Row(k) + x = position
  BY DEF BvEntryAt
<1>5. k + 1 = d <=> Row(k) + x >= FinalRow
  <2> HIDE DEF k, x, c, d
  <2> QED BY <1>1, <1>2, <1>3 DEF c
<1> HIDE DEF k, x
<1>6. c \in Nat
  OBVIOUS
<1> QED BY <1>2, <1>4, <1>5, <1>6 DEF k

(* Key-switch products land in launch order, and a bank counts those of    *)
(* its last digit.                                                         *)
LEMMA BvStep ==
  ASSUME InputInv, MetadataInv, BvInv, state \in Running, state' \in Running,
         NEW word, BvPath(word), UNCHANGED batch, BanksFollow(word, BvLanded),
         BvLaunched' = BvLaunched + (IF bv_launch(word) THEN 1 ELSE 0)
                         - (IF Starts(word) THEN AllRows ELSE 0),
         Starts(word) => BvLaunched' = 0
  PROVE  /\ BvInv'
         /\ BvLanded \in Int /\ BvLanded' \in Int /\ BvLanded <= AllRows
         /\ BvLanded' <= AllRows
         /\ BvLanded' >= BvLanded - (IF Starts(word) THEN AllRows ELSE 0)
<1> DEFINE c      == batch.count
           pop    == bv_meta_pop
           popped == IF pop THEN 1 ELSE 0
           push   == bv_launch(word)
           pushed == IF push THEN 1 ELSE 0
           shift  == IF Starts(word) THEN AllRows ELSE 0
           adds   == IF bv_accum.valid THEN 1 ELSE 0
           entry  == Head(bv_meta)
           hit    == [bank \in Banks |-> /\ bv_accum.valid /\ bv_accum.bank = bank
                                         /\ bv_accum.digit + 1 = batch.digits]
           new    == [ciphertext |-> bv_input.ciphertext, digit |-> bv_input.digit,
                      bank |-> compute_bank]
           size   == Len(bv_meta)
           first  == BvLaunched - size
<1>1. /\ c \in Nat \ {0} /\ batch.digits \in Nat \ {0}
      /\ bv_input.ciphertext \in 0..(c - 1) /\ bv_input.digit \in 0..(batch.digits - 1)
  BY CoreAssumption DEF InputInv
<1>2. PICK S : bv_meta \in Seq(S)
  BY DEF MetadataInv
<1>3. size \in Nat /\ (pop => size > 0) /\ (pop => entry = bv_meta[1])
  <2>1. pop => size > 0
    BY EntryForResult DEF MetadataInv, MetadataInStep, bv_meta_pop
  <2> QED BY <1>2, <2>1
<1>4. /\ bv_meta' = Push(bv_meta, pop, push, new)
      /\ bv_final_result_count' = Counted(bv_final_result_count, word, hit)
  BY DEF BvPath
<1>5. Len(bv_meta') = size - popped + pushed
  BY BvQueueLength
<1>6. \A i \in 1..Len(bv_meta') :
        bv_meta'[i] = IF i <= size - popped THEN bv_meta[i + popped] ELSE new
  BY <1>2, <1>3, <1>4, PushElements
<1>7. /\ FinalRow \in Nat /\ AllRows \in Nat /\ AllRows = FinalRow + c
      /\ Row(bv_input.digit) \in Nat /\ Row(bv_input.digit) <= FinalRow
  BY <1>1, RowLimits
<1>8. /\ BvLaunched \in 0..AllRows
      /\ push => BvLaunched = Row(bv_input.digit) + bv_input.ciphertext /\ BvLaunched < AllRows
  BY <1>1, <1>7 DEF BvLaunched, bv_launch
<1>9. BvLanded = first - adds /\ BvLanded \in Int /\ first \in Int /\ adds \in 0..1
  BY <1>3, <1>8 DEF BvLanded
<1>10. /\ bv_accum'.valid <=> pop
       /\ pop => /\ bv_accum'.bank = entry.bank /\ bv_accum'.digit = entry.digit
                 /\ bv_accum'.ciphertext = entry.ciphertext
  <2>1. bv_accum' =
          IF ~pop THEN [bv_accum EXCEPT !.valid = FALSE]
          ELSE [valid |-> TRUE, bank |-> entry.bank, digit |-> entry.digit,
                ciphertext |-> entry.ciphertext,
                result_b |-> bv_pipe[Latency].b, result_a |-> bv_pipe[Latency].a,
                prior_b |-> ks_b_memory[entry.bank][entry.ciphertext],
                prior_a |-> ks_a_memory[entry.bank][entry.ciphertext]]
    BY DEF BvPath
  <2>2. "valid" \in DOMAIN bv_accum
    BY DEF BvInv
  <2> HIDE DEF pop, entry
  <2> QED BY <2>1, <2>2
<1>11. BvLanded' = first - shift /\ BvLanded' \in Int
  <2>1. BvLanded' = BvLaunched' - Len(bv_meta') - popped
    BY <1>10 DEF BvLanded
  <2>2. BvLaunched' = BvLaunched + pushed - shift
    OBVIOUS
  <2>3. popped \in Nat /\ pushed \in Nat /\ shift \in Nat /\ BvLaunched \in Nat
    BY <1>7, <1>8
  <2>4. size \in Nat
    BY <1>3
  <2> HIDE DEF popped, pushed, shift, size
  <2> QED BY <1>5, <2>1, <2>2, <2>3, <2>4
<1>12. Starts(word) => BvLanded >= 0 /\ first >= 0 /\ first <= AllRows
  <2>1. Starts(word) => BvLanded >= 0
    BY <1>9 DEF BvInv, BanksFollow
  <2>2. adds \in 0..1 /\ size \in Nat /\ BvLaunched \in Nat /\ BvLaunched <= AllRows
    BY <1>3, <1>7, <1>8
  <2> HIDE DEF adds, size
  <2> QED BY <1>7, <1>9, <2>1, <2>2
<1>13. /\ PriorBank \in Banks /\ PriorBank # compute_bank
       /\ \A bank \in Banks : bank \in {compute_bank, PriorBank}
       /\ PriorBank' = IF Starts(word) THEN compute_bank ELSE PriorBank
       /\ compute_bank' = IF Starts(word) THEN PriorBank ELSE compute_bank
  BY OtherBank DEF BanksFollow, PriorBank
<1>14. /\ adds = 1 /\ BvLanded >= 0 =>
            /\ bv_accum.bank = compute_bank
            /\ bv_accum.digit + 1 = batch.digits <=> BvLanded >= FinalRow
       /\ adds = 1 /\ BvLanded < 0 =>
            /\ bv_accum.bank = PriorBank
            /\ bv_accum.digit + 1 = batch.digits <=> BvLanded + c >= 0
  BY <1>1, <1>9, LastDigit DEF BvInv
<1>15. bv_final_result_count'[compute_bank] =
         bv_final_result_count[compute_bank]
           + (IF adds = 1 /\ BvLanded >= FinalRow THEN 1 ELSE 0)
  <2>1. hit[compute_bank] <=> adds = 1 /\ BvLanded >= FinalRow
    BY <1>7, <1>9, <1>13, <1>14 DEF BanksFollow
  <2>2. bv_final_result_count[compute_bank] \in Nat
    BY <1>7, <1>9 DEF BvInv, Beyond
  <2> HIDE DEF hit, adds
  <2> QED BY <1>4, <1>13, <2>1, <2>2, CountedRunning DEF BanksFollow
<1>16. bv_final_result_count'[PriorBank] =
         IF adds = 1 /\ BvLanded < 0 /\ BvLanded + c >= 0
           THEN bv_final_result_count[PriorBank] + 1
         ELSE IF Starts(word) THEN 0 ELSE bv_final_result_count[PriorBank]
  <2>1. hit[PriorBank] <=> adds = 1 /\ BvLanded < 0 /\ BvLanded + c >= 0
    BY <1>9, <1>13, <1>14
  <2> HIDE DEF hit, adds
  <2> QED BY <1>4, <1>13, <2>1, CountedRunning
<1>17. UNCHANGED <<AllRows, FinalRow>> /\ batch'.count = c
  BY DEF AllRows, FinalRow, Row
<1>18. BvLanded' >= -AllRows
  BY <1>7, <1>9, <1>11, <1>12 DEF BvInv
<1>19. BvLanded' < 0 => bank_occupied'[PriorBank']
  <2>1. CASE Starts(word)
    BY <1>13, <2>1 DEF BanksFollow
  <2>2. CASE ~Starts(word)
    BY <1>9, <1>11, <1>13, <2>2 DEF BanksFollow
  <2> QED BY <2>1, <2>2
<1>20. ASSUME NEW e, NEW p \in Int, BvEntryAt(e, p), p < AllRows, Starts(word) => p >= 0
       PROVE  /\ e.digit \in 0..(batch'.digits - 1) /\ e.ciphertext \in 0..(batch'.count - 1)
              /\ IF p - shift < 0
                   THEN /\ e.bank = PriorBank'
                        /\ Row(e.digit)' + e.ciphertext = p - shift + AllRows'
                   ELSE /\ e.bank = compute_bank'
                        /\ Row(e.digit)' + e.ciphertext = p - shift
  <2>1. Row(e.digit)' = Row(e.digit)
    BY DEF Row
  <2>2. shift = IF Starts(word) THEN AllRows ELSE 0
    OBVIOUS
  <2> HIDE DEF shift
  <2> QED BY <1>7, <1>13, <1>17, <1>20, <2>1, <2>2 DEF BvEntryAt
<1>21. ASSUME NEW i \in 1..Len(bv_meta')
       PROVE  BvEntryAt(bv_meta[i], BvLaunched - Len(bv_meta) + i - 1)'
  <2> DEFINE p == first + popped + i - 1
  <2>1. /\ p \in Int /\ p < AllRows /\ (Starts(word) => p >= 0)
        /\ BvLaunched' - Len(bv_meta') + i - 1 = p - shift
    <3>1. /\ popped \in Nat /\ pushed \in Nat /\ shift \in Nat
          /\ size \in Nat /\ AllRows \in Nat
          /\ BvLaunched \in Nat /\ BvLaunched + pushed <= AllRows
      BY <1>3, <1>7, <1>8
    <3>2. i \in Int /\ i <= size - popped + pushed /\ i >= 1
      BY <1>5, <1>3
    <3>3. BvLaunched' = BvLaunched + pushed - shift
      OBVIOUS
    <3>4. first = BvLaunched - size
      OBVIOUS
    <3> HIDE DEF popped, pushed, shift, size, first
    <3> QED BY <1>5, <1>12, <3>1, <3>2, <3>3, <3>4
  <2>2. BvEntryAt(bv_meta'[i], p)
    <3>1. CASE i <= size - popped
      <4>1. i + popped \in 1..size
        BY <1>3, <3>1
      <4>2. BvEntryAt(bv_meta[i + popped], BvLaunched - size + (i + popped) - 1)
        BY <4>1 DEF BvInv
      <4>3. BvLaunched - size + (i + popped) - 1 = p
        BY <1>3, <1>8, <4>1
      <4> QED BY <1>6, <3>1, <4>2, <4>3
    <3>2. CASE i > size - popped
      <4>1. push /\ i = size - popped + 1
        BY <1>3, <1>5, <3>2
      <4>2. p = BvLaunched
        <5>1. p = BvLaunched - size + popped + i - 1
          OBVIOUS
        <5>2. size \in Nat /\ popped \in 0..1 /\ BvLaunched \in Int
          BY <1>3, <1>7, <1>8
        <5> HIDE DEF p, size, popped
        <5> QED BY <4>1, <5>1, <5>2
      <4>3. bv_meta'[i] = new
        BY <1>3, <1>6, <3>2
      <4>4. new.bank = compute_bank /\ new.ciphertext = bv_input.ciphertext
            /\ new.digit = bv_input.digit
        OBVIOUS
      <4> HIDE DEF new, p
      <4> QED BY <1>1, <1>8, <4>1, <4>2, <4>3, <4>4 DEF BvEntryAt
    <3> QED BY <1>3, <3>1, <3>2
  <2> HIDE DEF p, shift
  <2> QED BY <1>20, <2>1, <2>2 DEF BvEntryAt
<1>22. bv_accum'.valid => BvEntryAt(bv_accum, BvLanded)'
  <2> SUFFICES ASSUME pop PROVE BvEntryAt(bv_accum, BvLanded)'
    BY <1>10
  <2>1. BvEntryAt(entry, first)
    <3>1. BvEntryAt(bv_meta[1], BvLaunched - size + 1 - 1)
      BY <1>3 DEF BvInv
    <3>2. BvLaunched - size + 1 - 1 = first
      BY <1>3, <1>8
    <3> QED BY <1>3, <3>1, <3>2
  <2>2. first < AllRows /\ (Starts(word) => first >= 0)
    <3>1. size \in Nat /\ size > 0 /\ BvLaunched \in Nat /\ BvLaunched <= AllRows
      BY <1>3, <1>8
    <3> HIDE DEF size, pop
    <3> QED BY <1>7, <1>12, <3>1
  <2>3. /\ bv_accum'.bank = entry.bank /\ bv_accum'.digit = entry.digit
        /\ bv_accum'.ciphertext = entry.ciphertext
    BY <1>10
  <2> HIDE DEF entry, first, shift
  <2> QED BY <1>9, <1>11, <1>20, <2>1, <2>2, <2>3 DEF BvEntryAt
<1>23. bv_final_result_count'[compute_bank'] = Beyond(BvLanded', FinalRow')
  <2>1. CASE Starts(word)
    <3>1. BvLanded' <= 0
      BY <1>7, <1>9, <1>11, <1>12, <2>1
    <3> QED BY <1>7, <1>9, <1>11, <1>12, <1>13, <1>16, <1>17, <2>1, <3>1 DEF Beyond
  <2>2. CASE ~Starts(word)
    <3>1. bv_final_result_count[compute_bank] = Beyond(BvLanded, FinalRow)
      BY DEF BvInv
    <3>2. BvLanded' = BvLanded + adds /\ adds \in 0..1 /\ BvLanded \in Int
      BY <1>9, <1>11, <2>2
    <3>3. Beyond(BvLanded + adds, FinalRow) =
            Beyond(BvLanded, FinalRow) + (IF adds = 1 /\ BvLanded >= FinalRow THEN 1 ELSE 0)
      <4> HIDE DEF adds
      <4> QED BY <1>7, <3>2, BeyondNext
    <3>4. compute_bank' = compute_bank
      BY <1>13, <2>2
    <3>5. bv_final_result_count'[compute_bank] = Beyond(BvLanded + adds, FinalRow)
      BY <1>15, <3>1, <3>3, Zenon
    <3> QED BY <1>17, <3>2, <3>4, <3>5, Zenon
  <2> QED BY <2>1, <2>2
<1>24. bank_occupied'[PriorBank'] =>
         bv_final_result_count'[PriorBank'] =
           IF BvLanded' < 0 THEN Beyond(BvLanded' + c, 0) ELSE c
  <2>1. CASE Starts(word)
    <3>1. bv_final_result_count[compute_bank] = Beyond(BvLanded, FinalRow)
      BY DEF BvInv
    <3>2. /\ BvLanded' = BvLanded + adds - AllRows /\ BvLanded' <= 0
          /\ adds \in 0..1 /\ BvLanded \in Int /\ BvLanded >= 0
      BY <1>7, <1>9, <1>11, <1>12, <2>1
    <3>3. bv_final_result_count'[PriorBank'] = Beyond(BvLanded + adds, FinalRow)
      <4> HIDE DEF adds
      <4> QED BY <1>7, <1>13, <1>15, <2>1, <3>1, <3>2 DEF Beyond
    <3>4. c \in Nat \ {0}
      BY <1>1
    <3> HIDE DEF adds, c
    <3> QED BY <1>7, <3>2, <3>3, <3>4 DEF Beyond
  <2>2. CASE ~Starts(word)
    <3>1. BvLanded' = BvLanded + adds /\ adds \in 0..1 /\ BvLanded \in Int
      BY <1>9, <1>11, <2>2
    <3>2. bank_occupied'[PriorBank] =>
            bv_final_result_count[PriorBank] =
              IF BvLanded < 0 THEN Beyond(BvLanded + c, 0) ELSE c
      BY <2>2 DEF BanksFollow, BvInv
    <3>3. c \in Nat \ {0}
      BY <1>1
    <3>4. BvLanded < 0 => bank_occupied'[PriorBank]
      BY <2>2 DEF BanksFollow
    <3> HIDE DEF adds, c
    <3> QED BY <1>13, <1>16, <2>2, <3>1, <3>2, <3>3, <3>4 DEF Beyond
  <2> QED BY <2>1, <2>2
<1>25. "valid" \in DOMAIN bv_accum'
  BY DEF BvPath, BvInv
<1>26. BvLanded <= AllRows /\ BvLanded' <= AllRows /\ BvLanded' >= BvLanded - shift
  <2>1. shift \in Nat /\ adds \in 0..1 /\ size \in Nat /\ BvLaunched \in Nat
        /\ BvLaunched <= AllRows
    BY <1>3, <1>7, <1>8
  <2> HIDE DEF shift, adds, size
  <2> QED BY <1>7, <1>9, <1>11, <2>1
<1> HIDE DEF c
<1> QED BY <1>9, <1>11, <1>26, <1>17, <1>18, <1>19, <1>21, <1>22, <1>23, <1>24, <1>25 DEF BvInv

(* A bank is complete only when all of its coefficient's results landed.   *)
LEMMA CompleteMeans ==
  ASSUME InputInv, MetadataInv, state \in Running, EvalInv, BvInv,
         compute_bank \in Banks,
         EvalLanded \in Int, EvalLanded <= batch.count,
         BvLanded \in Int, BvLanded <= AllRows
  PROVE  /\ compute_complete(compute_bank) =>
              /\ state \in InputDone
              /\ EvalLanded = batch.count /\ BvLanded = AllRows
         /\ compute_complete(PriorBank) =>
              bank_occupied[PriorBank] /\ EvalLanded >= 0 /\ BvLanded >= 0
<1> DEFINE c == batch.count
<1>1. c \in Nat \ {0} /\ batch.digits \in Nat \ {0}
      /\ bv_input.ciphertext \in 0..(c - 1) /\ bv_input.digit \in 0..(batch.digits - 1)
  BY CoreAssumption DEF InputInv
<1>2. /\ FinalRow \in Nat /\ AllRows \in Nat /\ AllRows = FinalRow + c
      /\ Row(bv_input.digit) \in Nat /\ Row(bv_input.digit) <= FinalRow
  BY <1>1, RowLimits
<1>3. BvLaunched \in Nat /\ (state \notin InputDone => BvLaunched < AllRows)
  BY <1>1, <1>2 DEF BvLaunched, InputDone, Running, Keying
<1>4. BvLanded <= BvLaunched
  <2>1. Len(bv_meta) \in Nat
    BY StagesFinite DEF MetadataInv, MetadataInStep
  <2> QED BY <1>3, <2>1 DEF BvLanded
<1>5. ASSUME compute_complete(compute_bank)
      PROVE  state \in InputDone /\ EvalLanded = c /\ BvLanded = AllRows
  <2>1. Beyond(EvalLanded, 0) = c /\ Beyond(BvLanded, FinalRow) = c
    BY <1>5 DEF compute_complete, EvalInv, BvInv
  <2>2. EvalLanded = c /\ BvLanded = AllRows
    <3> HIDE DEF c
    <3> QED BY <1>1, <1>2, <2>1 DEF Beyond
  <2> QED BY <1>2, <1>3, <1>4, <2>2
<1>6. ASSUME compute_complete(PriorBank)
      PROVE  bank_occupied[PriorBank] /\ EvalLanded >= 0 /\ BvLanded >= 0
  <2>1. /\ bank_occupied[PriorBank]
        /\ c = IF EvalLanded < 0 THEN EvalLanded + c ELSE c
        /\ c = IF BvLanded < 0 THEN Beyond(BvLanded + c, 0) ELSE c
    BY <1>6 DEF compute_complete, EvalInv, BvInv
  <2> HIDE DEF c
  <2> QED BY <1>1, <2>1 DEF Beyond
<1> QED BY <1>5, <1>6

(* What the output scheduler does in a clock edge, with no new batch.      *)
LEMMA OutputMoves ==
  ASSUME BankInv, NEW word, NEW ready, OutputScheduler(word, ready),
         ~accepted_batch_header(word),
         batch.count \in Nat \ {0}, output.ciphertext < batch.count,
         ~output.active => output.ciphertext = 0, completed_coefficients \in Nat
  PROVE  /\ completed_coefficients' \in Nat
         /\ output_coefficient_complete(ready) =>
              /\ output.active /\ output.ciphertext + 1 = batch.count
              /\ ~output'.active /\ output'.ciphertext = 0
              /\ output'.coefficient_index =
                   IF output.coefficient_index # LastCoefficient
                     THEN output.coefficient_index + 1 ELSE output.coefficient_index
              /\ completed_coefficients' = completed_coefficients + 1
         /\ ~output_coefficient_complete(ready) =>
              /\ output'.coefficient_index = output.coefficient_index
              /\ output'.ciphertext < batch.count
              /\ ~output'.active => output'.ciphertext = 0
              /\ completed_coefficients' + output.ciphertext =
                   completed_coefficients + output'.ciphertext
              /\ output'.active =>
                   output'.bank = IF output.active THEN output.bank
                                  ELSE output.coefficient_index % 2
<1> DEFINE complete == output_coefficient_complete(ready)
<1>0. output \in [active : BOOLEAN, bank : Banks, coefficient_index : Nat,
                  ciphertext : Nat, component : 0..1]
  BY DEF BankInv
<1> DEFINE x == output.ciphertext
<1>6. x \in Nat
  BY <1>0
<1>1. complete <=> /\ output.active /\ ready /\ output.component = 1
                   /\ output.ciphertext + 1 = batch.count
  BY DEF output_coefficient_complete
<1>2. CASE ~output.active
  <2> DEFINE parity == output.coefficient_index % 2
  <2>1. /\ output' = IF bank_ready[parity]
                       THEN [output EXCEPT !.active = TRUE, !.bank = parity,
                                           !.ciphertext = 0, !.component = 0]
                       ELSE output
        /\ UNCHANGED completed_coefficients
    BY <1>2 DEF OutputScheduler
  <2> HIDE DEF parity
  <2>2. output'.ciphertext = 0 /\ output'.coefficient_index = output.coefficient_index
        /\ (output'.active => output'.bank = parity)
    BY <1>0, <1>2, <2>1
  <2> QED BY <1>0, <1>1, <1>2, <2>1, <2>2 DEF parity
<1>3. CASE output.active /\ ~ready
  <2>1. output' = output /\ UNCHANGED completed_coefficients
    BY <1>3 DEF OutputScheduler, outputVars
  <2> QED BY <1>0, <1>1, <1>3, <2>1
<1>4. CASE output.active /\ ready /\ output.component = 0
  <2>1. output' = [output EXCEPT !.component = 1] /\ UNCHANGED completed_coefficients
    BY <1>4 DEF OutputScheduler
  <2>2. output'.ciphertext = output.ciphertext /\ output'.bank = output.bank
        /\ output'.coefficient_index = output.coefficient_index /\ output'.active
    BY <1>0, <1>4, <2>1
  <2>3. ~complete
    <3>1. output.component # 1
      BY <1>4
    <3> HIDE DEF complete
    <3> QED BY <1>1, <3>1
  <2>4. UNCHANGED completed_coefficients
    BY <2>1
  <2> HIDE DEF complete
  <2> QED BY <1>4, <1>6, <2>2, <2>3, <2>4 DEF complete
<1>5. CASE output.active /\ ready /\ output.component = 1
  <2> DEFINE final == output.ciphertext + 1 = batch.count
             ciphertext == IF final THEN 0 ELSE output.ciphertext + 1
             index == IF final /\ output.coefficient_index # LastCoefficient
                        THEN output.coefficient_index + 1 ELSE output.coefficient_index
  <2>1. /\ completed_coefficients' = completed_coefficients + 1
        /\ output' = [output EXCEPT !.component = 0, !.active = ~final,
                                    !.ciphertext = ciphertext, !.coefficient_index = index]
    BY <1>5 DEF OutputScheduler
  <2>2. /\ output'.active = ~final /\ output'.ciphertext = ciphertext
        /\ output'.coefficient_index = index /\ output'.bank = output.bank
    <3> HIDE DEF final, ciphertext, index
    <3> QED BY <1>0, <2>1
  <2>3. complete <=> final
    <3> HIDE DEF complete
    <3> QED BY <1>1, <1>5
  <2>4. completed_coefficients' = completed_coefficients + 1
    BY <2>1
  <2>5. CASE final
    <3>1. /\ ~output'.active /\ output'.ciphertext = 0 /\ x + 1 = batch.count
          /\ output'.coefficient_index =
               IF output.coefficient_index # LastCoefficient
                 THEN output.coefficient_index + 1 ELSE output.coefficient_index
      BY <2>2, <2>5
    <3>2. complete
      <4> HIDE DEF final, complete
      <4> QED BY <2>3, <2>5
    <3>3. output.active /\ completed_coefficients' \in Nat
          /\ completed_coefficients' = completed_coefficients + 1
      BY <1>5, <2>4
    <3> HIDE DEF final, ciphertext, index, complete
    <3> QED BY <3>1, <3>2, <3>3 DEF complete
  <2>6. CASE ~final
    <3>1. x + 1 # batch.count /\ x < batch.count /\ batch.count \in Nat
      BY <2>6
    <3>2. /\ output'.active /\ output'.ciphertext = x + 1
          /\ output'.coefficient_index = output.coefficient_index
          /\ output'.bank = output.bank
      BY <2>2, <2>6
    <3>3. ~complete
      <4> HIDE DEF final, complete
      <4> QED BY <2>3, <2>6
    <3>4. x + 1 < batch.count
      <4> HIDE DEF x
      <4> QED BY <1>6, <3>1
    <3>5. completed_coefficients' + x = completed_coefficients + (x + 1)
      <4> HIDE DEF x
      <4> QED BY <1>6, <2>4
    <3>6. output.active /\ completed_coefficients' \in Nat
      BY <1>5, <2>4
    <3> HIDE DEF final, ciphertext, index, complete
    <3> QED BY <3>2, <3>3, <3>4, <3>5, <3>6 DEF complete
  <2> QED BY <2>5, <2>6
<1> QED BY <1>0, <1>2, <1>3, <1>4, <1>5

(* Only the older of the two coefficients drains while a batch runs, and   *)
(* the next is started only when the older one's bank is free.             *)
LEMMA BanksMove ==
  ASSUME InputInv, BankInv, DrainInv, state \in Running, NEW word, NEW ready,
         Protocol(word, ready), GoodWord(word), BankOwnership(word, ready),
         ~Finishes(ready)
  PROVE  /\ compute_bank \in Banks /\ PriorBank \in Banks /\ PriorBank # compute_bank
         /\ output_coefficient_complete(ready) =>
              /\ bank_occupied[PriorBank] /\ bank_ready[PriorBank]
              /\ output.coefficient_index + 1 = coefficient_index
         /\ bank_occupied'[compute_bank]
         /\ bank_ready'[compute_bank] =>
              compute_complete(compute_bank) \/ bank_ready[compute_bank]
         /\ Starts(word) => /\ bank_occupied'[PriorBank] /\ ~bank_ready'[PriorBank]
                            /\ ~output_coefficient_complete(ready) /\ ~output.active
         /\ ~Starts(word) =>
              /\ bank_occupied'[PriorBank] <=>
                   bank_occupied[PriorBank] /\ ~output_coefficient_complete(ready)
              /\ bank_ready'[PriorBank] =>
                   compute_complete(PriorBank) \/ bank_ready[PriorBank]
<1> DEFINE complete == output_coefficient_complete(ready)
           released(bank) == complete /\ bank = output.bank
           started(bank) == Starts(word) /\ bank = Other(compute_bank)
<1>1. /\ coefficient_index \in Nat /\ compute_bank = coefficient_index % 2
      /\ compute_bank \in Banks /\ LastCoefficient \in Nat
      /\ coefficient_index <= LastCoefficient
  BY CoreAssumption DEF InputInv, Banks, LastCoefficient
<1>2. /\ PriorBank \in Banks /\ PriorBank # compute_bank
      /\ \A bank \in Banks : bank = compute_bank \/ bank = PriorBank
  BY <1>1, OtherBank
<1>3. /\ output.coefficient_index \in Nat /\ output.bank \in Banks
      /\ (output.active => bank_ready[output.bank])
      /\ \A bank \in Banks : bank_ready[bank] => bank_occupied[bank]
  BY DEF BankInv
<1>4. /\ bank_occupied[PriorBank] => output.coefficient_index = coefficient_index - 1
      /\ ~bank_occupied[PriorBank] => output.coefficient_index = coefficient_index
      /\ output.active => output.bank = output.coefficient_index % 2
  BY DEF DrainInv
<1>5. /\ output.active /\ bank_occupied[PriorBank] => output.bank = PriorBank
      /\ output.active /\ ~bank_occupied[PriorBank] =>
           /\ output.bank = compute_bank
           /\ state = "WAIT_BATCH_OUTPUT" /\ coefficient_index = LastCoefficient
  <2>1. bank_occupied[PriorBank] => output.coefficient_index % 2 = PriorBank
    BY <1>1, <1>3, <1>4 DEF PriorBank, Other
  <2>2. ~bank_occupied[PriorBank] => output.coefficient_index % 2 = compute_bank
    BY <1>1, <1>4
  <2>3. bank_ready[compute_bank] => state \in InputDone
    BY DEF DrainInv
  <2>4. output.active /\ ~bank_occupied[PriorBank] => state = "WAIT_BATCH_OUTPUT"
    BY <1>3, <1>4, <2>2, <2>3 DEF InputDone, DrainInv
  <2> QED BY <1>4, <2>1, <2>2, <2>4 DEF InputInv
<1>6. complete => /\ output.active /\ bank_occupied[PriorBank] /\ output.bank = PriorBank
                  /\ bank_ready[PriorBank]
                  /\ output.coefficient_index + 1 = coefficient_index
  <2>1. complete => output.active
    BY DEF output_coefficient_complete
  <2>2. complete => bank_occupied[PriorBank]
    BY <1>4, <1>5, <2>1 DEF Finishes, output_batch_complete
  <2> QED BY <1>1, <1>3, <1>4, <1>5, <2>1, <2>2
<1>7. Starts(word) => /\ ~bank_occupied[PriorBank] /\ ~complete
                      /\ state # "WAIT_BATCH_OUTPUT"
  BY <1>6 DEF Starts, start_next_coefficient_event, next_bank_available, PriorBank,
     input_coefficient_complete
<1>8. ~accepted_batch_header(word)
  BY DEF accepted_batch_header, Running, Keying, InputDone
<1>9. /\ bank_occupied' =
           [bank \in Banks |->
              ~released(bank) /\ (started(bank) \/ bank_occupied[bank])]
      /\ bank_ready' =
           [bank \in Banks |->
              /\ ~released(bank)
              /\ compute_complete(bank) \/ (bank_ready[bank] /\ ~started(bank))]
  BY <1>8 DEF BankOwnership, Starts
<1>10. /\ ~released(compute_bank) /\ ~started(compute_bank)
       /\ released(PriorBank) <=> complete
       /\ started(PriorBank) <=> Starts(word)
  BY <1>2, <1>6 DEF PriorBank
<1> HIDE DEF released, started, complete
<1>11. /\ bank_occupied'[compute_bank] <=> bank_occupied[compute_bank]
       /\ bank_ready'[compute_bank] <=>
            compute_complete(compute_bank) \/ bank_ready[compute_bank]
       /\ bank_occupied'[PriorBank] <=>
            ~complete /\ (Starts(word) \/ bank_occupied[PriorBank])
       /\ bank_ready'[PriorBank] <=>
            /\ ~complete
            /\ compute_complete(PriorBank) \/ (bank_ready[PriorBank] /\ ~Starts(word))
  BY <1>1, <1>2, <1>9, <1>10
<1>12. compute_complete(PriorBank) => bank_occupied[PriorBank]
  BY DEF compute_complete
<1>13. bank_occupied[compute_bank]
  BY DEF DrainInv
<1> QED BY <1>1, <1>2, <1>5, <1>6, <1>7, <1>11, <1>12, <1>13 DEF complete

(* The drain follows the computation by at most one coefficient.           *)
LEMMA DrainStep ==
  ASSUME InputInv, MetadataInv, BankInv, EvalInv, BvInv, DrainInv, BankInv',
         state \in Running, NEW word, NEW ready,
         Protocol(word, ready), GoodWord(word), BankOwnership(word, ready),
         OutputScheduler(word, ready), ~Finishes(ready),
         EvalLanded \in Int, EvalLanded' \in Int, EvalLanded <= batch.count,
         EvalLanded' <= batch.count,
         EvalLanded' >= EvalLanded - (IF Starts(word) THEN batch.count ELSE 0),
         BvLanded \in Int, BvLanded' \in Int, BvLanded <= AllRows,
         BvLanded' <= AllRows,
         BvLanded' >= BvLanded - (IF Starts(word) THEN AllRows ELSE 0)
  PROVE  DrainInv' /\ completed_coefficients' \in Nat
<1> DEFINE c == batch.count
           complete == output_coefficient_complete(ready)
           drained == output.coefficient_index
<1>1. /\ c \in Nat \ {0} /\ batch.digits \in Nat \ {0}
      /\ coefficient_index \in Nat /\ coefficient_index <= LastCoefficient
      /\ compute_bank = coefficient_index % 2 /\ LastCoefficient \in Nat
      /\ drained \in Nat /\ output.ciphertext \in Nat /\ completed_coefficients \in Nat
      /\ completed.ciphertexts \in Nat
  BY CoreAssumption DEF InputInv, BankInv, LastCoefficient
<1>2. AllRows \in Nat /\ Row(drained) \in Nat /\ Row(drained + 1) = Row(drained) + c
  BY <1>1, RowLimits, RowStep
<1>3. UNCHANGED batch /\ c' = c /\ AllRows' = AllRows
  BY Advance DEF AllRows, Row
<1>4. ~accepted_batch_header(word)
  BY DEF accepted_batch_header, Running, Keying, InputDone
<1>5. /\ completed_coefficients' \in Nat
      /\ complete =>
           /\ output.active /\ output.ciphertext + 1 = c
           /\ ~output'.active /\ output'.ciphertext = 0
           /\ output'.coefficient_index =
                IF drained # LastCoefficient THEN drained + 1 ELSE drained
           /\ completed_coefficients' = completed_coefficients + 1
      /\ ~complete =>
           /\ output'.coefficient_index = drained
           /\ output'.ciphertext < c
           /\ ~output'.active => output'.ciphertext = 0
           /\ completed_coefficients' + output.ciphertext =
                completed_coefficients + output'.ciphertext
           /\ output'.active =>
                output'.bank = IF output.active THEN output.bank ELSE drained % 2
  BY <1>1, <1>4, OutputMoves DEF DrainInv
<1>6. /\ compute_bank \in Banks /\ PriorBank \in Banks /\ PriorBank # compute_bank
      /\ complete => /\ bank_occupied[PriorBank] /\ bank_ready[PriorBank]
                     /\ drained + 1 = coefficient_index
      /\ bank_occupied'[compute_bank]
      /\ bank_ready'[compute_bank] =>
           compute_complete(compute_bank) \/ bank_ready[compute_bank]
      /\ Starts(word) => /\ bank_occupied'[PriorBank] /\ ~bank_ready'[PriorBank]
                         /\ ~complete /\ ~output.active
      /\ ~Starts(word) =>
           /\ bank_occupied'[PriorBank] <=> bank_occupied[PriorBank] /\ ~complete
           /\ bank_ready'[PriorBank] =>
                compute_complete(PriorBank) \/ bank_ready[PriorBank]
  BY BanksMove
<1>7. /\ bank_ready'[compute_bank] =>
           state \in InputDone /\ EvalLanded = c /\ BvLanded = AllRows
      /\ compute_complete(PriorBank) \/ bank_ready[PriorBank] =>
           EvalLanded >= 0 /\ BvLanded >= 0
  BY <1>6, CompleteMeans DEF DrainInv
<1>8. completed_coefficients = N * completed.ciphertexts + Row(drained) + output.ciphertext
      /\ N * completed.ciphertexts \in Nat
  BY <1>1, CoreAssumption DEF DrainInv
<1>9. CASE Starts(word)
  <2>1. /\ state' = "COEFFICIENT_EVAL" /\ compute_bank' = PriorBank
        /\ coefficient_index' = coefficient_index + 1
        /\ ~bank_occupied[PriorBank] /\ UNCHANGED completed
    BY <1>9, Advance
  <2>2. PriorBank' = compute_bank
    BY <1>6, <2>1 DEF PriorBank, Other, Banks
  <2>3. drained = coefficient_index /\ output.ciphertext = 0
    BY <1>6, <1>9, <2>1 DEF DrainInv
  <2>4. output'.coefficient_index = drained /\ output'.ciphertext < c
        /\ (~output'.active => output'.ciphertext = 0)
        /\ (output'.active => output'.bank = drained % 2)
    BY <1>5, <1>6, <1>9
  <2>5. /\ bank_occupied'[compute_bank'] /\ bank_occupied'[PriorBank']
        /\ ~bank_ready'[compute_bank']
    BY <1>6, <1>9, <2>1, <2>2
  <2>6. bank_ready'[PriorBank'] => EvalLanded' >= 0 /\ BvLanded' >= 0
    BY <1>1, <1>2, <1>7, <1>9, <2>2
  <2>7. completed_coefficients' =
          N * completed'.ciphertexts + Row(drained) + output'.ciphertext
    <3>1. completed'.ciphertexts = completed.ciphertexts
      BY <2>1
    <3>2. completed_coefficients' = completed_coefficients + output'.ciphertext
      BY <1>1, <1>5, <1>6, <1>9, <2>3
    <3>3. output'.ciphertext \in Nat
      BY DEF BankInv
    <3> DEFINE before == N * completed.ciphertexts
    <3> HIDE DEF before
    <3>4. completed_coefficients' = before + Row(drained) + output'.ciphertext
      BY <1>1, <1>2, <1>8, <2>3, <3>2, <3>3 DEF before
    <3> QED BY <3>1, <3>4 DEF before
  <2>8. Row(drained) = Row(output.coefficient_index)'
    BY <1>3, <2>4 DEF Row
  <2>9. output'.coefficient_index = coefficient_index' - 1
    BY <1>1, <2>1, <2>3, <2>4
  <2> QED BY <1>3, <1>5, <2>1, <2>2, <2>3, <2>4, <2>5, <2>6, <2>7, <2>8, <2>9
          DEF DrainInv, InputDone
<1>10. ASSUME ~Starts(word)
       PROVE  /\ PriorBank' = PriorBank
              /\ UNCHANGED <<coefficient_index, compute_bank, completed>>
              /\ state \in InputDone => state' = state
              /\ EvalLanded' >= EvalLanded /\ BvLanded' >= BvLanded
  BY <1>1, <1>10, Advance DEF PriorBank
<1>11. ASSUME ~Starts(word)
       PROVE  /\ bank_occupied'[compute_bank']
              /\ bank_ready'[compute_bank'] =>
                   /\ state \in InputDone /\ state' = state
                   /\ EvalLanded' = c /\ BvLanded' = AllRows
              /\ bank_ready'[PriorBank'] => EvalLanded' >= 0 /\ BvLanded' >= 0
  <2>1. bank_ready'[compute_bank] => EvalLanded' = c /\ BvLanded' = AllRows
    <3> HIDE DEF c
    <3> QED BY <1>1, <1>2, <1>7, <1>10, <1>11 DEF c
  <2>2. bank_ready'[PriorBank] => EvalLanded' >= 0 /\ BvLanded' >= 0
    BY <1>6, <1>7, <1>10, <1>11
  <2> QED BY <1>6, <1>7, <1>10, <1>11, <2>1, <2>2
<1>12. CASE ~Starts(word) /\ complete
  <2>1. drained + 1 = coefficient_index /\ drained # LastCoefficient
    BY <1>1, <1>6, <1>12
  <2>2. /\ output'.coefficient_index = drained + 1 /\ output.ciphertext + 1 = c
        /\ ~output'.active /\ output'.ciphertext = 0
        /\ completed_coefficients' = completed_coefficients + 1
    BY <1>5, <1>12, <2>1
  <2>3. ~bank_occupied'[PriorBank']
    BY <1>6, <1>10, <1>12
  <2>4. completed_coefficients' =
          N * completed'.ciphertexts + Row(drained + 1) + output'.ciphertext
    <3>1. completed'.ciphertexts = completed.ciphertexts
      BY <1>10, <1>12
    <3> DEFINE before == N * completed.ciphertexts
    <3> HIDE DEF before
    <3>4. completed_coefficients' = before + Row(drained + 1)
      BY <1>1, <1>2, <1>8, <2>2 DEF before
    <3>5. before \in Nat /\ Row(drained + 1) \in Nat
      BY <1>1, <1>2, <1>8 DEF before
    <3> QED BY <3>1, <3>4, <3>5, <2>2 DEF before
  <2>5. Row(drained + 1) = Row(output.coefficient_index)'
    BY <1>3, <2>2 DEF Row
  <2>6. output'.ciphertext < c /\ output'.coefficient_index = coefficient_index'
    BY <1>1, <1>10, <1>12, <2>1, <2>2
  <2> QED BY <1>3, <1>5, <1>10, <1>11, <1>12, <2>2, <2>3, <2>4, <2>5, <2>6
          DEF DrainInv
<1>13. CASE ~Starts(word) /\ ~complete
  <2>1. /\ output'.coefficient_index = drained /\ output'.ciphertext < c
        /\ ~output'.active => output'.ciphertext = 0
        /\ completed_coefficients' + output.ciphertext =
             completed_coefficients + output'.ciphertext
        /\ output'.active =>
             output'.bank = IF output.active THEN output.bank ELSE drained % 2
    BY <1>5, <1>13
  <2>2. output'.active => output'.bank = drained % 2
    BY <2>1 DEF DrainInv
  <2>3. bank_occupied'[PriorBank'] <=> bank_occupied[PriorBank]
    BY <1>6, <1>10, <1>13
  <2>4. output'.coefficient_index =
          IF bank_occupied'[PriorBank'] THEN coefficient_index' - 1 ELSE coefficient_index'
    BY <1>10, <1>13, <2>1, <2>3 DEF DrainInv
  <2>5. completed_coefficients' =
          N * completed'.ciphertexts + Row(drained) + output'.ciphertext
    <3>1. completed'.ciphertexts = completed.ciphertexts
      BY <1>10, <1>13
    <3>2. output'.ciphertext \in Nat
      BY DEF BankInv
    <3> DEFINE before == N * completed.ciphertexts
    <3> HIDE DEF before
    <3>4. completed_coefficients' = before + Row(drained) + output'.ciphertext
      BY <1>1, <1>2, <1>5, <1>8, <2>1, <3>2 DEF before
    <3> QED BY <3>1, <3>4 DEF before
  <2>6. Row(drained) = Row(output.coefficient_index)'
    BY <1>3, <2>1 DEF Row
  <2>7. state' = "WAIT_BANK" /\ output'.active => bank_occupied'[PriorBank']
    <3> SUFFICES ASSUME state' = "WAIT_BANK", output'.active, ~bank_occupied'[PriorBank']
                 PROVE  FALSE
      OBVIOUS
    <3>1. output'.bank = compute_bank
      BY <1>1, <1>10, <1>13, <2>1, <2>2, <2>4
    <3>2. bank_ready'[compute_bank]
      BY <3>1 DEF BankInv
    <3>3. state = "WAIT_BANK"
      BY <1>10, <1>11, <1>13, <3>2
    <3> QED BY <1>13, <2>3, <3>3 DEF Starts, start_next_coefficient_event,
               next_bank_available, PriorBank
  <2> QED BY <1>3, <1>5, <1>10, <1>11, <1>13, <2>1, <2>2, <2>4, <2>5, <2>6, <2>7
          DEF DrainInv
<1> QED BY <1>9, <1>12, <1>13

(* Nothing is launched while no coefficient is being read, so queues that  *)
(* are empty stay so.                                                      *)
LEMMA QueuesStayEmpty ==
  ASSUME MetadataInv, MetadataInv', eval_meta = <<>>, bv_meta = <<>>,
         "valid" \in DOMAIN bv_accum,
         state \notin {"COEFFICIENT_EVAL", "COEFFICIENT_DIGITS"},
         NEW word, EvalPath(word), BvPath(word)
  PROVE  /\ eval_meta' = <<>> /\ bv_meta' = <<>> /\ ~bv_accum'.valid
         /\ "valid" \in DOMAIN bv_accum'
<1>1. ~eval_meta_pop /\ ~bv_meta_pop
  BY EntryForResult DEF eval_meta_pop, bv_meta_pop, MetadataInv, MetadataInStep
<1>2. ~eval_launch(word) /\ ~bv_launch(word)
  BY DEF eval_launch, bv_launch
<1>3. Len(eval_meta') = 0 /\ Len(bv_meta') = 0
  BY <1>1, <1>2, EvalQueueLength, BvQueueLength
<1>4. eval_meta' = <<>> /\ bv_meta' = <<>>
  <2>1. PICK S : eval_meta' \in Seq(S)
    BY DEF MetadataInv
  <2>2. PICK T : bv_meta' \in Seq(T)
    BY DEF MetadataInv
  <2> QED BY <1>3, <2>1, <2>2
<1>5. bv_accum' = [bv_accum EXCEPT !.valid = FALSE]
  BY <1>1 DEF BvPath
<1> QED BY <1>4, <1>5

(* The batch ends with its last result landed, in an idle core.            *)
LEMMA FinishStep ==
  ASSUME InputInv, MetadataInv, MetadataInv', BankInv, EvalInv, BvInv, DrainInv,
         state \in Running, NEW word, NEW ready, Clock(word, ready),
         GoodWord(word), Finishes(ready)
  PROVE  /\ RestInv' /\ completed_coefficients' \in Nat /\ state' = "IDLE"
<1> DEFINE c == batch.count
<1>1. /\ c \in Nat \ {0} /\ batch.digits \in Nat \ {0}
      /\ coefficient_index \in Nat /\ compute_bank = coefficient_index % 2
      /\ compute_bank \in Banks /\ output.ciphertext \in Nat
      /\ completed_coefficients \in Nat /\ completed.ciphertexts \in Nat
      /\ DOMAIN completed = {"profiles", "ciphertexts", "batches"}
  BY CoreAssumption DEF InputInv, BankInv, Banks, LastCoefficient
<1>2. AllRows \in Nat
  BY <1>1, RowLimits
<1>3. /\ state = "WAIT_BATCH_OUTPUT" /\ output_coefficient_complete(ready)
      /\ output.coefficient_index = LastCoefficient /\ coefficient_index = LastCoefficient
      /\ output.active
  BY DEF Finishes, output_batch_complete, output_coefficient_complete, InputInv
<1>4. ~bank_occupied[PriorBank] /\ output.bank = compute_bank
  BY <1>1, <1>3 DEF DrainInv
<1>5. EvalLanded = c /\ BvLanded = AllRows
  BY <1>3, <1>4 DEF BankInv, DrainInv
<1>6. EvalLaunched = c /\ BvLaunched = AllRows
  BY <1>3 DEF EvalLaunched, BvLaunched, Keying
<1>7. Len(eval_meta) = 0 /\ Len(bv_meta) = 0 /\ ~bv_accum.valid
  <2>1. Len(eval_meta) \in Nat /\ Len(bv_meta) \in Nat
    BY StagesFinite DEF MetadataInv, MetadataInStep
  <2>2. c - Len(eval_meta) = c
    BY <1>5, <1>6 DEF EvalLanded
  <2>3. AllRows - Len(bv_meta) - (IF bv_accum.valid THEN 1 ELSE 0) = AllRows
    BY <1>5, <1>6 DEF BvLanded
  <2> HIDE DEF c
  <2> QED BY <1>1, <1>2, <2>1, <2>2, <2>3
<1>8. eval_meta = <<>> /\ bv_meta = <<>>
  <2>1. PICK S : eval_meta \in Seq(S)
    BY DEF MetadataInv
  <2>2. PICK T : bv_meta \in Seq(T)
    BY DEF MetadataInv
  <2> QED BY <1>7, <2>1, <2>2
<1>9. /\ eval_meta' = <<>> /\ bv_meta' = <<>> /\ ~bv_accum'.valid
      /\ "valid" \in DOMAIN bv_accum'
  BY <1>3, <1>8, QueuesStayEmpty DEF Clock, BvInv
<1>10. /\ state' = "IDLE" /\ ~Starts(word)
       /\ completed' = [completed EXCEPT !.ciphertexts = @ + batch.count,
                                         !.batches = @ + 1]
  BY Advance DEF Clock
<1>11. ~accepted_batch_header(word)
  BY <1>3 DEF accepted_batch_header
<1>12. ASSUME NEW bank \in Banks PROVE ~bank_occupied'[bank] /\ ~bank_ready'[bank]
  <2>1. bank = compute_bank \/ bank = PriorBank
    BY <1>1, OtherBank
  <2>2. /\ bank_occupied'[bank] =>
             /\ ~(output_coefficient_complete(ready) /\ bank = output.bank)
             /\ bank_occupied[bank]
        /\ bank_ready'[bank] =>
             /\ ~(output_coefficient_complete(ready) /\ bank = output.bank)
             /\ compute_complete(bank) \/ bank_ready[bank]
    BY <1>10, <1>11 DEF Clock, BankOwnership, Starts
  <2>3. ~compute_complete(PriorBank) /\ ~bank_ready[PriorBank]
    BY <1>1, <1>4, OtherBank DEF compute_complete, BankInv
  <2> QED BY <1>3, <1>4, <2>1, <2>2, <2>3
<1>13. /\ completed_coefficients' = completed_coefficients + 1
       /\ ~output'.active /\ output.ciphertext + 1 = c
  BY <1>1, <1>3, <1>11, OutputMoves DEF Clock, DrainInv
<1>14. completed_coefficients = N * completed.ciphertexts + Row(N - 1) + output.ciphertext
  BY <1>3 DEF DrainInv, LastCoefficient
<1>15. completed_coefficients' = N * completed'.ciphertexts
  <2>1. completed'.ciphertexts = completed.ciphertexts + c
    BY <1>1, <1>10
  <2>2. Row(N - 1) = N * c - c
    BY <1>1, CoreAssumption DEF Row
  <2>3. N * (completed.ciphertexts + c) = N * completed.ciphertexts + N * c
        /\ N * completed.ciphertexts \in Nat /\ N * c \in Nat
    <3> HIDE DEF c
    <3> QED BY <1>1, CoreAssumption
  <2> DEFINE before == N * completed.ciphertexts
             all == N * c
  <2>4. completed_coefficients = before + (all - c) + output.ciphertext
    BY <1>14, <2>2
  <2>5. before \in Nat /\ all \in Nat
    BY <2>3
  <2>6. completed_coefficients' = before + all
    <3> HIDE DEF before, all, c
    <3> QED BY <1>1, <1>13, <2>4, <2>5 DEF c
  <2> HIDE DEF c
  <2> QED BY <2>1, <2>3, <2>6
<1> QED BY <1>1, <1>9, <1>10, <1>12, <1>13, <1>15 DEF RestInv

(* An idle core stays empty until a batch header starts one afresh.        *)
LEMMA RestStep ==
  ASSUME InputInv, InputInv', RestInv, MetadataInv, MetadataInv', BankInv,
         state \in Idling, NEW word, NEW ready, Clock(word, ready), GoodWord(word)
  PROVE  IF accepted_batch_header(word)
           THEN state' \in Running /\ EvalInv' /\ BvInv' /\ DrainInv'
           ELSE state' \in Idling /\ RestInv'
<1>1. /\ eval_meta' = <<>> /\ bv_meta' = <<>> /\ ~bv_accum'.valid
      /\ "valid" \in DOMAIN bv_accum'
  BY QueuesStayEmpty DEF RestInv, Idling, Clock
<1>2. completed_coefficients' = completed_coefficients
  BY DEF Clock, OutputScheduler, outputVars, RestInv
<1>3. completed.ciphertexts' = completed.ciphertexts
  BY DEF Clock, Protocol, Idling, AcceptCommand, AcceptModuli, AcceptReciprocals,
     AcceptCounts, AcceptOperand, AcceptKey, AcceptDigit, Discard, WaitBank,
     FinishBatch, Hold, protocolVars, Reject, InputInv
<1>4. CASE accepted_batch_header(word)
  <2>1. Handshake(word) /\ state = "BATCH_HEADER" /\ ~word.last /\ ValidCounts(word)
    BY <1>4 DEF accepted_batch_header
  <2>2. /\ state' = "COEFFICIENT_EVAL" /\ coefficient_index' = 0 /\ compute_bank' = 0
        /\ eval_input' = [eval_input EXCEPT !.ciphertext = 0, !.phase = 0]
        /\ bv_input' = [bv_input EXCEPT !.digit = 0, !.ciphertext = 0]
    BY <2>1 DEF Clock, Protocol, AcceptCommand, AcceptModuli, AcceptReciprocals,
       AcceptCounts, AcceptOperand, AcceptKey, AcceptDigit, Discard, WaitBank,
       FinishBatch, Hold, Goto, RestartInput
  <2>3. /\ bank_occupied' = [bank \in Banks |-> bank = 0]
        /\ bank_ready' = [bank \in Banks |-> FALSE]
        /\ output' = IdleOutput
    BY <1>4 DEF Clock, BankOwnership, OutputScheduler
  <2>4. /\ \A bank \in Banks : eval_result_count'[bank] = 0
        /\ \A bank \in Banks : bv_final_result_count'[bank] = 0
    BY <1>4 DEF Clock, EvalPath, BvPath, Counted
  <2>5. /\ batch'.count \in Nat \ {0} /\ batch'.digits \in Nat \ {0}
        /\ eval_input'.ciphertext = 0 /\ bv_input'.digit = 0
        /\ state' \in Running
    BY <2>2, CoreAssumption DEF InputInv, Running
  <2>6. FinalRow' \in Nat /\ AllRows' \in Nat
    BY <2>5 DEF FinalRow, AllRows, Row
  <2>7. PriorBank' = 1 /\ 0 \in Banks /\ 1 \in Banks
    BY <2>2 DEF PriorBank, Other, Banks
  <2>12. bank_occupied'[0] /\ ~bank_occupied'[1] /\ ~bank_ready'[0] /\ ~bank_ready'[1]
    <3>1. bank_occupied'[0] = (0 = 0) /\ bank_occupied'[1] = (1 = 0)
      BY <2>3, <2>7, Zenon
    <3>2. bank_ready'[0] = FALSE /\ bank_ready'[1] = FALSE
      BY <2>3, <2>7
    <3>3. (0 = 0) /\ ~(1 = 0)
      OBVIOUS
    <3> QED BY <3>1, <3>2, <3>3, Zenon
  <2>8. EvalLanded' = 0 /\ BvLanded' = 0 /\ Len(bv_meta') = 0 /\ Len(eval_meta') = 0
    <3>1. Len(bv_meta') = 0 /\ Len(eval_meta') = 0
      BY <1>1
    <3>2. EvalLaunched' = 0
      BY <2>2, <2>5 DEF EvalLaunched
    <3>3. BvLaunched' = 0
      BY <2>2 DEF BvLaunched, Keying
    <3>4. EvalLanded' = 0
      BY <3>1, <3>2 DEF EvalLanded
    <3>5. BvLanded' = 0
      <4>1. BvLanded' = BvLaunched' - Len(bv_meta') - (IF bv_accum'.valid THEN 1 ELSE 0)
        BY DEF BvLanded
      <4>2. (IF bv_accum'.valid THEN 1 ELSE 0) = 0
        BY <1>1
      <4>3. \A k : k = 0 => 0 - 0 - k = 0
        OBVIOUS
      <4> QED BY <3>1, <3>3, <4>1, <4>2, <4>3
    <3> QED BY <3>1, <3>4, <3>5
  <2>9. EvalInv'
    <3>1. 1..Len(eval_meta') = {}
      BY <2>8
    <3>2. EvalLanded' >= -batch'.count /\ EvalLanded' = 0 /\ Beyond(0, 0) = 0
      BY <2>5, <2>8 DEF Beyond
    <3>3. compute_bank' = 0 /\ PriorBank' = 1 /\ 0 \in Banks
      BY <2>2, <2>7
    <3> QED BY <2>4, <2>12, <3>1, <3>2, <3>3 DEF EvalInv
  <2>10. BvInv'
    <3>1. 1..Len(bv_meta') = {}
      BY <2>8
    <3>2. bv_final_result_count'[0] = 0 /\ ~bank_occupied'[1]
      BY <2>4, <2>7, <2>12
    <3>3. Beyond(BvLanded', FinalRow') = 0
      <4>1. \A row \in Nat : Beyond(0, row) = 0
        BY DEF Beyond
      <4> QED BY <2>6, <2>8, <4>1
    <3>4. BvLanded' >= -AllRows'
      <4>1. \A row \in Nat : 0 >= -row
        OBVIOUS
      <4> QED BY <2>6, <2>8, <4>1
    <3> QED BY <1>1, <2>2, <2>7, <2>8, <3>1, <3>2, <3>3, <3>4 DEF BvInv
  <2>11. DrainInv'
    <3>1. /\ output'.coefficient_index = 0 /\ ~output'.active /\ output'.ciphertext = 0
      BY <2>3 DEF IdleOutput
    <3>2. completed_coefficients' = N * completed'.ciphertexts
      BY <1>2, <1>3 DEF RestInv
    <3>3. completed_coefficients' =
            N * completed'.ciphertexts + Row(0)' + output'.ciphertext
      <4>1. Row(0)' = 0
        BY <2>5 DEF Row
      <4>2. completed_coefficients' \in Nat
        BY DEF InputInv
      <4> QED BY <3>1, <3>2, <4>1, <4>2
    <3>4. Row(output.coefficient_index)' = Row(0)'
      BY <3>1 DEF Row
    <3>6. output'.ciphertext < batch'.count
      BY <2>5, <3>1
    <3> QED BY <2>2, <2>7, <2>12, <3>1, <3>3, <3>4, <3>6 DEF DrainInv
  <2> QED BY <1>4, <2>5, <2>9, <2>10, <2>11
<1>5. CASE ~accepted_batch_header(word)
  <2>1. state' \in Idling
    BY <1>5 DEF Clock, Protocol, Idling, AcceptCommand, AcceptModuli,
       AcceptReciprocals, AcceptCounts, AcceptOperand, AcceptKey, AcceptDigit,
       Discard, WaitBank, FinishBatch, Hold, protocolVars, Goto, GoodWord,
       accepted_batch_header
  <2>2. ~start_next_coefficient_event(word) /\ ~output_coefficient_complete(ready)
    BY DEF Idling, RestInv, start_next_coefficient_event, input_coefficient_complete,
       output_coefficient_complete
  <2>3. ASSUME NEW bank \in Banks PROVE ~bank_occupied'[bank] /\ ~bank_ready'[bank]
    BY <1>5, <2>2 DEF Clock, BankOwnership, compute_complete, RestInv
  <2>4. ~output'.active
    <3>1. output.coefficient_index % 2 \in Banks
      BY DEF BankInv, Banks
    <3> QED BY <1>5, <3>1 DEF Clock, OutputScheduler, RestInv
  <2> QED BY <1>1, <1>2, <1>3, <1>5, <2>1, <2>3, <2>4 DEF RestInv
<1> QED BY <1>4, <1>5

(* While frames are well formed, one clock edge keeps the flow of the batch *)
(* and reports no protocol error.                                          *)
LEMMA FlowStep ==
  ASSUME FlowInv, CoreInv, NEW word, NEW ready, GoodWord(word), Clock(word, ready)
  PROVE  FlowInv' /\ UNCHANGED protocol_error
<1>1. CoreInv'
  BY CoreStep
<1>2. /\ InputInv /\ MetadataInv /\ MetadataInv' /\ BankInv /\ BankInv'
      /\ Protocol(word, ready) /\ BankOwnership(word, ready)
      /\ OutputScheduler(word, ready) /\ EvalPath(word) /\ BvPath(word)
  BY <1>1 DEF FlowInv, CoreInv, Clock
<1>3. CASE state \in Running /\ Finishes(ready)
  <2>1. EvalInv /\ BvInv /\ DrainInv
    BY <1>3 DEF FlowInv
  <2>2. RestInv' /\ completed_coefficients' \in Nat /\ state' = "IDLE"
    BY <1>2, <1>3, <2>1, FinishStep
  <2>3. InputInv' /\ UNCHANGED protocol_error
    BY <1>2, <2>2, InputStep
  <2> QED BY <2>2, <2>3 DEF FlowInv, Running, Keying, InputDone
<1>4. CASE state \in Running /\ ~Finishes(ready)
  <2>1. EvalInv /\ BvInv /\ DrainInv
    BY <1>4 DEF FlowInv
  <2>2. /\ UNCHANGED batch /\ state' \in Running
        /\ Starts(word) =>
             /\ compute_bank' = PriorBank /\ ~bank_occupied[PriorBank]
             /\ ~eval_launch(word) /\ EvalLaunched = batch.count /\ EvalLaunched' = 0
             /\ BvLaunched + (IF bv_launch(word) THEN 1 ELSE 0) = AllRows
             /\ BvLaunched' = 0
        /\ ~Starts(word) =>
             /\ compute_bank' = compute_bank
             /\ EvalLaunched' = EvalLaunched + (IF eval_launch(word) THEN 1 ELSE 0)
             /\ BvLaunched' = BvLaunched + (IF bv_launch(word) THEN 1 ELSE 0)
    BY <1>2, <1>4, Advance DEF Running
  <2>3. /\ batch.count \in Nat \ {0} /\ batch.digits \in Nat \ {0}
        /\ bv_input.ciphertext \in Nat /\ bv_input.digit \in 0..(batch.digits - 1)
        /\ eval_input.ciphertext \in Nat
    BY <1>2, <1>4, CoreAssumption DEF InputInv
  <2>4. AllRows \in Nat /\ EvalLaunched \in Nat /\ BvLaunched \in Nat
    <3>1. AllRows \in Nat /\ Row(bv_input.digit) \in Nat
      BY <2>3, RowLimits
    <3> QED BY <2>3, <3>1 DEF EvalLaunched, BvLaunched
  <2>5. /\ EvalLaunched' = EvalLaunched + (IF eval_launch(word) THEN 1 ELSE 0)
                             - (IF Starts(word) THEN batch.count ELSE 0)
        /\ BvLaunched' = BvLaunched + (IF bv_launch(word) THEN 1 ELSE 0)
                           - (IF Starts(word) THEN AllRows ELSE 0)
    BY <2>2, <2>3, <2>4
  <2>6. /\ compute_bank \in Banks
        /\ output_coefficient_complete(ready) => bank_ready[PriorBank]
        /\ bank_occupied'[compute_bank]
        /\ ~Starts(word) =>
             (bank_occupied'[PriorBank] <=>
                bank_occupied[PriorBank] /\ ~output_coefficient_complete(ready))
    BY <1>2, <1>4, <2>1, BanksMove
  <2>7. BanksFollow(word, EvalLanded) /\ BanksFollow(word, BvLanded)
    <3>1. /\ EvalLanded < 0 => bank_occupied[PriorBank]
          /\ BvLanded < 0 => bank_occupied[PriorBank]
      BY <2>1 DEF EvalInv, BvInv
    <3>2. EvalLanded \in Int /\ BvLanded \in Int
      <4>1. Len(eval_meta) \in Nat /\ Len(bv_meta) \in Nat
        BY <1>2, StagesFinite DEF MetadataInv, MetadataInStep
      <4> QED BY <2>4, <4>1 DEF EvalLanded, BvLanded
    <3>3. bank_ready[PriorBank] => ~(EvalLanded < 0) /\ ~(BvLanded < 0)
      BY <2>1, <3>2 DEF DrainInv
    <3> QED BY <2>2, <2>6, <3>1, <3>3 DEF BanksFollow
  <2>8. /\ EvalInv'
        /\ EvalLanded \in Int /\ EvalLanded' \in Int /\ EvalLanded <= batch.count
        /\ EvalLanded' <= batch.count
        /\ EvalLanded' >= EvalLanded - (IF Starts(word) THEN batch.count ELSE 0)
    BY <1>2, <1>4, <2>1, <2>2, <2>5, <2>7, EvalStep
  <2>9. /\ BvInv'
        /\ BvLanded \in Int /\ BvLanded' \in Int /\ BvLanded <= AllRows
        /\ BvLanded' <= AllRows
        /\ BvLanded' >= BvLanded - (IF Starts(word) THEN AllRows ELSE 0)
    BY <1>2, <1>4, <2>1, <2>2, <2>5, <2>7, BvStep
  <2>10. DrainInv' /\ completed_coefficients' \in Nat
    BY <1>2, <1>4, <2>1, <2>8, <2>9, DrainStep
  <2>11. InputInv' /\ UNCHANGED protocol_error
    BY <1>2, <2>10, InputStep
  <2> QED BY <2>2, <2>8, <2>9, <2>10, <2>11 DEF FlowInv
<1>5. CASE state \notin Running
  <2>1. state \in Idling /\ RestInv
    BY <1>2, <1>5 DEF FlowInv, InputInv
  <2>2. completed_coefficients' \in Nat
    BY <1>2, <2>1 DEF OutputScheduler, outputVars, RestInv, InputInv
  <2>3. InputInv' /\ UNCHANGED protocol_error
    BY <1>2, <2>2, InputStep
  <2>4. IF accepted_batch_header(word)
          THEN state' \in Running /\ EvalInv' /\ BvInv' /\ DrainInv'
          ELSE state' \in Idling /\ RestInv'
    BY <1>2, <2>1, <2>3, RestStep
  <2>5. \A s \in Idling : s \notin Running
    BY DEF Idling, Running, Keying, InputDone
  <2> QED BY <2>3, <2>4, <2>5 DEF FlowInv
<1> QED BY <1>3, <1>4, <1>5

(* After reset_n the core rests, whatever was under way before it.         *)
LEMMA FlowStarts == (CoreInit => FlowInv) /\ (CoreReset => FlowInv')
<1>1. /\ "IDLE" \in Idling /\ "IDLE" \notin Running
  BY DEF Idling, Running, Keying, InputDone
<1>2. 0 = N * 0 /\ 0 \in Nat
  BY CoreAssumption
<1>3. ASSUME CoreInit PROVE FlowInv
  <2>1. InputInv
    BY <1>1, <1>2, <1>3 DEF CoreInit, InputInv, ResetBatch, ResetEvalInput,
       ResetBvInput, ResetCompleted
  <2>2. RestInv
    BY <1>2, <1>3 DEF CoreInit, RestInv, ResetAccum, ResetCompleted, IdleOutput, NoBank
  <2> QED BY <1>1, <1>3, <2>1, <2>2 DEF FlowInv, CoreInit
<1>4. ASSUME CoreReset PROVE FlowInv'
  <2>1. InputInv'
    BY <1>1, <1>2, <1>4 DEF CoreReset, InputInv, ResetBatch, ResetEvalInput,
       ResetBvInput, ResetCompleted
  <2>2. RestInv'
    BY <1>2, <1>4 DEF CoreReset, RestInv, ResetAccum, ResetCompleted, IdleOutput, NoBank
  <2> QED BY <1>1, <1>4, <2>1, <2>2 DEF FlowInv, CoreReset
<1> QED BY <1>3, <1>4

(* A clock in which the core does nothing keeps its flow.                  *)
LEMMA FlowRests == ASSUME FlowInv, UNCHANGED coreVars PROVE FlowInv'
BY DEF coreVars, protocolVars, bankVars, outputVars, evalVars, bvVars, FlowInv, InputInv,
   EvalInv, BvInv, DrainInv, RestInv, EvalLanded, EvalLaunched, BvLanded, BvLaunched,
   EvalEntryAt, BvEntryAt, PriorBank, FinalRow, AllRows, Row

-----------------------------------------------------------------------------
(* Where in the payload of a batch frame the core's counters are.          *)
CoefficientPosition ==
  LET words == CoefficientWords(batch)
      keys  == (4 * batch.count) + bv_input.digit * (batch.count + 2)
  IN CASE state = "COEFFICIENT_EVAL"   -> (4 * eval_input.ciphertext) + eval_input.phase
       [] state = "COEFFICIENT_KEY_B"  -> keys
       [] state = "COEFFICIENT_KEY_A"  -> keys + 1
       [] state = "COEFFICIENT_DIGITS" -> keys + 2 + bv_input.ciphertext
       [] OTHER                        -> words
Consumed == coefficient_index * CoefficientWords(batch) + CoefficientPosition

(* The words of a coefficient before the keys of a digit.                  *)
LEMMA KeyPosition ==
  ASSUME batch.count \in Nat \ {0}, batch.digits \in Nat \ {0},
         NEW k \in 0..(batch.digits - 1)
  PROVE  /\ k * (batch.count + 2) \in Nat /\ CoefficientWords(batch) \in Nat
         /\ (k + 1) * (batch.count + 2) = k * (batch.count + 2) + batch.count + 2
         /\ 4 * batch.count + (k + 1) * (batch.count + 2) <= CoefficientWords(batch)
         /\ k + 1 = batch.digits <=>
              4 * batch.count + (k + 1) * (batch.count + 2) = CoefficientWords(batch)
<1> DEFINE x == batch.count + 2
           m == batch.digits - 1 - k
<1>1. x \in Nat \ {0} /\ m \in Nat /\ k \in Nat /\ batch.digits = k + 1 + m
  OBVIOUS
<1>2. CoefficientWords(batch) = 4 * batch.count + batch.digits * x
  BY DEF CoefficientWords
<1>3. batch.digits * x = (k + 1) * x + m * x /\ m * x \in Nat /\ (m = 0 <=> m * x = 0)
      /\ (k + 1) * x = k * x + x /\ k * x \in Nat
  <2> HIDE DEF x, m
  <2> QED BY <1>1
<1>4. k + 1 = batch.digits <=> m = 0
  BY <1>1
<1>5. 4 * batch.count \in Nat
  OBVIOUS
<1> DEFINE kx == k * x
           k1x == (k + 1) * x
           mx == m * x
<1> HIDE DEF kx, k1x, mx
<1>6. /\ CoefficientWords(batch) = 4 * batch.count + (k1x + mx)
      /\ k1x = kx + x /\ kx \in Nat /\ mx \in Nat /\ (m = 0 <=> mx = 0)
  BY <1>2, <1>3 DEF kx, k1x, mx
<1>7. /\ CoefficientWords(batch) \in Nat
      /\ 4 * batch.count + k1x <= CoefficientWords(batch)
      /\ k + 1 = batch.digits <=> 4 * batch.count + k1x = CoefficientWords(batch)
  <2> HIDE DEF x, m
  <2> QED BY <1>1, <1>4, <1>5, <1>6
<1> QED BY <1>3, <1>6, <1>7 DEF kx, k1x

(* The position of a word in its coefficient, and which one is the last.   *)
LEMMA PositionLimits ==
  ASSUME InputInv, state \in Running
  PROVE  /\ CoefficientWords(batch) \in Nat \ {0}
         /\ CoefficientPosition \in 0..CoefficientWords(batch)
         /\ state \in InputDone => CoefficientPosition = CoefficientWords(batch)
         /\ state \notin InputDone =>
              /\ CoefficientPosition < CoefficientWords(batch)
              /\ CoefficientPosition + 1 = CoefficientWords(batch) <=>
                   /\ state = "COEFFICIENT_DIGITS"
                   /\ final_bv_ciphertext /\ final_bv_digit
<1> DEFINE c == batch.count
           k == bv_input.digit
           keys == 4 * c + k * (c + 2)
           words == CoefficientWords(batch)
<1>1. /\ c \in Nat \ {0} /\ batch.digits \in Nat \ {0} /\ k \in 0..(batch.digits - 1)
      /\ eval_input.ciphertext \in 0..(c - 1) /\ eval_input.phase \in 0..3
      /\ bv_input.ciphertext \in 0..(c - 1)
  BY CoreAssumption DEF InputInv
<1>2. /\ k * (c + 2) \in Nat /\ words \in Nat /\ keys + c + 2 <= words /\ keys \in Nat
      /\ k + 1 = batch.digits <=> keys + c + 2 = words
      /\ keys >= 4 * c
  <2> DEFINE kx == k * (c + 2)
             k1x == (k + 1) * (c + 2)
  <2>1. /\ kx \in Nat /\ words \in Nat /\ k1x = kx + c + 2
        /\ 4 * c + k1x <= words /\ (k + 1 = batch.digits <=> 4 * c + k1x = words)
    BY <1>1, KeyPosition
  <2>2. keys = 4 * c + kx
    OBVIOUS
  <2> HIDE DEF kx, k1x, keys, words, k
  <2>3. 4 * c + k1x = keys + c + 2 /\ keys \in Nat /\ keys >= 4 * c
    BY <1>1, <2>1, <2>2
  <2> QED BY <2>1, <2>3 DEF kx
<1>3. /\ state = "COEFFICIENT_EVAL" =>
           CoefficientPosition = 4 * eval_input.ciphertext + eval_input.phase
      /\ state = "COEFFICIENT_KEY_B" => CoefficientPosition = keys
      /\ state = "COEFFICIENT_KEY_A" => CoefficientPosition = keys + 1
      /\ state = "COEFFICIENT_DIGITS" =>
           CoefficientPosition = keys + 2 + bv_input.ciphertext
      /\ state \in InputDone => CoefficientPosition = words
  BY DEF CoefficientPosition, InputDone
<1>4. /\ final_bv_ciphertext <=> bv_input.ciphertext + 1 = c
      /\ final_bv_digit <=> k + 1 = batch.digits
  BY DEF final_bv_ciphertext, final_bv_digit
<1>5. state \in InputDone \/ state \in {"COEFFICIENT_EVAL", "COEFFICIENT_KEY_B",
                                        "COEFFICIENT_KEY_A", "COEFFICIENT_DIGITS"}
  BY DEF Running, Keying
<1>6. {"COEFFICIENT_EVAL", "COEFFICIENT_KEY_B", "COEFFICIENT_KEY_A",
       "COEFFICIENT_DIGITS"} \intersect InputDone = {}
  BY DEF InputDone
<1>7. words # 0
  <2> HIDE DEF keys, words
  <2> QED BY <1>1, <1>2
<1> HIDE DEF keys, words, k
<1>8. CASE state = "COEFFICIENT_EVAL"
  BY <1>1, <1>2, <1>3, <1>6, <1>7, <1>8 DEF words
<1>9. CASE state = "COEFFICIENT_KEY_B" \/ state = "COEFFICIENT_KEY_A"
  BY <1>1, <1>2, <1>3, <1>6, <1>7, <1>9 DEF words
<1>10. CASE state = "COEFFICIENT_DIGITS"
  BY <1>1, <1>2, <1>3, <1>4, <1>6, <1>7, <1>10 DEF words
<1>11. CASE state \in InputDone
  BY <1>2, <1>3, <1>7, <1>11 DEF words
<1> QED BY <1>5, <1>8, <1>9, <1>10, <1>11

(* TLAST belongs on the word that completes the payload.                   *)
LEMMA LastPosition ==
  ASSUME InputInv, state \in Running
  PROVE  /\ Consumed \in Nat /\ Consumed <= PayloadWords(batch)
         /\ state = "WAIT_BATCH_OUTPUT" => Consumed = PayloadWords(batch)
         /\ state # "WAIT_BATCH_OUTPUT" => Consumed < PayloadWords(batch)
         /\ state \notin InputDone =>
              (Consumed + 1 = PayloadWords(batch) <=>
                 state = "COEFFICIENT_DIGITS" /\ final_external_payload_word)
<1> DEFINE w == CoefficientWords(batch)
           p == CoefficientPosition
           i == coefficient_index
           m == N - 1 - i
<1>1. i \in Nat /\ m \in Nat /\ N = i + 1 + m /\ N \in Nat
      /\ (i = LastCoefficient <=> m = 0)
  BY CoreAssumption DEF InputInv, LastCoefficient
<1>2. w \in Nat \ {0} /\ p \in 0..w
  BY PositionLimits
<1>3. PayloadWords(batch) = i * w + w + m * w /\ i * w \in Nat /\ m * w \in Nat
      /\ (m = 0 <=> m * w = 0) /\ (m # 0 => m * w >= w)
  <2>1. PayloadWords(batch) = N * w
    BY DEF PayloadWords
  <2> HIDE DEF w, m, i
  <2> QED BY <1>1, <1>2, <2>1
<1> DEFINE iw == i * w
           mw == m * w
<1>4. Consumed = iw + p
  BY DEF Consumed
<1>5. /\ state = "WAIT_BATCH_OUTPUT" => m = 0 /\ p = w
      /\ state = "WAIT_BANK" => m # 0 /\ p = w
  BY <1>1, PositionLimits DEF InputInv, InputDone
<1>6. state \notin InputDone =>
        /\ p < w
        /\ p + 1 = w /\ m = 0 <=> state = "COEFFICIENT_DIGITS" /\ final_external_payload_word
  BY <1>1, PositionLimits DEF final_external_payload_word
<1>7. state \in InputDone <=> state = "WAIT_BATCH_OUTPUT" \/ state = "WAIT_BANK"
  BY DEF InputDone
<1>8. PayloadWords(batch) = iw + w + mw /\ iw \in Nat /\ mw \in Nat
      /\ (m = 0 <=> mw = 0) /\ (m # 0 => mw >= w)
  BY <1>3
<1> HIDE DEF iw, mw, w, p, m, i
<1>9. Consumed \in Nat /\ Consumed <= PayloadWords(batch)
  BY <1>2, <1>4, <1>8
<1>10. state = "WAIT_BATCH_OUTPUT" => Consumed = PayloadWords(batch)
  BY <1>2, <1>4, <1>5, <1>8
<1>11. state # "WAIT_BATCH_OUTPUT" => Consumed < PayloadWords(batch)
  BY <1>2, <1>4, <1>5, <1>6, <1>7, <1>8
<1>12. Consumed + 1 = PayloadWords(batch) /\ p < w => p + 1 = w /\ m = 0
  BY <1>2, <1>4, <1>8
<1>13. p + 1 = w /\ m = 0 => Consumed + 1 = PayloadWords(batch)
  BY <1>2, <1>4, <1>8
<1> QED BY <1>6, <1>9, <1>10, <1>11, <1>12, <1>13

(* The same of every state, for the one a step leads to as well.           *)
LEMMA LastPositionHolds ==
  InputInv /\ state \in Running =>
    /\ Consumed \in Nat
    /\ state = "WAIT_BATCH_OUTPUT" => Consumed = PayloadWords(batch)
    /\ state # "WAIT_BATCH_OUTPUT" => Consumed < PayloadWords(batch)
BY LastPosition

(* Every word taken moves the position by one, and nothing else does.      *)
LEMMA PositionStep ==
  ASSUME InputInv, state \in Running, NEW word, NEW ready, Protocol(word, ready),
         GoodWord(word), ~Finishes(ready)
  PROVE  Consumed' = Consumed + (IF Handshake(word) THEN 1 ELSE 0)
<1> DEFINE c == batch.count
           w == CoefficientWords(batch)
           keys(k) == 4 * c + k * (c + 2)
<1>1. /\ c \in Nat \ {0} /\ batch.digits \in Nat \ {0}
      /\ bv_input.digit \in 0..(batch.digits - 1)
      /\ eval_input.ciphertext \in 0..(c - 1) /\ eval_input.phase \in 0..3
      /\ bv_input.ciphertext \in 0..(c - 1) /\ coefficient_index \in Nat
  BY CoreAssumption DEF InputInv
<1>2. /\ keys(bv_input.digit) \in Nat /\ w \in Nat \ {0}
      /\ keys(bv_input.digit + 1) = keys(bv_input.digit) + c + 2
  BY <1>1, KeyPosition, PositionLimits
<1>3. UNCHANGED batch /\ w' = w
  BY Advance
<1>4. ASSUME ~Starts(word), NEW p \in Nat, CoefficientPosition' = p,
             p = CoefficientPosition + (IF Handshake(word) THEN 1 ELSE 0)
      PROVE  Consumed' = Consumed + (IF Handshake(word) THEN 1 ELSE 0)
  <2>1. coefficient_index' = coefficient_index
    BY <1>4, Advance
  <2>2. CoefficientPosition \in Nat /\ coefficient_index * w \in Nat
    BY <1>1, <1>2, PositionLimits
  <2> DEFINE before == coefficient_index * w
  <2>3. Consumed' = before + p /\ Consumed = before + CoefficientPosition
    BY <1>3, <1>4, <2>1 DEF Consumed
  <2> HIDE DEF before
  <2> QED BY <1>4, <2>2, <2>3 DEF before
<1>5. CASE Starts(word)
  <2>1. /\ state' = "COEFFICIENT_EVAL" /\ coefficient_index' = coefficient_index + 1
        /\ state \in {"COEFFICIENT_DIGITS", "WAIT_BANK"}
    BY <1>5, Advance
  <2>2. Handshake(word) <=> state = "COEFFICIENT_DIGITS"
    BY <1>5, <2>1 DEF Starts, start_next_coefficient_event, input_coefficient_complete,
       Handshake, s_axis_tready
  <2>3. state = "COEFFICIENT_DIGITS" => final_bv_ciphertext /\ final_bv_digit
    BY <1>5 DEF Starts, start_next_coefficient_event, input_coefficient_complete
  <2>4. CoefficientPosition + (IF Handshake(word) THEN 1 ELSE 0) = w
    BY <1>2, <2>1, <2>2, <2>3, PositionLimits DEF InputDone
  <2>5. StartNextCoefficient
    <3>1. next_bank_available
      BY <1>5 DEF Starts, start_next_coefficient_event
    <3>2. CASE state = "WAIT_BANK"
      BY <2>2, <3>1, <3>2 DEF Protocol, WaitBank, FinishBatch, Hold
    <3>3. CASE state = "COEFFICIENT_DIGITS"
      <4>1. AcceptDigit(word)
        BY <2>2, <3>3 DEF Protocol, AcceptCommand, AcceptModuli, AcceptReciprocals,
           AcceptCounts, AcceptOperand, AcceptKey, Discard, WaitBank, FinishBatch, Hold
      <4>2. input_coefficient_complete(word) /\ coefficient_index # LastCoefficient
        BY <1>5, <3>3 DEF Starts, start_next_coefficient_event
      <4>3. word.last <=> final_external_payload_word
        BY <2>2, <3>3 DEF GoodWord
      <4> QED BY <3>1, <4>1, <4>2, <4>3 DEF AcceptDigit
    <3> QED BY <2>1, <3>2, <3>3
  <2>6. CoefficientPosition' = 0
    <3>1. eval_input'.ciphertext = 0 /\ eval_input'.phase = 0
      BY <2>5 DEF StartNextCoefficient, RestartInput, InputInv
    <3>2. CoefficientPosition' = 4 * eval_input'.ciphertext + eval_input'.phase
      BY <2>1 DEF CoefficientPosition
    <3> QED BY <3>1, <3>2
  <2>7. Consumed' = (coefficient_index + 1) * w
    <3>1. (coefficient_index + 1) * w \in Nat
      BY <1>1, <1>2
    <3> HIDE DEF w
    <3> QED BY <1>3, <2>1, <2>6, <3>1 DEF Consumed, w
  <2>8. (coefficient_index + 1) * w = coefficient_index * w + w
        /\ coefficient_index * w \in Nat
    <3> HIDE DEF w
    <3> QED BY <1>1, <1>2
  <2> DEFINE before == coefficient_index * w
  <2>9. Consumed = before + CoefficientPosition /\ Consumed' = before + w /\ before \in Nat
    BY <2>7, <2>8 DEF Consumed
  <2>10. CoefficientPosition \in Nat
    BY <1>2, PositionLimits
  <2> HIDE DEF before, w
  <2> QED BY <1>2, <2>4, <2>9, <2>10
<1>6. CASE Handshake(word) /\ AcceptOperand(word)
  <2>1. state = "COEFFICIENT_EVAL" /\ ~word.last
    BY <1>6 DEF AcceptOperand, GoodWord
  <2>2. /\ eval_input'.ciphertext = (IF eval_input.phase < 3 THEN eval_input.ciphertext
                                     ELSE IF final_input_ciphertext THEN 0
                                     ELSE eval_input.ciphertext + 1)
        /\ eval_input'.phase = (eval_input.phase + 1) % 4
        /\ state' = IF eval_input.phase = 3 /\ final_input_ciphertext
                      THEN "COEFFICIENT_KEY_B" ELSE state
        /\ UNCHANGED bv_input
    BY <1>6, <2>1 DEF AcceptOperand, Goto
  <2>3. ~Starts(word) /\ bv_input.digit = 0
    BY <2>1 DEF Starts, start_next_coefficient_event, input_coefficient_complete, InputInv
  <2>4. CoefficientPosition = 4 * eval_input.ciphertext + eval_input.phase
    BY <2>1 DEF CoefficientPosition
  <2>5. CoefficientPosition' = CoefficientPosition + 1 /\ CoefficientPosition + 1 \in Nat
    <3>1. CASE eval_input.phase = 3 /\ final_input_ciphertext
      <4>1. CoefficientPosition' = 4 * c + 0 * (c + 2)
        BY <1>3, <2>1, <2>2, <2>3, <3>1 DEF CoefficientPosition
      <4>2. eval_input.ciphertext + 1 = c
        BY <3>1 DEF final_input_ciphertext
      <4> QED BY <1>1, <2>4, <3>1, <4>1, <4>2
    <3>2. CASE ~(eval_input.phase = 3 /\ final_input_ciphertext)
      <4>1. CoefficientPosition' = 4 * eval_input'.ciphertext + eval_input'.phase
        BY <2>1, <2>2, <3>2 DEF CoefficientPosition
      <4> QED BY <1>1, <2>2, <2>4, <3>2, <4>1
    <3> QED BY <3>1, <3>2
  <2> QED BY <1>4, <1>6, <2>3, <2>5
<1>7. CASE Handshake(word) /\ AcceptKey(word)
  <2>1. ~word.last /\ state \in Keying
    BY <1>7 DEF AcceptKey, GoodWord, Keying
  <2>2. /\ bv_input'.digit = bv_input.digit
        /\ state = "COEFFICIENT_KEY_B" => state' = "COEFFICIENT_KEY_A"
        /\ state = "COEFFICIENT_KEY_A" =>
             state' = "COEFFICIENT_DIGITS" /\ bv_input'.ciphertext = 0
    BY <1>7, <2>1 DEF AcceptKey, Goto, InputInv
  <2>3. ~Starts(word)
    BY <2>1 DEF Starts, start_next_coefficient_event, input_coefficient_complete, Keying
  <2>4. keys(bv_input.digit)' = keys(bv_input.digit)
    BY <1>3, <2>2
  <2>5. CoefficientPosition' = CoefficientPosition + 1 /\ CoefficientPosition + 1 \in Nat
    <3>1. CASE state = "COEFFICIENT_KEY_B"
      <4>1. CoefficientPosition = keys(bv_input.digit)
            /\ CoefficientPosition' = keys(bv_input.digit)' + 1
        BY <2>2, <3>1 DEF CoefficientPosition
      <4> HIDE DEF keys
      <4> QED BY <1>2, <2>4, <4>1
    <3>2. CASE state = "COEFFICIENT_KEY_A"
      <4>1. CoefficientPosition = keys(bv_input.digit) + 1
            /\ CoefficientPosition' = keys(bv_input.digit)' + 2 + 0
        BY <2>2, <3>2 DEF CoefficientPosition
      <4> HIDE DEF keys
      <4> QED BY <1>2, <2>4, <4>1
    <3> QED BY <2>1, <3>1, <3>2 DEF Keying
  <2> QED BY <1>4, <1>7, <2>3, <2>5
<1>8. CASE Handshake(word) /\ AcceptDigit(word) /\ ~Starts(word)
  <2>1. state = "COEFFICIENT_DIGITS" /\ (word.last <=> final_external_payload_word)
    BY <1>8 DEF AcceptDigit, GoodWord
  <2>2. ~(input_coefficient_complete(word) /\ coefficient_index # LastCoefficient
          /\ next_bank_available)
    BY <1>8 DEF Starts, start_next_coefficient_event
  <2>3. /\ bv_input'.ciphertext = (IF final_bv_ciphertext THEN 0 ELSE bv_input.ciphertext + 1)
        /\ bv_input'.digit = (IF ~final_bv_ciphertext THEN bv_input.digit
                              ELSE IF final_bv_digit THEN 0 ELSE bv_input.digit + 1)
        /\ state' = IF ~final_bv_ciphertext THEN state
                    ELSE IF ~final_bv_digit THEN "COEFFICIENT_KEY_B"
                    ELSE IF coefficient_index = LastCoefficient
                      THEN "WAIT_BATCH_OUTPUT" ELSE "WAIT_BANK"
    BY <1>8, <2>1, <2>2 DEF AcceptDigit, Goto, InputInv
  <2>4. CoefficientPosition = keys(bv_input.digit) + 2 + bv_input.ciphertext
    BY <2>1 DEF CoefficientPosition
  <2>5. CoefficientPosition' = CoefficientPosition + 1 /\ CoefficientPosition + 1 \in Nat
    <3>1. CASE ~final_bv_ciphertext
      <4>1. CoefficientPosition' = keys(bv_input.digit) + 2 + bv_input'.ciphertext
        BY <1>3, <2>1, <2>3, <3>1 DEF CoefficientPosition
      <4>2. bv_input'.ciphertext = bv_input.ciphertext + 1
        BY <2>3, <3>1
      <4> HIDE DEF keys
      <4> QED BY <1>1, <1>2, <2>4, <4>1, <4>2
    <3>2. CASE final_bv_ciphertext /\ ~final_bv_digit
      <4>1. CoefficientPosition' = keys(bv_input.digit + 1)
        BY <1>3, <2>3, <3>2 DEF CoefficientPosition
      <4>2. bv_input.ciphertext + 1 = c
        BY <3>2 DEF final_bv_ciphertext
      <4> HIDE DEF keys
      <4> QED BY <1>1, <1>2, <2>4, <4>1, <4>2
    <3>3. CASE final_bv_ciphertext /\ final_bv_digit
      <4>1. CoefficientPosition' = w
        BY <1>3, <2>3, <3>3 DEF CoefficientPosition
      <4>2. CoefficientPosition + 1 = w
        BY <2>1, <3>3, PositionLimits DEF InputDone
      <4> QED BY <1>2, <4>1, <4>2
    <3> QED BY <3>1, <3>2, <3>3
  <2> QED BY <1>4, <1>8, <2>5
<1>9. CASE Hold(word, ready) /\ ~Starts(word)
  <2>1. UNCHANGED <<state, batch, eval_input, bv_input>> /\ ~Handshake(word)
    BY <1>9 DEF Hold, protocolVars
  <2>2. CoefficientPosition' = CoefficientPosition /\ CoefficientPosition \in Nat
    <3>1. CoefficientPosition' = CoefficientPosition
      BY <2>1 DEF CoefficientPosition
    <3> QED BY <1>2, <3>1, PositionLimits
  <2> QED BY <1>4, <1>9, <2>1, <2>2
<1>10. CASE WaitBank
  BY <1>5, <1>10 DEF WaitBank, Starts, start_next_coefficient_event
<1> QED BY <1>5, <1>6, <1>7, <1>8, <1>9, <1>10 DEF Protocol, AcceptCommand, AcceptModuli,
        AcceptReciprocals, AcceptCounts, Discard, FinishBatch, Finishes, Running,
        Keying, InputDone

(* Results in flight are for a bank that is filling.                       *)
LEMMA InFlightTargets ==
  ASSUME CoreInv, FlowInv, NEW bank \in Banks, ~bank_occupied[bank] \/ bank_ready[bank]
  PROVE  /\ \A i \in DOMAIN eval_meta : eval_meta[i].bank # bank
         /\ \A i \in DOMAIN bv_meta : bv_meta[i].bank # bank
         /\ ~(bv_accum.valid /\ bv_accum.bank = bank)
<1>1. PICK S : eval_meta \in Seq(S)
  BY DEF CoreInv, MetadataInv
<1>2. PICK T : bv_meta \in Seq(T)
  BY DEF CoreInv, MetadataInv
<1>3. CASE state \notin Running
  BY <1>3 DEF FlowInv, RestInv
<1>4. CASE state \in Running
  <2>1. InputInv /\ EvalInv /\ BvInv /\ DrainInv
    BY <1>4 DEF FlowInv
  <2>2. /\ batch.count \in Nat \ {0} /\ batch.digits \in Nat \ {0}
        /\ bv_input.ciphertext \in 0..(batch.count - 1)
        /\ bv_input.digit \in 0..(batch.digits - 1)
        /\ eval_input.ciphertext \in 0..(batch.count - 1)
        /\ compute_bank \in Banks
    BY <1>4, <2>1, CoreAssumption DEF InputInv, Banks
  <2>3. /\ FinalRow \in Nat /\ AllRows \in Nat /\ AllRows = FinalRow + batch.count
        /\ Row(bv_input.digit) \in Nat /\ Row(bv_input.digit) <= FinalRow
    BY <2>2, RowLimits
  <2>4. EvalLaunched \in Nat /\ EvalLaunched <= batch.count
        /\ BvLaunched \in Nat /\ BvLaunched <= AllRows
    BY <2>2, <2>3 DEF EvalLaunched, BvLaunched
  <2>5. Len(eval_meta) \in Nat /\ Len(bv_meta) \in Nat
        /\ DOMAIN eval_meta = 1..Len(eval_meta) /\ DOMAIN bv_meta = 1..Len(bv_meta)
    BY <1>1, <1>2
  <2>6. /\ EvalLanded = EvalLaunched - Len(eval_meta)
        /\ BvLanded = BvLaunched - Len(bv_meta) - (IF bv_accum.valid THEN 1 ELSE 0)
    BY DEF EvalLanded, BvLanded
  <2>7. PriorBank # compute_bank /\ (bank = compute_bank \/ bank = PriorBank)
    BY <2>2, OtherBank
  <2>8. bank = compute_bank =>
          Len(eval_meta) = 0 /\ Len(bv_meta) = 0 /\ ~bv_accum.valid
    <3>1. bank = compute_bank => EvalLanded = batch.count /\ BvLanded = AllRows
      BY <2>1 DEF DrainInv
    <3>2. EvalLanded = batch.count => Len(eval_meta) = 0
      BY <2>2, <2>4, <2>5, <2>6
    <3>3. BvLanded = AllRows => Len(bv_meta) = 0 /\ ~bv_accum.valid
      BY <2>3, <2>4, <2>5, <2>6
    <3> QED BY <3>1, <3>2, <3>3
  <2>9. bank = PriorBank => EvalLanded >= 0 /\ BvLanded >= 0
    <3>1. bank = PriorBank => ~bank_occupied[PriorBank] \/ bank_ready[PriorBank]
      OBVIOUS
    <3>2. EvalLanded \in Int /\ BvLanded \in Int
      BY <2>4, <2>5, <2>6
    <3> QED BY <2>1, <3>1, <3>2 DEF EvalInv, BvInv, DrainInv
  <2>10. CASE bank = compute_bank
    BY <2>5, <2>8, <2>10
  <2>11. CASE bank = PriorBank
    <3>1. ASSUME NEW i \in DOMAIN eval_meta PROVE eval_meta[i].bank # bank
      <4>1. i \in 1..Len(eval_meta) /\ ~(EvalLanded + i - 1 < 0)
        BY <2>4, <2>5, <2>6, <2>9, <2>11
      <4>2. EvalEntryAt(eval_meta[i], EvalLanded + i - 1)
        BY <2>1, <4>1 DEF EvalInv
      <4> QED BY <2>7, <2>11, <4>1, <4>2 DEF EvalEntryAt
    <3>2. ASSUME NEW i \in DOMAIN bv_meta PROVE bv_meta[i].bank # bank
      <4>1. i \in 1..Len(bv_meta) /\ ~(BvLaunched - Len(bv_meta) + i - 1 < 0)
        BY <2>4, <2>5, <2>6, <2>9, <2>11
      <4>2. BvEntryAt(bv_meta[i], BvLaunched - Len(bv_meta) + i - 1)
        BY <2>1, <4>1 DEF BvInv
      <4> QED BY <2>7, <2>11, <4>1, <4>2 DEF BvEntryAt
    <3>3. bv_accum.valid => bv_accum.bank # bank
      <4>1. bv_accum.valid => BvEntryAt(bv_accum, BvLanded)
        BY <2>1 DEF BvInv
      <4>2. ~(BvLanded < 0)
        BY <2>4, <2>5, <2>6, <2>9, <2>11
      <4> QED BY <2>7, <2>11, <4>1, <4>2 DEF BvEntryAt
    <3> QED BY <3>1, <3>2, <3>3
  <2> QED BY <2>7, <2>10, <2>11
<1> QED BY <1>3, <1>4

-----------------------------------------------------------------------------
(* Ranges of the registers.                                                *)
RangeInv ==
  /\ DOMAIN profile = {"q", "mu", "ready"}
  /\ profile.q \in Profiles \union {NoProfile} /\ profile.mu \in Profiles \union {NoProfile}
  /\ coefficient_index \in 0..LastCoefficient /\ compute_bank \in Banks
  /\ eval_input.ciphertext \in Ciphertexts /\ eval_input.phase \in 0..3
  /\ bv_input.ciphertext \in Ciphertexts /\ bv_input.digit \in 0..(MaxDigits - 1)
  /\ output.ciphertext \in Ciphertexts /\ output.coefficient_index \in 0..LastCoefficient
  /\ Len(eval_meta) <= EvalMetaDepth /\ Len(bv_meta) <= BvMetaDepth
  /\ batch.count \in 0..MaxBatch
  /\ \A bank \in Banks : /\ eval_result_count[bank] \in 0..batch.count
                         /\ bv_final_result_count[bank] \in 0..batch.count

(* The numbers the flow of a batch is told in.                             *)
LEMMA FlowNumbers ==
  ASSUME CoreInv, FlowInv, state \in Running
  PROVE  /\ batch.count \in Nat \ {0} /\ batch.digits \in Nat \ {0} /\ compute_bank \in Banks
         /\ Len(eval_meta) \in Nat /\ Len(bv_meta) \in Nat
         /\ FinalRow \in Nat /\ AllRows \in Nat /\ AllRows = FinalRow + batch.count
         /\ EvalLaunched \in 0..batch.count /\ BvLaunched \in 0..AllRows
         /\ EvalLanded = EvalLaunched - Len(eval_meta)
         /\ BvLanded = BvLaunched - Len(bv_meta) - (IF bv_accum.valid THEN 1 ELSE 0)
         /\ EvalLanded \in Int /\ BvLanded \in Int
<1>1. /\ batch.count \in Nat \ {0} /\ batch.digits \in Nat \ {0}
      /\ bv_input.ciphertext \in 0..(batch.count - 1)
      /\ bv_input.digit \in 0..(batch.digits - 1)
      /\ eval_input.ciphertext \in 0..(batch.count - 1)
      /\ compute_bank \in Banks
  BY CoreAssumption DEF FlowInv, InputInv, Banks
<1>2. /\ FinalRow \in Nat /\ AllRows \in Nat /\ AllRows = FinalRow + batch.count
      /\ Row(bv_input.digit) \in Nat /\ Row(bv_input.digit) <= FinalRow
  BY <1>1, RowLimits
<1>3. EvalLaunched \in 0..batch.count /\ BvLaunched \in 0..AllRows
  BY <1>1, <1>2 DEF EvalLaunched, BvLaunched
<1>4. Len(eval_meta) \in Nat /\ Len(bv_meta) \in Nat
  BY DEF CoreInv, MetadataInv
<1>5. /\ EvalLanded = EvalLaunched - Len(eval_meta)
      /\ BvLanded = BvLaunched - Len(bv_meta) - (IF bv_accum.valid THEN 1 ELSE 0)
  BY DEF EvalLanded, BvLanded
<1> QED BY <1>1, <1>2, <1>3, <1>4, <1>5

(* A result that lands is one its bank's counter still has room for.       *)
LEMMA RoomForResult ==
  ASSUME CoreInv, FlowInv, NEW bank \in Banks
  PROVE  /\ eval_meta_pop /\ Head(eval_meta).bank = bank =>
              /\ state \in Running /\ eval_result_count[bank] \in Nat
              /\ eval_result_count[bank] < batch.count
         /\ bv_accum.valid /\ bv_accum.bank = bank /\ bv_accum.digit + 1 = batch.digits =>
              /\ state \in Running /\ bv_final_result_count[bank] \in Nat
              /\ bv_final_result_count[bank] < batch.count
<1>1. eval_meta_pop => Len(eval_meta) > 0
  BY EntryForResult DEF eval_meta_pop, CoreInv, MetadataInv, MetadataInStep
<1>2. CASE state \notin Running
  BY <1>1, <1>2 DEF FlowInv, RestInv
<1>3. CASE state \in Running
  <2>1. EvalInv /\ BvInv
    BY <1>3 DEF FlowInv
  <2>2. /\ batch.count \in Nat \ {0} /\ batch.digits \in Nat \ {0} /\ compute_bank \in Banks
        /\ Len(eval_meta) \in Nat /\ Len(bv_meta) \in Nat
        /\ FinalRow \in Nat /\ AllRows \in Nat /\ AllRows = FinalRow + batch.count
        /\ EvalLaunched \in 0..batch.count /\ BvLaunched \in 0..AllRows
        /\ EvalLanded = EvalLaunched - Len(eval_meta)
        /\ BvLanded = BvLaunched - Len(bv_meta) - (IF bv_accum.valid THEN 1 ELSE 0)
        /\ EvalLanded \in Int /\ BvLanded \in Int
    BY <1>3, FlowNumbers
  <2>3. PriorBank # compute_bank
    BY <2>2, OtherBank
  <2>4. ASSUME eval_meta_pop, Head(eval_meta).bank = bank
        PROVE  eval_result_count[bank] \in Nat /\ eval_result_count[bank] < batch.count
    <3>1. Len(eval_meta) > 0 /\ Head(eval_meta) = eval_meta[1] /\ EvalLanded < batch.count
      BY <1>1, <2>2, <2>4 DEF CoreInv, MetadataInv
    <3>2. EvalEntryAt(Head(eval_meta), EvalLanded)
      <4>1. EvalLanded + 1 - 1 = EvalLanded
        BY <2>2
      <4> QED BY <2>1, <2>2, <3>1, <4>1 DEF EvalInv
    <3>3. CASE EvalLanded < 0
      <4>1. /\ bank = PriorBank /\ bank_occupied[PriorBank]
            /\ eval_result_count[bank] = EvalLanded + batch.count
        BY <2>1, <2>4, <3>2, <3>3 DEF EvalEntryAt, EvalInv
      <4>2. EvalLanded + batch.count \in Nat
        BY <2>1, <2>2 DEF EvalInv
      <4> QED BY <2>2, <3>3, <4>1, <4>2
    <3>4. CASE ~(EvalLanded < 0)
      <4>1. bank = compute_bank /\ eval_result_count[bank] = Beyond(EvalLanded, 0)
        BY <2>1, <2>4, <3>2, <3>4 DEF EvalEntryAt, EvalInv
      <4> QED BY <2>2, <3>1, <3>4, <4>1 DEF Beyond
    <3> QED BY <3>3, <3>4
  <2>5. ASSUME bv_accum.valid, bv_accum.bank = bank, bv_accum.digit + 1 = batch.digits
        PROVE  /\ bv_final_result_count[bank] \in Nat
               /\ bv_final_result_count[bank] < batch.count
    <3>1. BvEntryAt(bv_accum, BvLanded) /\ BvLanded < AllRows
      BY <2>1, <2>2, <2>5 DEF BvInv
    <3>2. /\ BvLanded >= 0 => bv_accum.bank = compute_bank /\ BvLanded >= FinalRow
          /\ BvLanded < 0 => bv_accum.bank = PriorBank /\ BvLanded + batch.count >= 0
      BY <2>2, <2>5, <3>1, LastDigit
    <3>3. CASE BvLanded < 0
      <4>1. /\ bank = PriorBank /\ bank_occupied[PriorBank]
            /\ bv_final_result_count[bank] = Beyond(BvLanded + batch.count, 0)
        BY <2>1, <2>5, <3>2, <3>3 DEF BvInv
      <4> QED BY <2>2, <3>2, <3>3, <4>1 DEF Beyond
    <3>4. CASE BvLanded >= 0
      <4>1. bank = compute_bank /\ bv_final_result_count[bank] = Beyond(BvLanded, FinalRow)
        BY <2>1, <2>5, <3>2, <3>4 DEF BvInv
      <4>2. BvLanded >= FinalRow /\ BvLanded < FinalRow + batch.count
        BY <2>2, <3>1, <3>2, <3>4
      <4>3. FinalRow \in Int /\ BvLanded \in Int /\ batch.count \in Int
        BY <2>2
      <4>4. Beyond(BvLanded, FinalRow) \in Nat /\ Beyond(BvLanded, FinalRow) < batch.count
        BY <2>2, <4>2, <4>3 DEF Beyond
      <4> QED BY <4>1, <4>4
    <3> QED BY <2>2, <3>3, <3>4
  <2> QED BY <1>3, <2>4, <2>5
<1> QED BY <1>2, <1>3

(* Every register stays within its range.                                  *)
LEMMA RangeStep ==
  ASSUME CoreInv, FlowInv, RangeInv, NEW word, NEW ready, GoodWord(word),
         Clock(word, ready)
  PROVE  RangeInv'
<1>1. /\ Protocol(word, ready) /\ OutputScheduler(word, ready)
      /\ EvalPath(word) /\ BvPath(word) /\ InputInv /\ MetadataInv /\ BankInv
  BY DEF Clock, FlowInv, CoreInv
<1>2. InputInv' /\ FlowInv'
  BY FlowStep DEF FlowInv
<1> USE CoreAssumption
<1>3. /\ DOMAIN profile' = {"q", "mu", "ready"}
      /\ profile'.q \in Profiles \union {NoProfile}
      /\ profile'.mu \in Profiles \union {NoProfile}
  BY <1>1 DEF Protocol, AcceptCommand, AcceptModuli, AcceptReciprocals, AcceptCounts,
     AcceptOperand, AcceptKey, AcceptDigit, Discard, WaitBank, FinishBatch, Hold,
     protocolVars, Reject, Truncate, StartNextCoefficient, RangeInv
<1>4. /\ coefficient_index' \in 0..LastCoefficient /\ compute_bank' \in Banks
      /\ eval_input'.ciphertext \in Ciphertexts /\ eval_input'.phase \in 0..3
      /\ bv_input'.ciphertext \in Ciphertexts /\ bv_input'.digit \in 0..(MaxDigits - 1)
      /\ batch'.count \in 0..MaxBatch
  <2>1. CASE state' \in Running
    BY <1>2, <2>1 DEF InputInv, Ciphertexts, Banks
  <2>2. CASE state' \notin Running
    <3>1. UNCHANGED <<coefficient_index, compute_bank, eval_input, bv_input, batch>>
      <4>1. CASE state \in Running
        <5>1. Finishes(ready)
          BY <1>1, <2>2, <4>1, Advance DEF Running
        <5> QED BY <1>1, <5>1 DEF Finishes, Protocol, Handshake, s_axis_tready, WaitBank,
                FinishBatch, Hold, protocolVars
      <4>2. CASE state \notin Running
        <5>1. state \in Idling /\ ~(Handshake(word) /\ state = "BATCH_HEADER")
          <6>1. Handshake(word) /\ state = "BATCH_HEADER" => state' = "COEFFICIENT_EVAL"
            BY <1>1 DEF Protocol, AcceptCommand, AcceptModuli, AcceptReciprocals,
               AcceptCounts, AcceptOperand, AcceptKey, AcceptDigit, Discard, WaitBank,
               FinishBatch, Hold, GoodWord, Goto
          <6> QED BY <1>1, <2>2, <4>2, <6>1 DEF InputInv, Running
        <5> QED BY <1>1, <5>1 DEF Idling, Protocol, AcceptCommand, AcceptModuli,
                AcceptReciprocals, AcceptCounts, AcceptOperand, AcceptKey, AcceptDigit,
                Discard, WaitBank, FinishBatch, Hold, protocolVars, Reject
      <4> QED BY <4>1, <4>2
    <3> QED BY <3>1 DEF RangeInv
  <2> QED BY <2>1, <2>2
<1>5. /\ output'.ciphertext \in Ciphertexts
      /\ output'.coefficient_index \in 0..LastCoefficient
  <2>1. output.active => output.ciphertext < batch.count
    BY DEF FlowInv, DrainInv, RestInv
  <2>2. /\ output.ciphertext \in Nat /\ output.ciphertext \in Ciphertexts
        /\ output.coefficient_index \in 0..LastCoefficient /\ batch.count \in 0..MaxBatch
        /\ DOMAIN output = {"active", "bank", "coefficient_index", "ciphertext",
                            "component"}
    BY <1>1 DEF BankInv, RangeInv
  <2>3. LastCoefficient \in Nat /\ MaxBatch \in Nat \ {0}
    BY DEF LastCoefficient
  <2>4. 0 \in Ciphertexts /\ 0 \in 0..LastCoefficient
    BY <2>3 DEF Ciphertexts
  <2>5. CASE accepted_batch_header(word)
    BY <1>1, <2>4, <2>5 DEF OutputScheduler, IdleOutput
  <2>6. CASE ~accepted_batch_header(word) /\ ~(output.active /\ ready /\ output.component = 1)
    <3>1. /\ output'.ciphertext \in {0, output.ciphertext}
          /\ output'.coefficient_index = output.coefficient_index
      BY <1>1, <2>2, <2>6 DEF OutputScheduler, outputVars
    <3> QED BY <2>2, <2>4, <3>1
  <2>7. CASE ~accepted_batch_header(word) /\ output.active /\ ready /\ output.component = 1
    <3>1. /\ output'.ciphertext = IF output.ciphertext + 1 = batch.count THEN 0
                                  ELSE output.ciphertext + 1
          /\ output'.coefficient_index \in
               {output.coefficient_index}
                 \union (IF output.coefficient_index # LastCoefficient
                           THEN {output.coefficient_index + 1} ELSE {})
      <4> DEFINE final == output.ciphertext + 1 = batch.count
      <4>1. output' = [output EXCEPT
                         !.component = 0, !.active = ~final,
                         !.ciphertext = IF final THEN 0 ELSE @ + 1,
                         !.coefficient_index =
                           IF final /\ @ # LastCoefficient THEN @ + 1 ELSE @]
        BY <1>1, <2>7 DEF OutputScheduler
      <4>2. /\ output'.ciphertext = IF final THEN 0 ELSE output.ciphertext + 1
            /\ output'.coefficient_index =
                 IF final /\ output.coefficient_index # LastCoefficient
                   THEN output.coefficient_index + 1 ELSE output.coefficient_index
        BY <2>2, <4>1
      <4> QED BY <4>2
    <3>2. output'.ciphertext \in Ciphertexts
      BY <2>1, <2>2, <2>3, <2>7, <3>1 DEF Ciphertexts
    <3> QED BY <2>2, <2>3, <3>1, <3>2
  <2> QED BY <2>5, <2>6, <2>7
<1>6. Len(eval_meta') <= EvalMetaDepth
  <2>1. Len(eval_meta') = Len(eval_meta) - (IF eval_meta_pop THEN 1 ELSE 0)
                            + (IF eval_launch(word) THEN 1 ELSE 0)
    BY <1>1, EvalQueueLength
  <2>2. eval_launch(word) => Len(eval_meta) < EvalMetaDepth
    BY DEF eval_launch, Handshake, s_axis_tready
  <2>3. Len(eval_meta) \in Nat /\ Len(eval_meta) <= EvalMetaDepth
    BY <1>1 DEF RangeInv, MetadataInv
  <2> QED BY <2>1, <2>2, <2>3
<1>7. Len(bv_meta') <= BvMetaDepth
  <2>1. Len(bv_meta') = Len(bv_meta) - (IF bv_meta_pop THEN 1 ELSE 0)
                          + (IF bv_launch(word) THEN 1 ELSE 0)
    BY <1>1, BvQueueLength
  <2>2. bv_launch(word) => Len(bv_meta) < BvMetaDepth
    BY DEF bv_launch, Handshake, s_axis_tready
  <2>3. Len(bv_meta) \in Nat /\ Len(bv_meta) <= BvMetaDepth
    BY <1>1 DEF RangeInv, MetadataInv
  <2> QED BY <2>1, <2>2, <2>3
<1>8. ASSUME NEW bank \in Banks
      PROVE  /\ eval_result_count'[bank] \in 0..batch'.count
             /\ bv_final_result_count'[bank] \in 0..batch'.count
  <2>1. CASE accepted_batch_header(word)
    <3>1. eval_result_count'[bank] = 0 /\ bv_final_result_count'[bank] = 0
      BY <1>1, <2>1 DEF EvalPath, BvPath, Counted
    <3> QED BY <1>4, <3>1
  <2>2. CASE ~accepted_batch_header(word)
    <3> DEFINE evalHit == eval_meta_pop /\ Head(eval_meta).bank = bank
               bvHit   == /\ bv_accum.valid /\ bv_accum.bank = bank
                          /\ bv_accum.digit + 1 = batch.digits
    <3>1. /\ eval_result_count'[bank] =
               IF evalHit THEN eval_result_count[bank] + 1
               ELSE IF start_next_coefficient_event(word) /\ bank = Other(compute_bank)
                 THEN 0 ELSE eval_result_count[bank]
          /\ bv_final_result_count'[bank] =
               IF bvHit THEN bv_final_result_count[bank] + 1
               ELSE IF start_next_coefficient_event(word) /\ bank = Other(compute_bank)
                 THEN 0 ELSE bv_final_result_count[bank]
      BY <1>1, <2>2 DEF EvalPath, BvPath, Counted
    <3>2. batch' = batch
      <4>1. Handshake(word) => ~AcceptCounts(word)
        BY <2>2 DEF accepted_batch_header, AcceptCounts, GoodWord
      <4> QED BY <1>1, <4>1 DEF Protocol, AcceptCommand, AcceptModuli, AcceptReciprocals,
          AcceptOperand, AcceptKey, AcceptDigit, Discard, WaitBank, FinishBatch, Hold,
          protocolVars, Reject, Truncate, StartNextCoefficient
    <3>3. /\ evalHit => /\ eval_result_count[bank] \in Nat
                        /\ eval_result_count[bank] < batch.count
          /\ bvHit => /\ bv_final_result_count[bank] \in Nat
                      /\ bv_final_result_count[bank] < batch.count
      BY RoomForResult
    <3>4. /\ eval_result_count[bank] \in 0..batch.count /\ batch.count \in Nat
          /\ bv_final_result_count[bank] \in 0..batch.count
      BY DEF RangeInv
    <3> HIDE DEF evalHit, bvHit
    <3> QED BY <3>1, <3>2, <3>3, <3>4
  <2> QED BY <2>1, <2>2
<1> QED BY <1>3, <1>4, <1>5, <1>6, <1>7, <1>8 DEF RangeInv

(* Registers in range at reset, whatever the memories hold.                *)
LEMMA RangeStarts == (CoreInit => RangeInv) /\ (CoreReset => RangeInv')
<1>1. /\ LastCoefficient \in Nat /\ MaxBatch \in Nat \ {0} /\ MaxDigits \in Nat \ {0}
      /\ EvalMetaDepth \in Nat /\ BvMetaDepth \in Nat /\ 0 \in Banks
  BY CoreAssumption DEF LastCoefficient, Banks
<1>2. CoreInit => RangeInv
  BY <1>1 DEF CoreInit, RangeInv, ResetProfile, ResetBatch, ResetEvalInput, ResetBvInput,
     IdleOutput, ZeroCount, Ciphertexts
<1>3. CoreReset => RangeInv'
  BY <1>1 DEF CoreReset, RangeInv, ResetProfile, ResetBatch, ResetEvalInput, ResetBvInput,
     IdleOutput, ZeroCount, Ciphertexts
<1> QED BY <1>2, <1>3

-----------------------------------------------------------------------------
(* The data of a batch frame id on its way through the core: what each     *)
(* operand register, product, sum and memory word is worth while the batch *)
(* is under way.                                                           *)
Times(id, i, j) == Product(Payload(id, i), Payload(id, j), LoadedProfile)

EvalProduct(id, coefficient, ciphertext) ==
  LET operand(phase) == OperandIndex(batch, coefficient, ciphertext, phase)
  IN [valid |-> TRUE,
      a0b0 |-> Times(id, operand(0), operand(2)),
      a0b1 |-> Times(id, operand(0), operand(3)),
      a1b0 |-> Times(id, operand(1), operand(2))]
BvTerm(id, coefficient, digit, ciphertext, component) ==
  Times(id, DigitIndex(batch, coefficient, digit, ciphertext),
            KeyIndex(batch, coefficient, digit, component))
BvProduct(id, coefficient, digit, ciphertext) ==
  [valid |-> TRUE,
   b |-> BvTerm(id, coefficient, digit, ciphertext, 0),
   a |-> BvTerm(id, coefficient, digit, ciphertext, 1)]

(* The first digits of the key switch of a ciphertext.                     *)
KeySum(id, coefficient, ciphertext, digits, component) ==
  [i \in 1..digits |-> BvTerm(id, coefficient, i - 1, ciphertext, component)]

CoefficientOf(bank) ==
  IF bank = compute_bank THEN coefficient_index ELSE coefficient_index - 1

(* The products in a pipeline, the oldest last, are those in due.          *)
Rank(pipe, stage) == Cardinality({s \in stage..Latency : pipe[s].valid})
InOrder(pipe, due) ==
  \A stage \in 1..Latency : pipe[stage].valid => pipe[stage] = due[Rank(pipe, stage)]

EvalDue(id) ==
  [i \in 1..Len(eval_meta) |->
     EvalProduct(id, CoefficientOf(eval_meta[i].bank), eval_meta[i].ciphertext)]
BvDue(id) ==
  [i \in 1..Len(bv_meta) |->
     BvProduct(id, CoefficientOf(bv_meta[i].bank), bv_meta[i].digit, bv_meta[i].ciphertext)]

OperandInv(id) ==
  LET operand(phase) ==
        Payload(id, OperandIndex(batch, coefficient_index, eval_input.ciphertext, phase))
      key(component) ==
        Payload(id, KeyIndex(batch, coefficient_index, bv_input.digit, component))
  IN
  /\ state = "COEFFICIENT_EVAL" =>
       /\ eval_input.phase > 0 => eval_input.a0 = operand(0)
       /\ eval_input.phase > 1 => eval_input.a1 = operand(1)
       /\ eval_input.phase > 2 => eval_input.b0 = operand(2)
  /\ state \in {"COEFFICIENT_KEY_A", "COEFFICIENT_DIGITS"} => bv_input.key_b = key(0)
  /\ state = "COEFFICIENT_DIGITS" => bv_input.key_a = key(1)

(* Digits of a ciphertext alone in its batch are launched two clocks apart *)
(* or more, the key words between them.                                    *)
GapInv ==
  /\ \A stage \in 1..Latency : bv_pipe[stage].valid \in BOOLEAN
  /\ state \in Running /\ batch.count = 1 =>
       /\ state = "COEFFICIENT_DIGITS" => ~bv_pipe[1].valid
       /\ \A stage \in 1..(Latency - 1) : ~(bv_pipe[stage].valid /\ bv_pipe[stage + 1].valid)
       /\ ~(bv_pipe[Latency].valid /\ bv_accum.valid)

AccumInv(id) ==
  bv_accum.valid =>
    LET coefficient == CoefficientOf(bv_accum.bank)
        product == BvProduct(id, coefficient, bv_accum.digit, bv_accum.ciphertext)
        sum(component) ==
          KeySum(id, coefficient, bv_accum.ciphertext, bv_accum.digit, component)
    IN /\ bv_accum.result_b = product.b /\ bv_accum.result_a = product.a
       /\ bv_accum.digit > 0 => bv_accum.prior_b = sum(0) /\ bv_accum.prior_a = sum(1)

(* Products of a bank's coefficient added to its sums.                     *)
BankLanded(bank) == IF bank = compute_bank THEN BvLanded ELSE BvLanded + AllRows

EvalMemoryInv(id) ==
  \A bank \in Banks : bank_occupied[bank] =>
    \A ciphertext \in 0..(eval_result_count[bank] - 1) :
      LET product == EvalProduct(id, CoefficientOf(bank), ciphertext) IN
      /\ c0_memory[bank][ciphertext] = <<product.a0b0>>
      /\ c1_memory[bank][ciphertext] = <<product.a0b1, product.a1b0>>
BvMemoryInv(id) ==
  \A bank \in Banks : bank_occupied[bank] =>
    \A ciphertext \in 0..(batch.count - 1), digit \in 0..(batch.digits - 1) :
      /\ Row(digit) + ciphertext < BankLanded(bank)
      /\ digit + 1 = batch.digits \/ BankLanded(bank) <= Row(digit + 1) + ciphertext
      => /\ ks_b_memory[bank][ciphertext] =
              KeySum(id, CoefficientOf(bank), ciphertext, digit + 1, 0)
         /\ ks_a_memory[bank][ciphertext] =
              KeySum(id, CoefficientOf(bank), ciphertext, digit + 1, 1)

MemoryShape ==
  \A memory \in {c0_memory, c1_memory, ks_b_memory, ks_a_memory} :
    DOMAIN memory = Banks /\ \A bank \in Banks : DOMAIN memory[bank] = Ciphertexts

DataInv(id) ==
  /\ MemoryShape
  /\ GapInv
  /\ state \in Running /\ profile.q = profile.mu =>
       /\ OperandInv(id)
       /\ InOrder(eval_pipe, EvalDue(id)) /\ InOrder(bv_pipe, BvDue(id))
       /\ EvalMemoryInv(id)
       /\ AccumInv(id) /\ BvMemoryInv(id)

-----------------------------------------------------------------------------
(* Products in a pipeline keep the order they were launched in.            *)

(* The products at or ahead of a stage, one clock edge later.              *)
LEMMA RankShift ==
  ASSUME NEW pipe, NEW product, NEW stage \in 1..(Latency - 1)
  PROVE  /\ Rank(pipe, stage) \in Nat
         /\ Rank(Shift(pipe, product), stage + 1) =
              Rank(pipe, stage) - (IF pipe[Latency].valid THEN 1 ELSE 0)
<1> DEFINE here  == {s \in stage..Latency : pipe[s].valid}
           stay  == here \ {Latency}
           next  == {s \in (stage + 1)..Latency : Shift(pipe, product)[s].valid}
           f     == [s \in stay |-> s + 1]
<1>1. Latency \in Nat /\ Latency > 0 /\ stage \in Nat /\ stage > 0 /\ stage < Latency
  BY CoreAssumption
<1>2. IsFiniteSet(here) /\ Cardinality(here) \in Nat
  <2>1. IsFiniteSet(stage..Latency)
    BY <1>1, FS_Interval
  <2>2. here \subseteq stage..Latency
    OBVIOUS
  <2> QED BY <2>1, <2>2, FS_Subset, FS_CardinalityType
<1>3. /\ IsFiniteSet(stay)
      /\ Cardinality(stay) = Cardinality(here) - (IF pipe[Latency].valid THEN 1 ELSE 0)
  <2>1. Latency \in here <=> pipe[Latency].valid
    BY <1>1
  <2>2. IsFiniteSet(stay)
        /\ Cardinality(stay) =
             IF Latency \in here THEN Cardinality(here) - 1 ELSE Cardinality(here)
    BY <1>2, FS_RemoveElement
  <2> QED BY <1>2, <2>1, <2>2
<1>4. \A s \in (stage + 1)..Latency :
        Shift(pipe, product)[s].valid <=> pipe[s - 1].valid
  BY <1>1 DEF Shift
<1>5. f \in Bijection(stay, next)
  <2>1. ASSUME NEW s \in stay PROVE s + 1 \in next /\ s \in Int
    <3>1. s \in stage..(Latency - 1) /\ pipe[s].valid
      BY <1>1
    <3>2. s + 1 \in (stage + 1)..Latency /\ (s + 1) - 1 = s
      BY <1>1, <3>1
    <3> QED BY <1>4, <3>1, <3>2
  <2>2. ASSUME NEW s \in next PROVE s - 1 \in stay /\ (s - 1) + 1 = s
    <3>1. s \in (stage + 1)..Latency /\ pipe[s - 1].valid
      BY <1>4
    <3>2. s - 1 \in stage..Latency /\ s - 1 # Latency /\ (s - 1) + 1 = s
      BY <1>1, <3>1
    <3> QED BY <3>1, <3>2
  <2> HIDE DEF stay, next
  <2>3. f \in [stay -> next]
    BY <2>1
  <2>4. \A x, y \in stay : f[x] = f[y] => x = y
    BY <2>1
  <2>5. \A m \in next : \E x \in stay : f[x] = m
    BY <2>2
  <2> HIDE DEF f
  <2>6. f \in Injection(stay, next)
    BY <2>3, <2>4, Fun_IsInj
  <2>7. f \in Surjection(stay, next)
    BY <2>3, <2>5, Fun_IsSurj
  <2> QED BY <2>6, <2>7 DEF Bijection
<1>6. Cardinality(next) = Cardinality(stay)
  <2>1. ExistsBijection(stay, next)
    BY <1>5 DEF ExistsBijection
  <2> HIDE DEF stay, next
  <2> QED BY <1>3, <2>1, FS_Bijection
<1>7. Rank(pipe, stage) = Cardinality(here)
      /\ Rank(Shift(pipe, product), stage + 1) = Cardinality(next)
  BY DEF Rank
<1> HIDE DEF here, stay, next
<1> QED BY <1>2, <1>3, <1>6, <1>7

(* A valid product has a rank, at most the number in flight.               *)
LEMMA RankLimits ==
  ASSUME NEW pipe, NEW stage \in 1..Latency, pipe[stage].valid
  PROVE  /\ Rank(pipe, stage) \in 1..Cardinality(InFlight(pipe))
         /\ Rank(pipe, 1) = Cardinality(InFlight(pipe))
         /\ stage # Latency /\ pipe[Latency].valid => Rank(pipe, stage) >= 2
         /\ Rank(pipe, Latency) = 1 <=> pipe[Latency].valid
<1> DEFINE here == {s \in stage..Latency : pipe[s].valid}
<1>1. Latency \in Nat /\ stage \in Nat /\ stage > 0 /\ stage <= Latency
  BY CoreAssumption
<1>2. IsFiniteSet(InFlight(pipe)) /\ Cardinality(InFlight(pipe)) \in Nat
  BY StagesFinite
<1>3. here \subseteq InFlight(pipe) /\ stage \in here
  BY <1>1 DEF InFlight
<1>4. IsFiniteSet(here) /\ Cardinality(here) \in Nat
      /\ Cardinality(here) <= Cardinality(InFlight(pipe))
  BY <1>2, <1>3, FS_Subset, FS_CardinalityType
<1>5. Cardinality(here) # 0
  BY <1>3, <1>4, FS_EmptySet
<1>6. ASSUME stage # Latency, pipe[Latency].valid PROVE Cardinality(here) >= 2
  <2>1. Latency \in here
    BY <1>1, <1>6
  <2>2. /\ IsFiniteSet(here \ {Latency})
        /\ Cardinality(here \ {Latency}) = Cardinality(here) - 1
    BY <1>4, <2>1, FS_RemoveElement
  <2>3. stage \in here \ {Latency}
    BY <1>3, <1>6
  <2>4. Cardinality(here \ {Latency}) # 0 /\ Cardinality(here \ {Latency}) \in Nat
    <3>1. here \ {Latency} # {}
      BY <2>3
    <3> HIDE DEF here
    <3> QED BY <2>2, <3>1, FS_EmptySet, FS_CardinalityType
  <2> HIDE DEF here
  <2> QED BY <1>4, <2>2, <2>4
<1>7. Rank(pipe, Latency) = 1 <=> pipe[Latency].valid
  <2> DEFINE last == {s \in Latency..Latency : pipe[s].valid}
  <2>1. last = IF pipe[Latency].valid THEN {Latency} ELSE {}
    BY <1>1
  <2>2. Cardinality({Latency}) = 1 /\ Cardinality({}) = 0
    BY FS_Singleton, FS_EmptySet
  <2>3. Rank(pipe, Latency) = Cardinality(last)
    BY DEF Rank
  <2> HIDE DEF last
  <2> QED BY <2>1, <2>2, <2>3
<1>8. Rank(pipe, 1) = Cardinality(InFlight(pipe)) /\ Rank(pipe, stage) = Cardinality(here)
  BY DEF Rank, InFlight
<1> HIDE DEF here
<1> QED BY <1>2, <1>4, <1>5, <1>6, <1>7, <1>8

(* Products in order stay so: the head's leaves, the last due one enters.  *)
LEMMA OrderKept ==
  ASSUME NEW pipe, NEW product, NEW due, NEW next, NEW popped \in 0..1,
         popped = 1 <=> pipe[Latency].valid, InOrder(pipe, due),
         \A i \in 1..(Cardinality(InFlight(pipe)) - popped) : next[i] = due[i + popped],
         product.valid => next[Cardinality(InFlight(pipe)) - popped + 1] = product
  PROVE  InOrder(Shift(pipe, product), next)
<1> DEFINE shifted == Shift(pipe, product)
           size    == Cardinality(InFlight(pipe))
<1>1. Latency \in Nat /\ Latency > 0 /\ size \in Nat
  BY StagesFinite, CoreAssumption
<1>2. popped = IF pipe[Latency].valid THEN 1 ELSE 0
  OBVIOUS
<1>5. SUFFICES ASSUME NEW stage \in 1..Latency, shifted[stage].valid
               PROVE  shifted[stage] = next[Rank(shifted, stage)]
  BY DEF InOrder
<1>6. Cardinality(InFlight(shifted)) = size - popped + (IF product.valid THEN 1 ELSE 0)
  BY <1>2, ShiftInFlight
<1>7. CASE stage = 1
  <2>1. shifted[stage] = product
    BY <1>1, <1>7 DEF Shift
  <2>2. Rank(shifted, stage) = Cardinality(InFlight(shifted))
    BY <1>5, <1>7, RankLimits
  <2>3. product.valid
    BY <1>5, <2>1
  <2>4. Rank(shifted, stage) = size - popped + 1
    BY <1>6, <2>2, <2>3
  <2> HIDE DEF size
  <2> QED BY <2>1, <2>3, <2>4 DEF size
<1>8. CASE stage # 1
  <2> DEFINE before == stage - 1
  <2>1. before \in 1..(Latency - 1) /\ before + 1 = stage /\ before \in 1..Latency
    BY <1>1, <1>8
  <2>2. shifted[stage] = pipe[before]
    BY <1>1, <1>8 DEF Shift
  <2>3. pipe[before].valid
    BY <1>5, <2>2
  <2>4. pipe[before] = due[Rank(pipe, before)]
    BY <2>1, <2>3 DEF InOrder
  <2>5. Rank(shifted, stage) = Rank(pipe, before) - popped /\ Rank(pipe, before) \in Nat
    BY <1>2, <2>1, RankShift
  <2>6. /\ Rank(pipe, before) \in 1..size
        /\ popped = 1 => Rank(pipe, before) >= 2
    BY <1>1, <1>2, <2>1, <2>3, RankLimits
  <2>7. /\ Rank(shifted, stage) \in 1..(size - popped)
        /\ Rank(shifted, stage) + popped = Rank(pipe, before)
    <3> HIDE DEF before, size
    <3> QED BY <1>1, <2>5, <2>6
  <2>8. next[Rank(shifted, stage)] = due[Rank(shifted, stage) + popped]
    BY <2>7
  <2> HIDE DEF before
  <2> QED BY <2>2, <2>4, <2>7, <2>8
<1> QED BY <1>7, <1>8

(* The product that leaves is the first one due.                           *)
LEMMA FirstDue ==
  ASSUME NEW pipe, NEW due, InOrder(pipe, due), pipe[Latency].valid
  PROVE  pipe[Latency] = due[1]
<1>1. Latency \in 1..Latency
  BY CoreAssumption
<1>2. Rank(pipe, Latency) = 1
  BY <1>1, RankLimits
<1> QED BY <1>1, <1>2 DEF InOrder

-----------------------------------------------------------------------------
(* One clock edge of a batch under way.                                    *)

(* What a clock edge of a batch that goes on leaves alone, and how it moves *)
(* the coefficient, the banks and the count of landed products.            *)
LEMMA BatchStep ==
  ASSUME FlowInv, CoreInv, NEW word, NEW ready, GoodWord(word), Clock(word, ready),
         state \in Running, ~Finishes(ready)
  PROVE  /\ UNCHANGED <<batch, profile>> /\ state' \in Running
         /\ batch.count \in Nat \ {0} /\ batch.digits \in Nat \ {0}
         /\ coefficient_index \in Nat
         /\ compute_bank \in Banks /\ PriorBank \in Banks /\ PriorBank # compute_bank
         /\ \A bank \in Banks : bank = compute_bank \/ bank = PriorBank
         /\ InputInv' /\ EvalInv' /\ BvInv' /\ DrainInv' /\ CoreInv'
         /\ EvalLanded \in Int /\ BvLanded \in Int /\ AllRows \in Nat /\ BvLanded' \in Int
         /\ Starts(word) =>
              /\ compute_bank' = PriorBank /\ coefficient_index' = coefficient_index + 1
              /\ ~bank_occupied[PriorBank] /\ EvalLanded >= 0 /\ BvLanded >= 0
              /\ state' = "COEFFICIENT_EVAL"
         /\ ~Starts(word) =>
              compute_bank' = compute_bank /\ coefficient_index' = coefficient_index
         /\ \A bank \in Banks :
              bank_occupied'[bank] => bank_occupied[bank] \/ (Starts(word) /\ bank = PriorBank)
         /\ BvLanded' = BvLanded + (IF bv_accum.valid THEN 1 ELSE 0)
                          - (IF Starts(word) THEN AllRows ELSE 0)
<1>1. FlowInv' /\ CoreInv'
  BY FlowStep, CoreStep
<1>2. /\ InputInv /\ MetadataInv /\ BankInv /\ EvalInv /\ BvInv /\ DrainInv
      /\ Protocol(word, ready) /\ BankOwnership(word, ready)
      /\ OutputScheduler(word, ready) /\ EvalPath(word) /\ BvPath(word)
  BY DEF FlowInv, CoreInv, Clock
<1>3. /\ UNCHANGED batch /\ state' \in Running
      /\ Starts(word) =>
           /\ compute_bank' = PriorBank /\ ~bank_occupied[PriorBank]
           /\ coefficient_index' = coefficient_index + 1 /\ state' = "COEFFICIENT_EVAL"
           /\ BvLaunched + (IF bv_launch(word) THEN 1 ELSE 0) = AllRows
           /\ BvLaunched' = 0
      /\ ~Starts(word) =>
           /\ compute_bank' = compute_bank /\ coefficient_index' = coefficient_index
           /\ BvLaunched' = BvLaunched + (IF bv_launch(word) THEN 1 ELSE 0)
  BY <1>2, Advance DEF Running
<1>4. /\ batch.count \in Nat \ {0} /\ batch.digits \in Nat \ {0}
      /\ bv_input.ciphertext \in Nat /\ bv_input.digit \in 0..(batch.digits - 1)
      /\ eval_input.ciphertext \in Nat /\ coefficient_index \in Nat
  BY <1>2, CoreAssumption DEF InputInv
<1>5. AllRows \in Nat /\ EvalLaunched \in Nat /\ BvLaunched \in Nat
  <2>1. AllRows \in Nat /\ Row(bv_input.digit) \in Nat
    BY <1>4, RowLimits
  <2> QED BY <1>4, <2>1 DEF EvalLaunched, BvLaunched
<1>6. /\ compute_bank \in Banks /\ PriorBank \in Banks /\ PriorBank # compute_bank
      /\ ~Starts(word) =>
           (bank_occupied'[PriorBank] <=>
              bank_occupied[PriorBank] /\ ~output_coefficient_complete(ready))
  BY <1>2, BanksMove
<1>7. EvalLanded \in Int /\ BvLanded \in Int
  <2>1. Len(eval_meta) \in Nat /\ Len(bv_meta) \in Nat
    BY <1>2, StagesFinite DEF MetadataInv, MetadataInStep
  <2> QED BY <1>5, <2>1 DEF EvalLanded, BvLanded
<1>8. Starts(word) => EvalLanded >= 0 /\ BvLanded >= 0
  BY <1>2, <1>3, <1>7 DEF EvalInv, BvInv
<1>9. \A bank \in Banks : bank = compute_bank \/ bank = PriorBank
  BY <1>6, OtherBank
<1>10. InputInv' /\ EvalInv' /\ BvInv' /\ DrainInv'
  BY <1>1, <1>3 DEF FlowInv
<1>11. UNCHANGED profile
  BY <1>2 DEF Protocol, AcceptCommand, AcceptModuli, AcceptReciprocals, AcceptCounts,
     AcceptOperand, AcceptKey, AcceptDigit, Discard, WaitBank, FinishBatch, Hold,
     protocolVars, Reject, Truncate, StartNextCoefficient, Running, Keying, InputDone
<1>12. \A bank \in Banks :
         bank_occupied'[bank] => bank_occupied[bank] \/ (Starts(word) /\ bank = PriorBank)
  <2>1. bank_occupied[compute_bank]
    BY <1>2 DEF DrainInv
  <2> QED BY <1>6, <1>9, <2>1
<1>13. BvLanded' = BvLanded + (IF bv_accum.valid THEN 1 ELSE 0)
                     - (IF Starts(word) THEN AllRows ELSE 0)
  <2> DEFINE popped == IF bv_meta_pop THEN 1 ELSE 0
             pushed == IF bv_launch(word) THEN 1 ELSE 0
             shift  == IF Starts(word) THEN AllRows ELSE 0
             held   == IF bv_accum.valid THEN 1 ELSE 0
  <2>1. Len(bv_meta') = Len(bv_meta) - popped + pushed /\ Len(bv_meta) \in Nat
    BY <1>2, BvQueueLength, StagesFinite DEF MetadataInv, MetadataInStep
  <2>2. bv_accum'.valid <=> bv_meta_pop
    BY <1>2 DEF BvPath, BvInv
  <2>3. BvLaunched' = BvLaunched + pushed - shift
    BY <1>3, <1>5
  <2>4. BvLanded' = BvLaunched' - Len(bv_meta') - popped
    BY <2>2 DEF BvLanded
  <2>5. BvLanded = BvLaunched - Len(bv_meta) - held
    BY DEF BvLanded
  <2>6. popped \in 0..1 /\ pushed \in 0..1 /\ shift \in Nat /\ held \in 0..1
    BY <1>5
  <2> HIDE DEF popped, pushed, shift, held
  <2>7. BvLanded' = BvLanded + held - shift
    BY <1>5, <2>1, <2>3, <2>4, <2>5, <2>6
  <2> QED BY <2>7 DEF held, shift
<1>14. BvLanded' \in Int
  BY <1>5, <1>7, <1>13
<1> QED BY <1>1, <1>3, <1>4, <1>5, <1>6, <1>7, <1>8, <1>9, <1>10, <1>11, <1>12, <1>13, <1>14

(* The coefficient a filling bank holds does not change when the protocol  *)
(* goes on to the next.                                                    *)
LEMMA CoefficientKept ==
  ASSUME FlowInv, CoreInv, NEW word, NEW ready, GoodWord(word), Clock(word, ready),
         state \in Running, ~Finishes(ready),
         NEW bank \in Banks, Starts(word) => bank # PriorBank
  PROVE  CoefficientOf(bank)' = CoefficientOf(bank)
<1>1. /\ coefficient_index \in Nat /\ PriorBank # compute_bank
      /\ bank = compute_bank \/ bank = PriorBank
      /\ Starts(word) => compute_bank' = PriorBank
                         /\ coefficient_index' = coefficient_index + 1
      /\ ~Starts(word) =>
           compute_bank' = compute_bank /\ coefficient_index' = coefficient_index
  BY BatchStep
<1> QED BY <1>1 DEF CoefficientOf

(* What products and sums are worth depends on the batch and profile alone. *)
LEMMA WorthKept ==
  ASSUME UNCHANGED <<batch, profile>>, NEW id, NEW coefficient, NEW ciphertext
  PROVE  /\ EvalProduct(id, coefficient, ciphertext)' = EvalProduct(id, coefficient, ciphertext)
         /\ \A digit : BvProduct(id, coefficient, digit, ciphertext)'
                         = BvProduct(id, coefficient, digit, ciphertext)
         /\ \A digits, component :
              KeySum(id, coefficient, ciphertext, digits, component)'
                = KeySum(id, coefficient, ciphertext, digits, component)
         /\ LoadedProfile' = LoadedProfile
BY DEF EvalProduct, BvProduct, KeySum, BvTerm, Times, LoadedProfile, OperandIndex,
   DigitIndex, KeyIndex, CoefficientWords

(* The word taken while a batch is read is the next of the frame's payload. *)
GoodPayload(id, word) ==
  Handshake(word) /\ state \in Running => word.value = Payload(id, Consumed)

(* By the layout of the payload, the word to come is the operand, the key  *)
(* or the digit that the core's counters name.                             *)
LEMMA PlaceInPayload ==
  ASSUME InputInv, state \in Running
  PROVE  /\ state = "COEFFICIENT_EVAL" =>
              Consumed = OperandIndex(batch, coefficient_index, eval_input.ciphertext,
                                      eval_input.phase)
         /\ state = "COEFFICIENT_KEY_B" =>
              Consumed = KeyIndex(batch, coefficient_index, bv_input.digit, 0)
         /\ state = "COEFFICIENT_KEY_A" =>
              Consumed = KeyIndex(batch, coefficient_index, bv_input.digit, 1)
         /\ state = "COEFFICIENT_DIGITS" =>
              Consumed = DigitIndex(batch, coefficient_index, bv_input.digit,
                                    bv_input.ciphertext)
<1> DEFINE c == batch.count
           k == bv_input.digit
<1>1. /\ c \in Nat \ {0} /\ batch.digits \in Nat \ {0} /\ k \in 0..(batch.digits - 1)
      /\ eval_input.ciphertext \in Nat /\ eval_input.phase \in Nat
      /\ bv_input.ciphertext \in Nat /\ coefficient_index \in Nat
  BY CoreAssumption DEF InputInv
<1>2. PICK words : words = CoefficientWords(batch)
  OBVIOUS
<1>3. PICK digits : digits = k * (c + 2)
  OBVIOUS
<1>4. PICK before : before = coefficient_index * words
  OBVIOUS
<1>5. digits \in Nat /\ words \in Nat /\ before \in Nat
  <2>1. digits \in Nat /\ words \in Nat
    BY <1>1, <1>2, <1>3, KeyPosition
  <2>2. \A x, y \in Nat : x * y \in Nat
    OBVIOUS
  <2> QED BY <1>1, <1>4, <2>1, <2>2
<1>6. Consumed = before + CoefficientPosition
  BY <1>2, <1>4 DEF Consumed
<1>7. /\ OperandIndex(batch, coefficient_index, eval_input.ciphertext, eval_input.phase) =
           before + 4 * eval_input.ciphertext + eval_input.phase
      /\ \A component : KeyIndex(batch, coefficient_index, k, component) =
           before + 4 * c + digits + component
      /\ DigitIndex(batch, coefficient_index, k, bv_input.ciphertext) =
           before + 4 * c + digits + 0 + 2 + bv_input.ciphertext
  BY <1>2, <1>3, <1>4 DEF OperandIndex, KeyIndex, DigitIndex
<1>8. /\ state = "COEFFICIENT_EVAL" =>
           CoefficientPosition = 4 * eval_input.ciphertext + eval_input.phase
      /\ state = "COEFFICIENT_KEY_B" => CoefficientPosition = 4 * c + digits
      /\ state = "COEFFICIENT_KEY_A" => CoefficientPosition = 4 * c + digits + 1
      /\ state = "COEFFICIENT_DIGITS" =>
           CoefficientPosition = 4 * c + digits + 2 + bv_input.ciphertext
  BY <1>3 DEF CoefficientPosition
<1> HIDE DEF c, k
<1> QED BY <1>1, <1>5, <1>6, <1>7, <1>8 DEF c, k

(* The operands held when the last of them, or a digit, comes are those of *)
(* the product that is due.                                                *)
LEMMA LaunchedProduct ==
  ASSUME InputInv, state \in Running, NEW word, NEW id, OperandInv(id), GoodPayload(id, word)
  PROVE  /\ eval_launch(word) =>
              [valid |-> TRUE,
               a0b0 |-> Product(eval_input.a0, eval_input.b0, LoadedProfile),
               a0b1 |-> Product(eval_input.a0, word.value, LoadedProfile),
               a1b0 |-> Product(eval_input.a1, eval_input.b0, LoadedProfile)]
              = EvalProduct(id, coefficient_index, eval_input.ciphertext)
         /\ bv_launch(word) =>
              [valid |-> TRUE,
               b |-> Product(word.value, bv_input.key_b, LoadedProfile),
               a |-> Product(word.value, bv_input.key_a, LoadedProfile)]
              = BvProduct(id, coefficient_index, bv_input.digit, bv_input.ciphertext)
<1>1. ASSUME eval_launch(word)
      PROVE  LET operand(phase) ==
                   Payload(id, OperandIndex(batch, coefficient_index,
                                            eval_input.ciphertext, phase))
             IN /\ eval_input.a0 = operand(0) /\ eval_input.a1 = operand(1)
                /\ eval_input.b0 = operand(2) /\ word.value = operand(3)
  <2>1. state = "COEFFICIENT_EVAL" /\ Handshake(word) /\ eval_input.phase = 3
    BY <1>1 DEF eval_launch
  <2> QED BY <2>1, PlaceInPayload DEF OperandInv, GoodPayload
<1>2. ASSUME bv_launch(word)
      PROVE  /\ bv_input.key_b =
                  Payload(id, KeyIndex(batch, coefficient_index, bv_input.digit, 0))
             /\ bv_input.key_a =
                  Payload(id, KeyIndex(batch, coefficient_index, bv_input.digit, 1))
             /\ word.value =
                  Payload(id, DigitIndex(batch, coefficient_index, bv_input.digit,
                                         bv_input.ciphertext))
  <2>1. state = "COEFFICIENT_DIGITS" /\ Handshake(word)
    BY <1>2 DEF bv_launch
  <2> QED BY <2>1, PlaceInPayload DEF OperandInv, GoodPayload
<1> QED BY <1>1, <1>2 DEF EvalProduct, BvProduct, BvTerm, Times

(* The operand and key registers follow the words of the frame.            *)
LEMMA OperandStep ==
  ASSUME FlowInv, CoreInv, NEW word, NEW ready, GoodWord(word), Clock(word, ready),
         state \in Running, ~Finishes(ready),
         NEW id, OperandInv(id), GoodPayload(id, word)
  PROVE  OperandInv(id)'
<1> DEFINE operand(phase) == Payload(id, OperandIndex(batch, coefficient_index,
                                                      eval_input.ciphertext, phase))
           key(component) == Payload(id, KeyIndex(batch, coefficient_index,
                                                  bv_input.digit, component))
<1>1. /\ UNCHANGED batch /\ InputInv /\ InputInv' /\ Protocol(word, ready)
      /\ ~Starts(word) => coefficient_index' = coefficient_index
      /\ Starts(word) => state' = "COEFFICIENT_EVAL"
  BY BatchStep DEF FlowInv, Clock
<1>2. CASE Starts(word)
  <2>1. StartNextCoefficient
    <3>1. CASE state = "WAIT_BANK"
      BY <1>1, <1>2, <3>1 DEF Protocol, Handshake, s_axis_tready, WaitBank, FinishBatch,
         Hold, Starts, start_next_coefficient_event
    <3>2. CASE state # "WAIT_BANK"
      <4>1. /\ input_coefficient_complete(word) /\ coefficient_index # LastCoefficient
            /\ next_bank_available
        BY <1>2, <3>2 DEF Starts, start_next_coefficient_event
      <4>2. state = "COEFFICIENT_DIGITS" /\ Handshake(word) /\ ~final_external_payload_word
        BY <4>1 DEF input_coefficient_complete, final_external_payload_word
      <4>3. AcceptDigit(word)
        BY <1>1, <4>2 DEF Protocol, AcceptCommand, AcceptModuli, AcceptReciprocals,
           AcceptCounts, AcceptOperand, AcceptKey, Discard, WaitBank, FinishBatch, Hold
      <4>4. word.last <=> final_external_payload_word
        BY <4>2 DEF GoodWord
      <4> QED BY <4>1, <4>3, <4>4 DEF AcceptDigit
    <3> QED BY <3>1, <3>2
  <2>2. eval_input'.phase = 0
    BY <1>1, <2>1 DEF StartNextCoefficient, RestartInput, InputInv
  <2> QED BY <1>1, <1>2, <2>2 DEF OperandInv
<1>3. CASE ~Starts(word) /\ UNCHANGED <<state, eval_input, bv_input>>
  BY <1>1, <1>3 DEF OperandInv, OperandIndex, KeyIndex, CoefficientWords
<1>4. CASE ~Starts(word) /\ Handshake(word) /\ AcceptOperand(word)
  <2>1. state = "COEFFICIENT_EVAL" /\ ~word.last
    BY <1>1, <1>4 DEF AcceptOperand, GoodWord
  <2>2. /\ eval_input.phase \in 0..3 /\ word.value = operand(eval_input.phase)
        /\ eval_input.phase > 0 => eval_input.a0 = operand(0)
        /\ eval_input.phase > 1 => eval_input.a1 = operand(1)
        /\ eval_input.phase > 2 => eval_input.b0 = operand(2)
    BY <1>1, <1>4, <2>1, PlaceInPayload DEF InputInv, GoodPayload, OperandInv
  <2>3. /\ state' \in {"COEFFICIENT_EVAL", "COEFFICIENT_KEY_B"}
        /\ eval_input'.phase = (eval_input.phase + 1) % 4
        /\ eval_input.phase < 3 => eval_input'.ciphertext = eval_input.ciphertext
        /\ eval_input'.a0 = IF eval_input.phase = 0 THEN word.value ELSE eval_input.a0
        /\ eval_input'.a1 = IF eval_input.phase = 1 THEN word.value ELSE eval_input.a1
        /\ eval_input'.b0 = IF eval_input.phase = 2 THEN word.value ELSE eval_input.b0
    BY <1>4, <2>1 DEF AcceptOperand, Goto
  <2>4. CASE eval_input.phase = 3
    BY <2>3, <2>4 DEF OperandInv
  <2>5. CASE eval_input.phase # 3
    <3>1. eval_input'.phase = eval_input.phase + 1 /\ eval_input.phase \in 0..2
      BY <2>2, <2>3, <2>5
    <3>2. \A phase : operand(phase)' = operand(phase)
      BY <1>1, <1>4, <2>3, <3>1 DEF OperandIndex, CoefficientWords
    <3>3. /\ eval_input'.phase > 0 => eval_input'.a0 = operand(0)
          /\ eval_input'.phase > 1 => eval_input'.a1 = operand(1)
          /\ eval_input'.phase > 2 => eval_input'.b0 = operand(2)
      <4> HIDE DEF operand
      <4> QED BY <2>2, <2>3, <3>1
    <3> QED BY <2>3, <3>2, <3>3 DEF OperandInv
  <2> QED BY <2>4, <2>5
<1>5. CASE ~Starts(word) /\ Handshake(word) /\ AcceptKey(word)
  <2>1. state \in Keying /\ ~word.last
    BY <1>1, <1>5 DEF AcceptKey, GoodWord, Keying
  <2>2. /\ state = "COEFFICIENT_KEY_B" =>
             /\ word.value = key(0) /\ state' = "COEFFICIENT_KEY_A"
             /\ bv_input' = [bv_input EXCEPT !.key_b = word.value]
        /\ state = "COEFFICIENT_KEY_A" =>
             /\ bv_input.key_b = key(0) /\ word.value = key(1)
             /\ state' = "COEFFICIENT_DIGITS"
             /\ bv_input' = [bv_input EXCEPT !.key_a = word.value, !.ciphertext = 0]
    BY <1>1, <1>5, <2>1, PlaceInPayload
       DEF AcceptKey, Goto, GoodPayload, OperandInv, Keying
  <2>3. /\ bv_input'.digit = bv_input.digit
        /\ state = "COEFFICIENT_KEY_B" => bv_input'.key_b = word.value
        /\ state = "COEFFICIENT_KEY_A" =>
             bv_input'.key_b = bv_input.key_b /\ bv_input'.key_a = word.value
    BY <1>1, <2>1, <2>2 DEF InputInv, Keying
  <2>4. \A component : key(component)' = key(component)
    BY <1>1, <1>5, <2>3 DEF KeyIndex, CoefficientWords
  <2> QED BY <2>1, <2>2, <2>3, <2>4 DEF OperandInv, Keying
<1>6. CASE ~Starts(word) /\ Handshake(word) /\ AcceptDigit(word)
  <2>1. state = "COEFFICIENT_DIGITS" /\ (word.last <=> final_external_payload_word)
    BY <1>1, <1>6 DEF AcceptDigit, GoodWord
  <2>2. /\ state' # "COEFFICIENT_EVAL" /\ state' # "COEFFICIENT_KEY_A"
        /\ state' = "COEFFICIENT_DIGITS" =>
             /\ bv_input'.digit = bv_input.digit /\ bv_input'.key_b = bv_input.key_b
             /\ bv_input'.key_a = bv_input.key_a
    BY <1>1, <1>6, <2>1 DEF AcceptDigit, Starts, start_next_coefficient_event,
       input_coefficient_complete, Goto, InputInv
  <2>3. state' = "COEFFICIENT_DIGITS" => \A component : key(component)' = key(component)
    BY <1>1, <1>6, <2>2 DEF KeyIndex, CoefficientWords
  <2>4. bv_input.key_b = key(0) /\ bv_input.key_a = key(1)
    BY <2>1 DEF OperandInv
  <2> QED BY <2>1, <2>2, <2>3, <2>4 DEF OperandInv
<1> QED BY <1>1, <1>2, <1>3, <1>4, <1>5, <1>6
        DEF Protocol, AcceptCommand, AcceptModuli, AcceptReciprocals, AcceptCounts,
            Discard, WaitBank, FinishBatch, Finishes, Hold, protocolVars, Starts,
            start_next_coefficient_event, Running, Keying, InputDone

(* What is in flight is for one of the banks, and for the one being filled *)
(* if the protocol goes on to the next coefficient.                        *)
LEMMA TargetBanks ==
  ASSUME FlowInv, CoreInv, NEW word, NEW ready, GoodWord(word), Clock(word, ready),
         state \in Running, ~Finishes(ready)
  PROVE  /\ \A i \in 1..Len(eval_meta) :
              /\ eval_meta[i].bank \in Banks
              /\ Starts(word) => eval_meta[i].bank # PriorBank
         /\ \A i \in 1..Len(bv_meta) :
              /\ bv_meta[i].bank \in Banks
              /\ Starts(word) => bv_meta[i].bank # PriorBank
         /\ bv_accum.valid =>
              /\ bv_accum.bank \in Banks
              /\ Starts(word) => bv_accum.bank # PriorBank
<1>1. /\ EvalLanded \in Int /\ BvLanded \in Int
      /\ compute_bank \in Banks /\ PriorBank \in Banks /\ PriorBank # compute_bank
      /\ Starts(word) => EvalLanded >= 0 /\ BvLanded >= 0
  BY BatchStep
<1>2. EvalInv /\ BvInv /\ Len(eval_meta) \in Nat /\ Len(bv_meta) \in Nat
  BY StagesFinite DEF FlowInv, CoreInv, MetadataInv, MetadataInStep
<1>3. BvLaunched - Len(bv_meta) = BvLanded + (IF bv_accum.valid THEN 1 ELSE 0)
      /\ BvLaunched - Len(bv_meta) \in Int
  <2>1. BvLaunched \in Int
    <3>1. InputInv /\ AllRows \in Nat /\ batch.count \in Nat \ {0}
          /\ batch.digits \in Nat \ {0}
      BY BatchStep DEF FlowInv
    <3>2. Row(bv_input.digit) \in Nat
      BY <3>1, RowLimits DEF InputInv
    <3> QED BY <3>1, <3>2 DEF BvLaunched, InputInv
  <2> QED BY <1>2, <2>1 DEF BvLanded
<1>4. ASSUME NEW i \in 1..Len(eval_meta)
      PROVE  /\ eval_meta[i].bank \in Banks
             /\ Starts(word) => eval_meta[i].bank # PriorBank
  <2>1. EvalEntryAt(eval_meta[i], EvalLanded + i - 1)
    BY <1>2 DEF EvalInv
  <2>2. Starts(word) => ~(EvalLanded + i - 1 < 0)
    BY <1>1
  <2> QED BY <1>1, <2>1, <2>2 DEF EvalEntryAt
<1>5. ASSUME NEW i \in 1..Len(bv_meta)
      PROVE  /\ bv_meta[i].bank \in Banks
             /\ Starts(word) => bv_meta[i].bank # PriorBank
  <2>1. BvEntryAt(bv_meta[i], BvLaunched - Len(bv_meta) + i - 1)
    BY <1>2 DEF BvInv
  <2>2. Starts(word) => ~(BvLaunched - Len(bv_meta) + i - 1 < 0)
    BY <1>1, <1>3
  <2> QED BY <1>1, <2>1, <2>2 DEF BvEntryAt
<1>6. ASSUME bv_accum.valid
      PROVE  /\ bv_accum.bank \in Banks
             /\ Starts(word) => bv_accum.bank # PriorBank
  <2>1. BvEntryAt(bv_accum, BvLanded)
    BY <1>2, <1>6 DEF BvInv
  <2>2. Starts(word) => ~(BvLanded < 0)
    BY <1>1
  <2> QED BY <1>1, <2>1, <2>2 DEF BvEntryAt
<1> QED BY <1>4, <1>5, <1>6

(* The EvalMul pipeline holds the products that are due, in order.         *)
LEMMA EvalOrderStep ==
  ASSUME FlowInv, CoreInv, NEW word, NEW ready, GoodWord(word), Clock(word, ready),
         state \in Running, ~Finishes(ready),
         NEW id, OperandInv(id), GoodPayload(id, word), InOrder(eval_pipe, EvalDue(id))
  PROVE  InOrder(eval_pipe, EvalDue(id))'
<1> DEFINE pop    == eval_meta_pop
           push   == eval_launch(word)
           popped == IF pop THEN 1 ELSE 0
           pushed == IF push THEN 1 ELSE 0
           new    == [ciphertext |-> eval_input.ciphertext, bank |-> compute_bank]
           size   == Len(eval_meta)
           later(bank) == IF bank = compute_bank' THEN coefficient_index'
                          ELSE coefficient_index' - 1
           worth(coefficient, ciphertext) == EvalProduct(id, coefficient, ciphertext)
           launched == IF push THEN worth(coefficient_index, eval_input.ciphertext)
                               ELSE NoProduct
<1>1. EvalPath(word) /\ MetadataInv /\ InputInv
  BY DEF Clock, CoreInv, FlowInv
<1>2. PICK S : eval_meta \in Seq(S)
  BY <1>1 DEF MetadataInv
<1>3. /\ size \in Nat /\ (pop => size > 0)
      /\ size = Cardinality(InFlight(eval_pipe))
  BY <1>1, <1>2, EntryForResult DEF MetadataInv, MetadataInStep, eval_meta_pop
<1>4. eval_meta' = Push(eval_meta, pop, push, new)
  BY <1>1 DEF EvalPath
<1>5. Len(eval_meta') = size - popped + pushed
  BY <1>1, EvalQueueLength
<1>6. \A i \in 1..Len(eval_meta') :
        eval_meta'[i] = IF i <= size - popped THEN eval_meta[i + popped] ELSE new
  BY <1>2, <1>3, <1>4, PushElements
<1>7. eval_pipe' = Shift(eval_pipe, launched)
  BY <1>1, LaunchedProduct DEF EvalPath
<1>8. launched.valid <=> push
  BY DEF NoProduct, EvalProduct
<1>9. UNCHANGED <<batch, profile>> /\ compute_bank \in Banks /\ PriorBank # compute_bank
  BY BatchStep
<1>10. \A bank \in Banks :
         (Starts(word) => bank # PriorBank) => later(bank) = CoefficientOf(bank)
  <2> SUFFICES ASSUME NEW bank \in Banks, Starts(word) => bank # PriorBank
               PROVE  later(bank) = CoefficientOf(bank)
    OBVIOUS
  <2>1. CoefficientOf(bank)' = CoefficientOf(bank)
    BY CoefficientKept
  <2> QED BY <2>1 DEF CoefficientOf
<1> DEFINE next == [i \in 1..Len(eval_meta') |->
                      worth(later(eval_meta'[i].bank), eval_meta'[i].ciphertext)]
<1>11. EvalDue(id)' = next
  BY <1>9 DEF EvalDue, CoefficientOf, EvalProduct, Times, LoadedProfile, OperandIndex,
     CoefficientWords
<1>12. \A i \in 1..(size - popped) : next[i] = EvalDue(id)[i + popped]
  <2> SUFFICES ASSUME NEW i \in 1..(size - popped)
               PROVE  next[i] = EvalDue(id)[i + popped]
    OBVIOUS
  <2>1. popped \in 0..1 /\ pushed \in 0..1
    OBVIOUS
  <2>2. i + popped \in 1..size /\ i \in 1..Len(eval_meta') /\ i <= size - popped
    <3> HIDE DEF popped, pushed, size
    <3> QED BY <1>3, <1>5, <2>1
  <2>3. eval_meta'[i] = eval_meta[i + popped]
    BY <1>6, <2>2
  <2>4. later(eval_meta[i + popped].bank) = CoefficientOf(eval_meta[i + popped].bank)
    BY <1>10, <2>2, TargetBanks
  <2>5. next[i] = worth(later(eval_meta[i + popped].bank), eval_meta[i + popped].ciphertext)
    <3> HIDE DEF worth, later
    <3> QED BY <2>2, <2>3
  <2>6. EvalDue(id)[i + popped] =
          worth(CoefficientOf(eval_meta[i + popped].bank), eval_meta[i + popped].ciphertext)
    BY <2>2 DEF EvalDue
  <2> QED BY <2>4, <2>5, <2>6
<1>13. launched.valid => next[size - popped + 1] = launched
  <2> SUFFICES ASSUME push PROVE next[size - popped + 1] = launched
    BY <1>8
  <2>1. size - popped + 1 \in 1..Len(eval_meta') /\ ~(size - popped + 1 <= size - popped)
    BY <1>3, <1>5
  <2>2. eval_meta'[size - popped + 1] = new
    BY <1>6, <2>1
  <2>3. ~Starts(word)
    BY DEF Starts, start_next_coefficient_event, input_coefficient_complete, eval_launch
  <2>4. later(compute_bank) = coefficient_index
    BY <1>9, <1>10, <2>3 DEF CoefficientOf
  <2>5. next[size - popped + 1] = worth(later(compute_bank), eval_input.ciphertext)
    <3>1. new.bank = compute_bank /\ new.ciphertext = eval_input.ciphertext
      OBVIOUS
    <3> HIDE DEF worth, later, new
    <3> QED BY <2>1, <2>2, <3>1
  <2> QED BY <2>4, <2>5
<1>14. popped \in 0..1 /\ (popped = 1 <=> eval_pipe[Latency].valid)
  BY DEF eval_meta_pop
<1> HIDE DEF next, launched, popped, worth
<1>15. InOrder(Shift(eval_pipe, launched), next)
  BY <1>3, <1>12, <1>13, <1>14, OrderKept
<1>16. InOrder(eval_pipe', EvalDue(id)')
  BY <1>7, <1>11, <1>15
<1> QED BY <1>16 DEF InOrder, Rank

(* So does the pipeline of digit products.                                 *)
LEMMA BvOrderStep ==
  ASSUME FlowInv, CoreInv, NEW word, NEW ready, GoodWord(word), Clock(word, ready),
         state \in Running, ~Finishes(ready),
         NEW id, OperandInv(id), GoodPayload(id, word), InOrder(bv_pipe, BvDue(id))
  PROVE  InOrder(bv_pipe, BvDue(id))'
<1> DEFINE pop    == bv_meta_pop
           push   == bv_launch(word)
           popped == IF pop THEN 1 ELSE 0
           pushed == IF push THEN 1 ELSE 0
           new    == [ciphertext |-> bv_input.ciphertext, digit |-> bv_input.digit,
                      bank |-> compute_bank]
           size   == Len(bv_meta)
           later(bank) == IF bank = compute_bank' THEN coefficient_index'
                          ELSE coefficient_index' - 1
           worth(coefficient, entry) ==
             BvProduct(id, coefficient, entry.digit, entry.ciphertext)
           launched == IF push THEN worth(coefficient_index, new)
                               ELSE NoProduct
<1>1. BvPath(word) /\ MetadataInv /\ InputInv
  BY DEF Clock, CoreInv, FlowInv
<1>2. PICK S : bv_meta \in Seq(S)
  BY <1>1 DEF MetadataInv
<1>3. /\ size \in Nat /\ (pop => size > 0)
      /\ size = Cardinality(InFlight(bv_pipe))
  BY <1>1, <1>2, EntryForResult DEF MetadataInv, MetadataInStep, bv_meta_pop
<1>4. bv_meta' = Push(bv_meta, pop, push, new)
  BY <1>1 DEF BvPath
<1>5. Len(bv_meta') = size - popped + pushed
  BY <1>1, BvQueueLength
<1>6. \A i \in 1..Len(bv_meta') :
        bv_meta'[i] = IF i <= size - popped THEN bv_meta[i + popped] ELSE new
  BY <1>2, <1>3, <1>4, PushElements
<1>7. bv_pipe' = Shift(bv_pipe, launched)
  BY <1>1, LaunchedProduct DEF BvPath
<1>8. launched.valid <=> push
  BY DEF NoProduct, BvProduct
<1>9. UNCHANGED <<batch, profile>> /\ compute_bank \in Banks /\ PriorBank # compute_bank
  BY BatchStep
<1>10. \A bank \in Banks :
         (Starts(word) => bank # PriorBank) => later(bank) = CoefficientOf(bank)
  <2> SUFFICES ASSUME NEW bank \in Banks, Starts(word) => bank # PriorBank
               PROVE  later(bank) = CoefficientOf(bank)
    OBVIOUS
  <2>1. CoefficientOf(bank)' = CoefficientOf(bank)
    BY CoefficientKept
  <2> QED BY <2>1 DEF CoefficientOf
<1> DEFINE next == [i \in 1..Len(bv_meta') |->
                      worth(later(bv_meta'[i].bank), bv_meta'[i])]
<1>11. BvDue(id)' = next
  BY <1>9 DEF BvDue, CoefficientOf, BvProduct, BvTerm, Times, LoadedProfile,
     DigitIndex, KeyIndex, CoefficientWords
<1>12. \A i \in 1..(size - popped) : next[i] = BvDue(id)[i + popped]
  <2> SUFFICES ASSUME NEW i \in 1..(size - popped)
               PROVE  next[i] = BvDue(id)[i + popped]
    OBVIOUS
  <2>1. popped \in 0..1 /\ pushed \in 0..1
    OBVIOUS
  <2>2. i + popped \in 1..size /\ i \in 1..Len(bv_meta') /\ i <= size - popped
    <3> HIDE DEF popped, pushed, size
    <3> QED BY <1>3, <1>5, <2>1
  <2>3. bv_meta'[i] = bv_meta[i + popped]
    BY <1>6, <2>2
  <2>4. later(bv_meta[i + popped].bank) = CoefficientOf(bv_meta[i + popped].bank)
    BY <1>10, <2>2, TargetBanks
  <2>5. next[i] = worth(later(bv_meta[i + popped].bank), bv_meta[i + popped])
    <3> HIDE DEF worth, later
    <3> QED BY <2>2, <2>3
  <2>6. BvDue(id)[i + popped] =
          worth(CoefficientOf(bv_meta[i + popped].bank), bv_meta[i + popped])
    BY <2>2 DEF BvDue
  <2> QED BY <2>4, <2>5, <2>6
<1>13. launched.valid => next[size - popped + 1] = launched
  <2> SUFFICES ASSUME push PROVE next[size - popped + 1] = launched
    BY <1>8
  <2>1. size - popped + 1 \in 1..Len(bv_meta') /\ ~(size - popped + 1 <= size - popped)
    BY <1>3, <1>5
  <2>2. bv_meta'[size - popped + 1] = new
    BY <1>6, <2>1
  <2>3. later(compute_bank) = coefficient_index
    BY <1>9, <1>10 DEF CoefficientOf
  <2>4. next[size - popped + 1] = worth(later(compute_bank), new)
    <3>1. new.bank = compute_bank
      OBVIOUS
    <3> HIDE DEF worth, later, new
    <3> QED BY <2>1, <2>2, <3>1
  <2> QED BY <2>3, <2>4
<1>14. popped \in 0..1 /\ (popped = 1 <=> bv_pipe[Latency].valid)
  BY DEF bv_meta_pop
<1> HIDE DEF next, launched, popped, worth
<1>15. InOrder(Shift(bv_pipe, launched), next)
  BY <1>3, <1>12, <1>13, <1>14, OrderKept
<1>16. InOrder(bv_pipe', BvDue(id)')
  BY <1>7, <1>11, <1>15
<1> QED BY <1>16 DEF InOrder, Rank

(* Sums of two products are written term after term.                       *)
LEMMA TwoTerms == ASSUME NEW x, NEW y PROVE <<x>> \o <<y>> = <<x, y>>
<1> DEFINE S == {x, y}
<1>1. x \in S /\ y \in S
  OBVIOUS
<1> HIDE DEF S
<1>2. <<x>> \in Seq(S) /\ <<y>> \in Seq(S) /\ <<x, y>> \in Seq(S)
  BY <1>1
<1>3. Len(<<x>>) = 1 /\ Len(<<y>>) = 1 /\ Len(<<x, y>>) = 2
  OBVIOUS
<1>4. /\ <<x>> \o <<y>> \in Seq(S) /\ Len(<<x>> \o <<y>>) = 2
      /\ \A i \in 1..2 : (<<x>> \o <<y>>)[i] = IF i <= 1 THEN <<x>>[i] ELSE <<y>>[i - 1]
  BY <1>2, <1>3, ConcatProperties
<1>5. \A i \in 1..2 : (<<x>> \o <<y>>)[i] = <<x, y>>[i]
  BY <1>4
<1> QED BY <1>2, <1>3, <1>4, <1>5, SeqEqual

(* An occupied bank's counter says how many of its results have landed.    *)
LEMMA CountLimits ==
  ASSUME FlowInv, CoreInv, state \in Running, NEW bank \in Banks, bank_occupied[bank]
  PROVE  /\ eval_result_count[bank] \in 0..batch.count
         /\ batch.count \in Nat /\ batch.count <= MaxBatch
<1>1. /\ batch.count \in Nat \ {0} /\ compute_bank \in Banks
      /\ Len(eval_meta) \in Nat /\ EvalLaunched \in 0..batch.count
      /\ EvalLanded = EvalLaunched - Len(eval_meta) /\ EvalLanded \in Int
  BY FlowNumbers
<1>2. batch.count <= MaxBatch
  BY CoreAssumption DEF FlowInv, InputInv
<1>3. /\ EvalLanded >= -batch.count
      /\ eval_result_count[compute_bank] = Beyond(EvalLanded, 0)
      /\ bank_occupied[PriorBank] =>
           eval_result_count[PriorBank] =
             IF EvalLanded < 0 THEN EvalLanded + batch.count ELSE batch.count
  BY DEF FlowInv, EvalInv
<1>4. bank = compute_bank \/ bank = PriorBank
  BY <1>1, OtherBank
<1> QED BY <1>1, <1>2, <1>3, <1>4 DEF Beyond

(* A word written is where it was written, and no other word changes.      *)
LEMMA Overwritten ==
  ASSUME NEW memory, DOMAIN memory = Banks,
         \A bank \in Banks : DOMAIN memory[bank] = Ciphertexts,
         NEW at \in Banks, NEW of \in Ciphertexts, NEW value, NEW next,
         next = [memory EXCEPT ![at][of] = value]
  PROVE  /\ DOMAIN next = Banks
         /\ \A bank \in Banks :
              /\ DOMAIN next[bank] = Ciphertexts
              /\ \A ciphertext \in Ciphertexts :
                   next[bank][ciphertext] =
                     IF bank = at /\ ciphertext = of THEN value ELSE memory[bank][ciphertext]
<1> HIDE DEF Banks, Ciphertexts
<1>1. DOMAIN next = Banks
  OBVIOUS
<1>2. next[at] = [memory[at] EXCEPT ![of] = value]
  OBVIOUS
<1>3. \A bank \in Banks : bank # at => next[bank] = memory[bank]
  OBVIOUS
<1> QED BY <1>1, <1>2, <1>3

(* The EvalMul result that lands is the next one of its bank.              *)
LEMMA EvalResult ==
  ASSUME FlowInv, CoreInv, state \in Running, eval_meta_pop
  PROVE  LET entry == eval_meta[1] IN
         /\ entry = Head(eval_meta) /\ 1 \in 1..Len(eval_meta)
         /\ entry.bank \in Banks /\ entry.ciphertext \in 0..(batch.count - 1)
         /\ entry.ciphertext \in Ciphertexts
         /\ bank_occupied[entry.bank] /\ eval_result_count[entry.bank] = entry.ciphertext
<1> DEFINE entry == eval_meta[1]
<1>1. /\ InputInv /\ EvalInv /\ DrainInv /\ MetadataInv
      /\ batch.count \in Nat \ {0} /\ batch.count \in MinBatch..MaxBatch
      /\ compute_bank \in Banks /\ PriorBank \in Banks
      /\ eval_input.ciphertext \in 0..(batch.count - 1)
  <2>1. InputInv /\ EvalInv /\ DrainInv /\ MetadataInv
    BY DEF FlowInv, CoreInv
  <2>2. compute_bank \in Banks
    BY <2>1 DEF InputInv, Banks
  <2> QED BY <2>1, <2>2, OtherBank, CoreAssumption DEF InputInv
<1>2. PICK S : eval_meta \in Seq(S)
  BY <1>1 DEF MetadataInv
<1>3. Len(eval_meta) \in Nat /\ Len(eval_meta) > 0
  BY <1>1, <1>2, EntryForResult DEF MetadataInv, MetadataInStep, eval_meta_pop
<1>4. entry = Head(eval_meta) /\ 1 \in 1..Len(eval_meta)
  BY <1>2, <1>3
<1>5. EvalLaunched \in Nat /\ EvalLaunched <= batch.count
  BY <1>1 DEF EvalLaunched
<1>6. EvalLanded \in Int /\ EvalLanded < batch.count
  BY <1>1, <1>3, <1>5 DEF EvalLanded
<1>7. EvalEntryAt(entry, EvalLanded)
  <2>1. EvalEntryAt(eval_meta[1], EvalLanded + 1 - 1)
    BY <1>1, <1>4 DEF EvalInv
  <2> QED BY <1>6, <2>1
<1>8. /\ EvalLanded >= -batch.count
      /\ eval_result_count[compute_bank] = Beyond(EvalLanded, 0)
      /\ EvalLanded < 0 => bank_occupied[PriorBank]
      /\ bank_occupied[PriorBank] =>
           eval_result_count[PriorBank] =
             IF EvalLanded < 0 THEN EvalLanded + batch.count ELSE batch.count
      /\ bank_occupied[compute_bank]
  BY <1>1 DEF EvalInv, DrainInv
<1>9. /\ entry.bank \in Banks /\ entry.ciphertext \in 0..(batch.count - 1)
      /\ bank_occupied[entry.bank] /\ eval_result_count[entry.bank] = entry.ciphertext
  BY <1>1, <1>6, <1>7, <1>8 DEF EvalEntryAt, Beyond
<1>10. entry.ciphertext \in Ciphertexts
  BY <1>1, <1>9, CoreAssumption DEF Ciphertexts
<1> QED BY <1>4, <1>9, <1>10

(* The memories of EvalMul hold every result that is counted for them.     *)
LEMMA EvalMemoryStep ==
  ASSUME FlowInv, CoreInv, NEW word, NEW ready, GoodWord(word), Clock(word, ready),
         state \in Running, ~Finishes(ready), profile.q = profile.mu, MemoryShape,
         NEW id, InOrder(eval_pipe, EvalDue(id)), EvalMemoryInv(id)
  PROVE  EvalMemoryInv(id)'
<1> DEFINE pop   == eval_meta_pop
           entry == eval_meta[1]
           hit   == [bank \in Banks |-> pop /\ Head(eval_meta).bank = bank]
           worth(bank, ciphertext) == EvalProduct(id, CoefficientOf(bank), ciphertext)
<1>1. EvalPath(word)
  BY DEF Clock
<1>2. /\ UNCHANGED <<batch, profile>> /\ state' \in Running
      /\ PriorBank \in Banks
      /\ \A bank \in Banks : bank_occupied'[bank] =>
           bank_occupied[bank] \/ (Starts(word) /\ bank = PriorBank)
  BY BatchStep
<1>3. pop => /\ entry = Head(eval_meta) /\ 1 \in 1..Len(eval_meta)
             /\ entry.bank \in Banks /\ entry.ciphertext \in Ciphertexts
             /\ eval_result_count[entry.bank] = entry.ciphertext
             /\ Starts(word) => entry.bank # PriorBank
  BY EvalResult, TargetBanks
<1>4. LoadedProfile = profile.q
  BY DEF LoadedProfile
<1>5. pop => eval_pipe[Latency] = worth(entry.bank, entry.ciphertext)
  <2>1. pop => eval_pipe[Latency] = EvalDue(id)[1]
    BY FirstDue DEF eval_meta_pop
  <2> QED BY <1>3, <2>1 DEF EvalDue
<1>6. pop => /\ eval_result_c0 = <<worth(entry.bank, entry.ciphertext).a0b0>>
             /\ eval_result_c1 = <<worth(entry.bank, entry.ciphertext).a0b1,
                                   worth(entry.bank, entry.ciphertext).a1b0>>
  <2> SUFFICES ASSUME pop
               PROVE  /\ eval_result_c0 = <<eval_pipe[Latency].a0b0>>
                      /\ eval_result_c1 = <<eval_pipe[Latency].a0b1,
                                            eval_pipe[Latency].a1b0>>
    BY <1>5
  <2>1. /\ eval_pipe[Latency].a0b1.q = profile.q
        /\ eval_pipe[Latency].a1b0.q = profile.q
    BY <1>4, <1>5 DEF EvalProduct, Times, Product
  <2>2. ASSUME NEW x, NEW y, x.q = profile.q, y.q = profile.q
        PROVE  AddMod(<<x>>, <<y>>, profile.q) = <<x, y>>
    <3>1. AddMod(<<x>>, <<y>>, profile.q) = <<x>> \o <<y>>
      BY <2>2 DEF AddMod
    <3> QED BY <3>1, TwoTerms
  <2>3. AddMod(<<eval_pipe[Latency].a0b1>>, <<eval_pipe[Latency].a1b0>>, profile.q)
          = <<eval_pipe[Latency].a0b1, eval_pipe[Latency].a1b0>>
    BY <2>1, <2>2
  <2> QED BY <2>3 DEF eval_result_c0, eval_result_c1
<1>7. \A bank \in Banks :
        eval_result_count'[bank] =
          IF pop /\ entry.bank = bank THEN eval_result_count[bank] + 1
          ELSE IF Starts(word) /\ bank = PriorBank THEN 0 ELSE eval_result_count[bank]
  <2>1. eval_result_count' = Counted(eval_result_count, word, hit)
    BY <1>1 DEF EvalPath
  <2>2. \A bank \in Banks : hit[bank] <=> pop /\ entry.bank = bank
    BY <1>3
  <2> HIDE DEF hit, pop, entry
  <2> QED BY <2>1, <2>2, CountedRunning
<1>8. /\ DOMAIN c0_memory = Banks /\ DOMAIN c1_memory = Banks
      /\ \A bank \in Banks : /\ DOMAIN c0_memory[bank] = Ciphertexts
                             /\ DOMAIN c1_memory[bank] = Ciphertexts
  BY DEF MemoryShape
<1>9. \A bank \in Banks, ciphertext \in Ciphertexts :
        /\ c0_memory'[bank][ciphertext] =
             IF pop /\ bank = entry.bank /\ ciphertext = entry.ciphertext
               THEN eval_result_c0 ELSE c0_memory[bank][ciphertext]
        /\ c1_memory'[bank][ciphertext] =
             IF pop /\ bank = entry.bank /\ ciphertext = entry.ciphertext
               THEN eval_result_c1 ELSE c1_memory[bank][ciphertext]
  <2>1. CASE pop
    <3>1. /\ c0_memory' = [c0_memory EXCEPT
                             ![entry.bank][entry.ciphertext] = eval_result_c0]
          /\ c1_memory' = [c1_memory EXCEPT
                             ![entry.bank][entry.ciphertext] = eval_result_c1]
      BY <1>1, <1>3, <2>1 DEF EvalPath
    <3> HIDE DEF entry, pop
    <3> QED BY <1>3, <1>8, <2>1, <3>1, Overwritten
  <2>2. CASE ~pop
    BY <1>1, <2>2 DEF EvalPath
  <2> QED BY <2>1, <2>2
<1>10. SUFFICES ASSUME NEW bank \in Banks, bank_occupied'[bank],
                       NEW ciphertext \in 0..(eval_result_count'[bank] - 1)
                PROVE  LET product == worth(bank, ciphertext)' IN
                       /\ c0_memory'[bank][ciphertext] = <<product.a0b0>>
                       /\ c1_memory'[bank][ciphertext] = <<product.a0b1, product.a1b0>>
  BY DEF EvalMemoryInv
<1>11. Starts(word) => bank # PriorBank
  <2> SUFFICES ASSUME Starts(word), bank = PriorBank PROVE FALSE
    OBVIOUS
  <2>1. eval_result_count'[bank] = 0
    BY <1>3, <1>7
  <2> QED BY <1>10, <2>1
<1>12. bank_occupied[bank]
  BY <1>2, <1>10, <1>11
<1>13. worth(bank, ciphertext)' = worth(bank, ciphertext)
  <2>1. CoefficientOf(bank)' = CoefficientOf(bank)
    BY <1>11, CoefficientKept
  <2> QED BY <1>2, <2>1 DEF EvalProduct, Times, LoadedProfile, OperandIndex, CoefficientWords
<1>14. eval_result_count[bank] \in 0..batch.count /\ batch.count <= MaxBatch
       /\ batch.count \in Nat /\ eval_result_count'[bank] \in 0..batch.count
  <2>1. /\ eval_result_count[bank] \in 0..batch.count /\ batch.count <= MaxBatch
        /\ batch.count \in Nat
    BY <1>12, CountLimits
  <2>2. pop /\ entry.bank = bank => eval_result_count[bank] < batch.count
    BY <1>3, RoomForResult
  <2> HIDE DEF pop, entry
  <2> QED BY <1>7, <2>1, <2>2
<1>15. ciphertext \in Ciphertexts
  BY <1>10, <1>14, CoreAssumption DEF Ciphertexts
<1>16. CASE pop /\ bank = entry.bank /\ ciphertext = entry.ciphertext
  BY <1>6, <1>9, <1>13, <1>15, <1>16
<1>17. CASE ~(pop /\ bank = entry.bank /\ ciphertext = entry.ciphertext)
  <2>1. ciphertext \in 0..(eval_result_count[bank] - 1)
    BY <1>3, <1>7, <1>10, <1>11, <1>14, <1>17
  <2>2. /\ c0_memory[bank][ciphertext] = <<worth(bank, ciphertext).a0b0>>
        /\ c1_memory[bank][ciphertext] =
             <<worth(bank, ciphertext).a0b1, worth(bank, ciphertext).a1b0>>
    BY <1>12, <2>1 DEF EvalMemoryInv
  <2> QED BY <1>9, <1>13, <1>15, <1>17, <2>2
<1> QED BY <1>16, <1>17

(* The memories keep a word for every ciphertext of both banks.            *)
LEMMA ShapeStep ==
  ASSUME MemoryShape, NEW word, EvalPath(word), BvPath(word) PROVE MemoryShape'
<1> DEFINE Shaped(memory) ==
             DOMAIN memory = Banks /\ \A bank \in Banks : DOMAIN memory[bank] = Ciphertexts
<1>1. ASSUME NEW memory, Shaped(memory), NEW at, NEW of, NEW value
      PROVE  Shaped([memory EXCEPT ![at][of] = value])
  <2> HIDE DEF Banks, Ciphertexts
  <2> DEFINE next == [memory EXCEPT ![at][of] = value]
  <2>1. DOMAIN next = Banks
    BY <1>1
  <2>2. \A bank \in Banks : bank # at => next[bank] = memory[bank]
    BY <1>1
  <2>3. at \in Banks => next[at] = [memory[at] EXCEPT ![of] = value]
    BY <1>1
  <2>4. at \in Banks => DOMAIN next[at] = DOMAIN memory[at]
    BY <2>3
  <2> HIDE DEF next
  <2>5. Shaped(next)
    BY <1>1, <2>1, <2>2, <2>4
  <2> QED BY <2>5 DEF next
<1>2. Shaped(c0_memory) /\ Shaped(c1_memory) /\ Shaped(ks_b_memory) /\ Shaped(ks_a_memory)
  BY DEF MemoryShape
<1> HIDE DEF Shaped
<1>3. Shaped(c0_memory') /\ Shaped(c1_memory')
  <2>1. CASE eval_meta_pop
    <3>1. /\ c0_memory' = [c0_memory EXCEPT
              ![Head(eval_meta).bank][Head(eval_meta).ciphertext] = eval_result_c0]
          /\ c1_memory' = [c1_memory EXCEPT
              ![Head(eval_meta).bank][Head(eval_meta).ciphertext] = eval_result_c1]
      BY <2>1 DEF EvalPath
    <3> QED BY <1>1, <1>2, <3>1
  <2>2. CASE ~eval_meta_pop
    BY <1>2, <2>2 DEF EvalPath
  <2> QED BY <2>1, <2>2
<1>4. Shaped(ks_b_memory') /\ Shaped(ks_a_memory')
  <2>1. CASE bv_accum.valid
    <3>1. /\ ks_b_memory' = [ks_b_memory EXCEPT
              ![bv_accum.bank][bv_accum.ciphertext] =
                Accumulated(bv_accum.prior_b, bv_accum.result_b)]
          /\ ks_a_memory' = [ks_a_memory EXCEPT
              ![bv_accum.bank][bv_accum.ciphertext] =
                Accumulated(bv_accum.prior_a, bv_accum.result_a)]
      BY <2>1 DEF BvPath
    <3> QED BY <1>1, <1>2, <3>1
  <2>2. CASE ~bv_accum.valid
    BY <1>2, <2>2 DEF BvPath
  <2> QED BY <2>1, <2>2
<1> QED BY <1>3, <1>4 DEF MemoryShape, Shaped

(* Digits of a lone ciphertext stay two stages apart or more.              *)
LEMMA GapStep ==
  ASSUME FlowInv, CoreInv, GapInv, NEW word, NEW ready, GoodWord(word), Clock(word, ready)
  PROVE  GapInv'
<1>1. /\ InputInv /\ BvPath(word) /\ Protocol(word, ready) /\ MetadataInv
      /\ Latency \in Nat /\ Latency > 0
  BY CoreAssumption DEF FlowInv, CoreInv, Clock
<1>2. FlowInv'
  BY FlowStep
<1>3. PICK product : bv_pipe' = Shift(bv_pipe, product) /\ product.valid = bv_launch(word)
  <2> DEFINE launched ==
               [valid |-> TRUE,
                b |-> Product(word.value, bv_input.key_b, LoadedProfile),
                a |-> Product(word.value, bv_input.key_a, LoadedProfile)]
             entered == IF bv_launch(word) THEN launched ELSE NoProduct
  <2>1. bv_pipe' = Shift(bv_pipe, entered)
    BY <1>1 DEF BvPath
  <2>2. entered.valid = bv_launch(word)
    <3>1. bv_launch(word) \in BOOLEAN
      BY DEF bv_launch, Handshake, s_axis_tready
    <3> QED BY <3>1 DEF NoProduct
  <2> QED BY <2>1, <2>2
<1>4. \A stage \in 1..Latency :
        bv_pipe'[stage].valid =
          IF stage = 1 THEN bv_launch(word) ELSE bv_pipe[stage - 1].valid
  BY <1>1, <1>3 DEF Shift
<1>5. \A stage \in 1..Latency : bv_pipe'[stage].valid \in BOOLEAN
  <2>1. bv_launch(word) \in BOOLEAN
    BY DEF bv_launch, Handshake, s_axis_tready
  <2> QED BY <1>1, <1>4, <2>1 DEF GapInv
<1>6. bv_accum'.valid <=> bv_pipe[Latency].valid
  <2>1. "valid" \in DOMAIN bv_accum
    BY DEF FlowInv, BvInv, RestInv
  <2> QED BY <1>1, <2>1 DEF BvPath, bv_meta_pop
<1> DEFINE Gap ==
  /\ state = "COEFFICIENT_DIGITS" => ~bv_pipe[1].valid
  /\ \A stage \in 1..(Latency - 1) : ~(bv_pipe[stage].valid /\ bv_pipe[stage + 1].valid)
  /\ ~(bv_pipe[Latency].valid /\ bv_accum.valid)
<1>7. ASSUME state' \in Running, batch'.count = 1 PROVE Gap'
  <2>1. CASE state \in Running
    <3>1. ~Finishes(ready) /\ UNCHANGED batch
      BY <1>1, <1>7, <2>1, Advance DEF Running, Keying, InputDone, Finishes
    <3>2. Gap
      BY <1>7, <2>1, <3>1 DEF GapInv
    <3>3. bv_launch(word) => state' # "COEFFICIENT_DIGITS" /\ ~bv_pipe[1].valid
      <4> SUFFICES ASSUME bv_launch(word)
                   PROVE  state' # "COEFFICIENT_DIGITS" /\ ~bv_pipe[1].valid
        OBVIOUS
      <4>1. state = "COEFFICIENT_DIGITS" /\ Handshake(word)
        BY DEF bv_launch
      <4>2. final_bv_ciphertext
        BY <1>1, <1>7, <2>1, <3>1 DEF InputInv, final_bv_ciphertext
      <4>3. word.last <=> final_external_payload_word
        BY <2>1, <4>1 DEF GoodWord
      <4>4. AcceptDigit(word)
        BY <1>1, <4>1 DEF Protocol, AcceptCommand, AcceptModuli, AcceptReciprocals,
           AcceptCounts, AcceptOperand, AcceptKey, Discard, WaitBank, FinishBatch, Hold
      <4>5. word.last = final_external_payload_word \/ state' \in {"IDLE", "DISCARD"}
        BY <4>4 DEF AcceptDigit, Reject
      <4>6. state' # "COEFFICIENT_DIGITS"
        BY <4>2, <4>4, <4>5 DEF AcceptDigit, StartNextCoefficient, Goto
      <4> QED BY <3>2, <4>1, <4>6
    <3>4. state' = "COEFFICIENT_DIGITS" => ~bv_pipe'[1].valid
      BY <1>1, <1>4, <3>3
    <3>5. ASSUME NEW stage \in 1..(Latency - 1)
          PROVE  ~(bv_pipe'[stage].valid /\ bv_pipe'[stage + 1].valid)
      <4>1. bv_pipe'[stage + 1].valid = bv_pipe[stage].valid
        <5>1. stage + 1 \in 1..Latency /\ stage + 1 # 1 /\ (stage + 1) - 1 = stage
          BY <1>1
        <5> QED BY <1>4, <5>1
      <4>2. CASE stage = 1
        BY <1>1, <1>4, <3>3, <4>1, <4>2
      <4>3. CASE stage # 1
        <5>1. /\ stage \in 1..Latency /\ stage - 1 \in 1..(Latency - 1)
              /\ (stage - 1) + 1 = stage
          BY <1>1, <4>3
        <5> QED BY <1>4, <3>2, <4>1, <4>3, <5>1
      <4> QED BY <4>2, <4>3
    <3>6. ~(bv_pipe'[Latency].valid /\ bv_accum'.valid)
      <4>1. CASE Latency = 1
        BY <1>1, <1>4, <1>6, <3>3, <4>1
      <4>2. CASE Latency # 1
        <5>1. /\ Latency \in 1..Latency /\ Latency - 1 \in 1..(Latency - 1)
              /\ (Latency - 1) + 1 = Latency
          BY <1>1, <4>2
        <5> QED BY <1>4, <1>6, <3>2, <4>2, <5>1
      <4> QED BY <4>1, <4>2
    <3> QED BY <3>4, <3>5, <3>6
  <2>2. CASE state \notin Running
    <3>1. \A stage \in 1..Latency : ~bv_pipe[stage].valid
      <4>1. Len(bv_meta) = 0
        BY <2>2 DEF FlowInv, RestInv
      <4>2. Cardinality(InFlight(bv_pipe)) = 0 /\ IsFiniteSet(InFlight(bv_pipe))
        BY <1>1, <4>1, StagesFinite DEF MetadataInv, MetadataInStep
      <4>3. InFlight(bv_pipe) = {}
        BY <4>2, FS_EmptySet
      <4> QED BY <4>3 DEF InFlight
    <3>2. ~bv_launch(word)
      BY <2>2 DEF bv_launch, Running
    <3>3. \A stage \in 1..Latency : ~bv_pipe'[stage].valid
      BY <1>1, <1>4, <3>1, <3>2
    <3>4. Latency \in 1..Latency /\ 1 \in 1..Latency
          /\ 1..(Latency - 1) \subseteq 1..Latency
      BY <1>1
    <3> QED BY <3>3, <3>4
  <2> QED BY <2>1, <2>2
<1> QED BY <1>5, <1>7 DEF GapInv

-----------------------------------------------------------------------------
(* The sums of the key switch.                                             *)

(* Launches are numbered row by row: a number has one digit and ciphertext. *)
LEMMA RowOrder ==
  ASSUME batch.count \in Nat \ {0}, NEW d \in Nat, NEW e \in Nat,
         NEW x \in 0..(batch.count - 1), NEW y \in 0..(batch.count - 1)
  PROVE  /\ Row(d) \in Nat /\ Row(d + 1) = Row(d) + batch.count
         /\ d < e => Row(d) + batch.count <= Row(e)
         /\ Row(d) + x = Row(e) + y => d = e /\ x = y
<1> DEFINE c == batch.count
<1>1. \A i, j \in Nat : i < j => Row(i) \in Nat /\ Row(j) \in Nat /\ Row(i) + c <= Row(j)
  <2> SUFFICES ASSUME NEW i \in Nat, NEW j \in Nat, i < j
               PROVE  Row(i) \in Nat /\ Row(j) \in Nat /\ Row(i) + c <= Row(j)
    OBVIOUS
  <2>1. PICK m \in Nat : j = i + 1 + m
    <3>1. j - i - 1 \in Nat /\ j = i + 1 + (j - i - 1)
      OBVIOUS
    <3> QED BY <3>1
  <2>2. PICK rest : rest = m * c
    OBVIOUS
  <2>3. rest \in Nat
    BY <2>2
  <2>4. Row(j) = Row(i) + c + rest /\ Row(i) \in Nat
    BY <2>1, <2>2 DEF Row
  <2> QED BY <2>3, <2>4
<1>2. Row(d) \in Nat /\ Row(e) \in Nat /\ Row(d + 1) = Row(d) + c
  BY RowStep
<1>3. Row(d) + x = Row(e) + y => d = e
  <2> SUFFICES ASSUME Row(d) + x = Row(e) + y, d # e PROVE FALSE
    OBVIOUS
  <2>1. CASE d < e
    BY <1>1, <1>2, <2>1
  <2>2. CASE e < d
    BY <1>1, <1>2, <2>2
  <2> QED BY <2>1, <2>2
<1> QED BY <1>1, <1>2, <1>3

(* A digit's term makes the sum of its predecessors the next sum.          *)
LEMMA KeySumGrows ==
  ASSUME NEW id, NEW coefficient, NEW ciphertext, NEW d \in Nat, NEW component
  PROVE  /\ KeySum(id, coefficient, ciphertext, d, component)
              \o <<BvTerm(id, coefficient, d, ciphertext, component)>>
            = KeySum(id, coefficient, ciphertext, d + 1, component)
         /\ <<BvTerm(id, coefficient, 0, ciphertext, component)>>
            = KeySum(id, coefficient, ciphertext, 1, component)
<1> DEFINE term(i) == BvTerm(id, coefficient, i - 1, ciphertext, component)
           S == {term(i) : i \in 1..(d + 1)}
           sum(n) == [i \in 1..n |-> term(i)]
           last == BvTerm(id, coefficient, d, ciphertext, component)
<1>1. \A n : KeySum(id, coefficient, ciphertext, n, component) = sum(n)
  BY DEF KeySum
<1>2. last = term(d + 1) /\ last \in S
  <2>1. (d + 1) - 1 = d /\ d + 1 \in 1..(d + 1)
    OBVIOUS
  <2> QED BY <2>1
<1>3. \A i \in 1..(d + 1) : term(i) \in S
  OBVIOUS
<1>4. term(1) = BvTerm(id, coefficient, 0, ciphertext, component)
  <2>1. 1 - 1 = 0
    OBVIOUS
  <2> QED BY <2>1
<1> HIDE DEF term, S, last
<1>6. sum(d) \in Seq(S) /\ Len(sum(d)) = d /\ DOMAIN sum(d) = 1..d
  BY <1>3
<1>7. sum(d + 1) \in Seq(S) /\ Len(sum(d + 1)) = d + 1
  BY <1>3
<1>8. <<last>> \in Seq(S) /\ Len(<<last>>) = 1 /\ <<last>>[1] = last
  BY <1>2
<1>9. /\ sum(d) \o <<last>> \in Seq(S) /\ Len(sum(d) \o <<last>>) = d + 1
      /\ \A i \in 1..(d + 1) :
           (sum(d) \o <<last>>)[i] = IF i <= d THEN sum(d)[i] ELSE <<last>>[i - d]
  BY <1>6, <1>8, ConcatProperties
<1>10. \A i \in 1..(d + 1) : (sum(d) \o <<last>>)[i] = sum(d + 1)[i]
  <2> SUFFICES ASSUME NEW i \in 1..(d + 1) PROVE (sum(d) \o <<last>>)[i] = sum(d + 1)[i]
    OBVIOUS
  <2>1. CASE i <= d
    <3>1. i \in 1..d
      BY <2>1
    <3> QED BY <1>9, <2>1, <3>1
  <2>2. CASE ~(i <= d)
    <3>1. i = d + 1 /\ i - d = 1
      BY <2>2
    <3> QED BY <1>2, <1>8, <1>9, <2>2, <3>1
  <2> QED BY <2>1, <2>2
<1>11. sum(d) \o <<last>> = sum(d + 1)
  <2> HIDE DEF sum
  <2> QED BY <1>7, <1>9, <1>10, SeqEqual
<1>12. <<term(1)>> = sum(1)
  OBVIOUS
<1> HIDE DEF sum
<1> QED BY <1>1, <1>4, <1>11, <1>12 DEF last

(* Where a product that leaves its multiplier, or is held in the           *)
(* accumulator, belongs: its bank is filling and it is the next to land.   *)
LEMMA BvResult ==
  ASSUME FlowInv, CoreInv, state \in Running
  PROVE  LET entry == bv_meta[1]
             held  == IF bv_accum.valid THEN 1 ELSE 0
         IN
         /\ \A bank \in Banks : BankLanded(bank) \in Int
         /\ bv_meta_pop =>
              /\ entry = Head(bv_meta) /\ 1 \in 1..Len(bv_meta)
              /\ entry.bank \in Banks /\ bank_occupied[entry.bank]
              /\ entry.digit \in 0..(batch.digits - 1)
              /\ entry.ciphertext \in 0..(batch.count - 1)
              /\ Row(entry.digit) + entry.ciphertext = BankLanded(entry.bank) + held
         /\ bv_accum.valid =>
              /\ bv_accum.bank \in Banks /\ bank_occupied[bv_accum.bank]
              /\ bv_accum.digit \in 0..(batch.digits - 1)
              /\ bv_accum.ciphertext \in 0..(batch.count - 1)
              /\ Row(bv_accum.digit) + bv_accum.ciphertext = BankLanded(bv_accum.bank)
              /\ \A bank \in Banks \ {bv_accum.bank} :
                   BankLanded(bank) < 0 \/ BankLanded(bank) >= AllRows
<1> DEFINE entry == bv_meta[1]
           held  == IF bv_accum.valid THEN 1 ELSE 0
           base  == BvLaunched - Len(bv_meta)
<1>1. /\ batch.count \in Nat \ {0} /\ batch.digits \in Nat \ {0} /\ compute_bank \in Banks
      /\ Len(bv_meta) \in Nat /\ AllRows \in Nat /\ BvLaunched \in 0..AllRows
      /\ BvLanded = base - held /\ BvLanded \in Int
  BY FlowNumbers
<1>2. PriorBank \in Banks /\ PriorBank # compute_bank
      /\ \A bank \in Banks : bank = compute_bank \/ bank = PriorBank
  BY <1>1, OtherBank
<1>3. /\ BvInv /\ bank_occupied[compute_bank] /\ MetadataInv
      /\ BvLanded < 0 => bank_occupied[PriorBank]
  BY DEF FlowInv, CoreInv, DrainInv, BvInv
<1>4. \A bank \in Banks : BankLanded(bank) \in Int
  BY <1>1 DEF BankLanded
<1>5. held \in 0..1
  OBVIOUS
<1>6. ASSUME bv_meta_pop
      PROVE  /\ entry = Head(bv_meta) /\ 1 \in 1..Len(bv_meta)
             /\ entry.bank \in Banks /\ bank_occupied[entry.bank]
             /\ entry.digit \in 0..(batch.digits - 1)
             /\ entry.ciphertext \in 0..(batch.count - 1)
             /\ Row(entry.digit) + entry.ciphertext = BankLanded(entry.bank) + held
  <2>1. PICK S : bv_meta \in Seq(S)
    BY <1>3 DEF MetadataInv
  <2>2. Len(bv_meta) > 0
    BY <1>3, <1>6, EntryForResult DEF MetadataInv, MetadataInStep, bv_meta_pop
  <2>3. entry = Head(bv_meta) /\ 1 \in 1..Len(bv_meta)
    BY <2>1, <2>2
  <2>4. BvEntryAt(entry, base)
    <3>1. BvEntryAt(bv_meta[1], base + 1 - 1)
      BY <1>3, <2>3 DEF BvInv
    <3> QED BY <1>1, <3>1
  <2>5. CASE base < 0
    <3>1. entry.bank = PriorBank /\ Row(entry.digit) + entry.ciphertext = base + AllRows
      BY <2>4, <2>5 DEF BvEntryAt
    <3>2. BankLanded(PriorBank) = BvLanded + AllRows /\ BvLanded < 0
      BY <1>1, <1>2, <2>5 DEF BankLanded
    <3>3. base + AllRows = BvLanded + AllRows + held
      BY <1>1
    <3> QED BY <1>2, <1>3, <2>3, <2>4, <3>1, <3>2, <3>3 DEF BvEntryAt
  <2>6. CASE ~(base < 0)
    <3>1. entry.bank = compute_bank /\ Row(entry.digit) + entry.ciphertext = base
      BY <2>4, <2>6 DEF BvEntryAt
    <3>2. BankLanded(compute_bank) = BvLanded /\ base = BvLanded + held
      BY <1>1 DEF BankLanded
    <3> QED BY <1>1, <1>3, <2>3, <2>4, <3>1, <3>2 DEF BvEntryAt
  <2> QED BY <2>5, <2>6
<1>7. ASSUME bv_accum.valid
      PROVE  /\ bv_accum.bank \in Banks /\ bank_occupied[bv_accum.bank]
             /\ bv_accum.digit \in 0..(batch.digits - 1)
             /\ bv_accum.ciphertext \in 0..(batch.count - 1)
             /\ Row(bv_accum.digit) + bv_accum.ciphertext = BankLanded(bv_accum.bank)
             /\ \A bank \in Banks \ {bv_accum.bank} :
                  BankLanded(bank) < 0 \/ BankLanded(bank) >= AllRows
  <2>1. BvEntryAt(bv_accum, BvLanded)
    BY <1>3, <1>7 DEF BvInv
  <2>2. CASE BvLanded < 0
    <3>1. /\ bv_accum.bank = PriorBank
          /\ Row(bv_accum.digit) + bv_accum.ciphertext = BvLanded + AllRows
      BY <2>1, <2>2 DEF BvEntryAt
    <3>2. BankLanded(PriorBank) = BvLanded + AllRows /\ BankLanded(compute_bank) < 0
      BY <1>2, <2>2 DEF BankLanded
    <3> QED BY <1>2, <1>3, <2>1, <2>2, <3>1, <3>2 DEF BvEntryAt
  <2>3. CASE ~(BvLanded < 0)
    <3>1. /\ bv_accum.bank = compute_bank
          /\ Row(bv_accum.digit) + bv_accum.ciphertext = BvLanded
      BY <2>1, <2>3 DEF BvEntryAt
    <3>2. BankLanded(compute_bank) = BvLanded
          /\ BankLanded(PriorBank) = BvLanded + AllRows
      BY <1>2 DEF BankLanded
    <3>3. BankLanded(PriorBank) >= AllRows
      BY <1>1, <2>3, <3>2
    <3> QED BY <1>1, <1>2, <1>3, <2>1, <3>1, <3>2, <3>3 DEF BvEntryAt
  <2> QED BY <2>2, <2>3
<1> QED BY <1>4, <1>6, <1>7

(* The accumulator holds the product that left its multiplier and the sum  *)
(* it is to be added to: the digit before it has landed already, and its   *)
(* own has not.                                                            *)
LEMMA AccumStep ==
  ASSUME FlowInv, CoreInv, GapInv, NEW word, NEW ready, GoodWord(word), Clock(word, ready),
         state \in Running, ~Finishes(ready),
         NEW id, InOrder(bv_pipe, BvDue(id)), BvMemoryInv(id)
  PROVE  AccumInv(id)'
<1> DEFINE held == IF bv_accum.valid THEN 1 ELSE 0
<1>1. /\ BvPath(word) /\ UNCHANGED <<batch, profile>>
      /\ batch.count \in Nat \ {0} /\ batch.digits \in Nat \ {0}
      /\ "valid" \in DOMAIN bv_accum
  BY BatchStep DEF Clock, FlowInv, BvInv
<1>2. SUFFICES ASSUME bv_meta_pop PROVE AccumInv(id)'
  BY <1>1 DEF AccumInv, BvPath
<1>3. PICK b \in Banks, d \in 0..(batch.digits - 1), x \in 0..(batch.count - 1) :
        /\ b = bv_meta[1].bank /\ d = bv_meta[1].digit /\ x = bv_meta[1].ciphertext
        /\ bv_meta[1] = Head(bv_meta) /\ 1 \in 1..Len(bv_meta)
        /\ bank_occupied[b] /\ Row(d) + x = BankLanded(b) + held
        /\ BankLanded(b) \in Int
  BY <1>2, BvResult
<1> DEFINE coefficient == CoefficientOf(b)
<1>4. bv_accum' =
        [valid |-> TRUE, bank |-> b, digit |-> d, ciphertext |-> x,
         result_b |-> bv_pipe[Latency].b, result_a |-> bv_pipe[Latency].a,
         prior_b |-> ks_b_memory[b][x], prior_a |-> ks_a_memory[b][x]]
  BY <1>1, <1>2, <1>3 DEF BvPath
<1>5. coefficient' = coefficient
  BY <1>3, TargetBanks, CoefficientKept
<1>6. bv_pipe[Latency] = BvProduct(id, coefficient, d, x)
  <2>1. bv_pipe[Latency] = BvDue(id)[1]
    BY <1>2, FirstDue DEF bv_meta_pop
  <2> QED BY <1>3, <2>1 DEF BvDue
<1>7. d > 0 => /\ ks_b_memory[b][x] = KeySum(id, coefficient, x, d, 0)
               /\ ks_a_memory[b][x] = KeySum(id, coefficient, x, d, 1)
  <2> SUFFICES ASSUME d > 0
               PROVE  /\ ks_b_memory[b][x] = KeySum(id, coefficient, x, d, 0)
                      /\ ks_a_memory[b][x] = KeySum(id, coefficient, x, d, 1)
    OBVIOUS
  <2>1. PICK e \in 0..(batch.digits - 1) : e + 1 = d
    <3>1. d - 1 \in 0..(batch.digits - 1) /\ (d - 1) + 1 = d
      BY <1>1
    <3> QED BY <3>1
  <2>2. Row(e) \in Nat /\ Row(d) = Row(e) + batch.count
    BY <1>1, <2>1, RowStep
  <2>3. held = 0 \/ batch.count >= 2
    <3>1. batch.count = 1 => ~(bv_pipe[Latency].valid /\ bv_accum.valid)
      BY DEF GapInv
    <3> QED BY <1>1, <1>2, <3>1 DEF bv_meta_pop
  <2>4. held \in 0..1
    OBVIOUS
  <2> HIDE DEF held
  <2>5. Row(e) + x < BankLanded(b) /\ BankLanded(b) <= Row(e + 1) + x
    <3>1. PICK landed : landed = BankLanded(b)
      OBVIOUS
    <3>2. PICK row : row = Row(e)
      OBVIOUS
    <3>3. landed \in Int /\ row \in Nat /\ row + batch.count + x = landed + held
      BY <1>3, <2>2, <3>1, <3>2
    <3>4. row + x < landed /\ landed <= row + batch.count + x
      BY <1>1, <2>3, <2>4, <3>3
    <3> QED BY <2>1, <2>2, <3>1, <3>2, <3>4
  <2>6. /\ ks_b_memory[b][x] = KeySum(id, coefficient, x, e + 1, 0)
        /\ ks_a_memory[b][x] = KeySum(id, coefficient, x, e + 1, 1)
    BY <1>3, <2>5 DEF BvMemoryInv
  <2> QED BY <2>1, <2>6
<1>8. /\ BvProduct(id, coefficient, d, x)' = BvProduct(id, coefficient, d, x)
      /\ \A component : KeySum(id, coefficient, x, d, component)'
                          = KeySum(id, coefficient, x, d, component)
  BY <1>1, <1>5 DEF BvProduct, KeySum, BvTerm, Times, LoadedProfile, DigitIndex, KeyIndex,
     CoefficientWords
<1>9. /\ CoefficientOf(bv_accum.bank)' = coefficient'
      /\ bv_accum'.digit = d /\ bv_accum'.ciphertext = x
      /\ bv_accum'.result_b = bv_pipe[Latency].b /\ bv_accum'.result_a = bv_pipe[Latency].a
      /\ bv_accum'.prior_b = ks_b_memory[b][x] /\ bv_accum'.prior_a = ks_a_memory[b][x]
  BY <1>4 DEF CoefficientOf
<1> HIDE DEF coefficient
<1> QED BY <1>6, <1>7, <1>8, <1>9 DEF AccumInv


(* What has landed in a bank counts the product the accumulator held, if   *)
(* it was that bank's, and a bank newly taken has had nothing land in it.  *)
LEMMA LandedStep ==
  ASSUME FlowInv, CoreInv, NEW word, NEW ready, GoodWord(word), Clock(word, ready),
         state \in Running, ~Finishes(ready), NEW bank \in Banks
  PROVE  /\ BankLanded(bank) \in Int /\ BankLanded(bank)' \in Int
         /\ Starts(word) /\ bank = PriorBank => BankLanded(bank)' <= 0
         /\ ~(Starts(word) /\ bank = PriorBank) =>
              BankLanded(bank)' = BankLanded(bank) + (IF bv_accum.valid THEN 1 ELSE 0)
<1> DEFINE held  == IF bv_accum.valid THEN 1 ELSE 0
           shift == IF Starts(word) THEN AllRows ELSE 0
<1>1. /\ UNCHANGED batch /\ PriorBank # compute_bank
      /\ bank = compute_bank \/ bank = PriorBank
      /\ Starts(word) => compute_bank' = PriorBank
      /\ ~Starts(word) => compute_bank' = compute_bank
      /\ AllRows \in Nat /\ BvLanded \in Int
      /\ BvLanded' = BvLanded + held - shift
  BY BatchStep
<1>2. /\ BvLaunched \in 0..AllRows /\ Len(bv_meta) \in Nat
      /\ BvLanded = BvLaunched - Len(bv_meta) - held
  BY FlowNumbers
<1>3. held \in 0..1
  OBVIOUS
<1>4. AllRows' = AllRows
  BY <1>1 DEF AllRows, Row
<1>5. BankLanded(bank)' = IF bank = compute_bank' THEN BvLanded' ELSE BvLanded' + AllRows
  BY <1>4 DEF BankLanded
<1>6. BankLanded(bank) = IF bank = compute_bank THEN BvLanded ELSE BvLanded + AllRows
  BY DEF BankLanded
<1>7. CASE Starts(word)
  <2>1. shift = AllRows
    BY <1>7
  <2>2. BvLanded' <= 0
    <3> HIDE DEF held, shift
    <3> QED BY <1>1, <1>2, <1>3, <2>1
  <2> HIDE DEF held, shift
  <2>3. BvLanded' \in Int /\ BvLanded' + AllRows = BvLanded + held
    BY <1>1, <1>3, <2>1
  <2>4. BankLanded(bank) \in Int
    BY <1>1, <1>6
  <2>5. CASE bank = PriorBank
    <3>1. BankLanded(bank)' = BvLanded'
      BY <1>1, <1>5, <1>7, <2>5
    <3> QED BY <1>7, <2>2, <2>3, <2>4, <2>5, <3>1
  <2>6. CASE bank # PriorBank
    <3>1. bank = compute_bank /\ bank # compute_bank'
      BY <1>1, <1>7, <2>6
    <3>2. BankLanded(bank)' = BvLanded' + AllRows /\ BankLanded(bank) = BvLanded
      BY <1>5, <1>6, <3>1
    <3>3. BankLanded(bank)' = BankLanded(bank) + held /\ BankLanded(bank)' \in Int
      BY <1>1, <1>3, <2>3, <3>2
    <3> QED BY <2>4, <2>6, <3>3 DEF held
  <2> QED BY <2>5, <2>6
<1>8. CASE ~Starts(word)
  <2>1. shift = 0
    BY <1>8
  <2> HIDE DEF held, shift
  <2>2. BvLanded' = BvLanded + held /\ compute_bank' = compute_bank
    BY <1>1, <1>3, <1>8, <2>1
  <2>3. BankLanded(bank)' = BankLanded(bank) + held
    <3>1. BankLanded(bank)' = IF bank = compute_bank THEN BvLanded + held
                              ELSE BvLanded + held + AllRows
      BY <1>5, <2>2
    <3> QED BY <1>1, <1>3, <1>6, <3>1
  <2>4. BankLanded(bank) \in Int
    BY <1>1, <1>6
  <2> QED BY <1>3, <1>8, <2>3, <2>4 DEF held
<1> QED BY <1>7, <1>8

(* The sum the accumulator writes.                                         *)
LEMMA SumWritten ==
  ASSUME FlowInv, CoreInv, state \in Running, bv_accum.valid, profile.q = profile.mu,
         NEW id, AccumInv(id)
  PROVE  LET coefficient == CoefficientOf(bv_accum.bank)
             sum(component) ==
               KeySum(id, coefficient, bv_accum.ciphertext, bv_accum.digit + 1, component)
         IN /\ Accumulated(bv_accum.prior_b, bv_accum.result_b) = sum(0)
            /\ Accumulated(bv_accum.prior_a, bv_accum.result_a) = sum(1)
<1> DEFINE b == bv_accum.bank
           d == bv_accum.digit
           x == bv_accum.ciphertext
           coefficient == CoefficientOf(b)
           before(component) == KeySum(id, coefficient, x, d, component)
           term(component)   == BvTerm(id, coefficient, d, x, component)
           sum(component)    == KeySum(id, coefficient, x, d + 1, component)
<1>1. d \in Nat /\ d >= 0
  <2>1. d \in 0..(batch.digits - 1)
    BY BvResult
  <2> QED BY <2>1, FlowNumbers
<1>2. /\ bv_accum.result_b = term(0) /\ bv_accum.result_a = term(1)
      /\ d > 0 => bv_accum.prior_b = before(0) /\ bv_accum.prior_a = before(1)
  BY DEF AccumInv, BvProduct
<1>3. LoadedProfile = profile.q
  BY DEF LoadedProfile
<1>4. \A component : term(component).q = profile.q
  BY <1>3 DEF BvTerm, Times, Product
<1>5. \A component :
        /\ before(component) \o <<term(component)>> = sum(component)
        /\ d = 0 => <<term(component)>> = sum(component)
        /\ \A i \in DOMAIN before(component) : before(component)[i].q = profile.q
  <2> SUFFICES ASSUME NEW component
               PROVE  /\ before(component) \o <<term(component)>> = sum(component)
                      /\ d = 0 => <<term(component)>> = sum(component)
                      /\ \A i \in DOMAIN before(component) :
                           before(component)[i].q = profile.q
    OBVIOUS
  <2> HIDE DEF coefficient, d, x
  <2>1. before(component) \o <<term(component)>> = sum(component)
    BY <1>1, KeySumGrows
  <2>2. <<BvTerm(id, coefficient, 0, x, component)>> = KeySum(id, coefficient, x, 1, component)
    <3>1. 0 \in Nat
      OBVIOUS
    <3> QED BY <3>1, KeySumGrows
  <2>3. d = 0 => <<term(component)>> = sum(component)
    <3>1. 0 + 1 = 1
      OBVIOUS
    <3> QED BY <2>2, <3>1
  <2>4. \A i \in DOMAIN before(component) : before(component)[i].q = LoadedProfile
    BY DEF KeySum, BvTerm, Times, Product
  <2> QED BY <1>3, <2>1, <2>3, <2>4
<1> HIDE DEF before, term, sum
<1>6. \A component : AddMod(before(component), <<term(component)>>, profile.q) = sum(component)
  <2> SUFFICES ASSUME NEW component
               PROVE  AddMod(before(component), <<term(component)>>, profile.q) = sum(component)
    OBVIOUS
  <2>1. \A i \in DOMAIN <<term(component)>> : <<term(component)>>[i].q = profile.q
    BY <1>4
  <2>2. AddMod(before(component), <<term(component)>>, profile.q)
          = before(component) \o <<term(component)>>
    BY <1>5, <2>1 DEF AddMod
  <2> QED BY <1>5, <2>2
<1>7. /\ Accumulated(bv_accum.prior_b, bv_accum.result_b) = sum(0)
      /\ Accumulated(bv_accum.prior_a, bv_accum.result_a) = sum(1)
  <2>1. CASE d = 0
    BY <1>2, <1>5, <2>1 DEF Accumulated
  <2>2. CASE d # 0
    <3>1. d > 0
      BY <1>1, <2>2
    <3> QED BY <1>2, <1>6, <2>2, <3>1 DEF Accumulated
  <2> QED BY <2>1, <2>2
<1> QED BY <1>7 DEF sum

(* The sums in memory follow what has landed.                              *)
LEMMA BvMemoryStep ==
  ASSUME FlowInv, CoreInv, NEW word, NEW ready, GoodWord(word), Clock(word, ready),
         state \in Running, ~Finishes(ready), profile.q = profile.mu, MemoryShape,
         NEW id, AccumInv(id), BvMemoryInv(id)
  PROVE  BvMemoryInv(id)'
<1>1. /\ BvPath(word) /\ UNCHANGED <<batch, profile>>
      /\ batch.count \in Nat \ {0} /\ batch.digits \in Nat \ {0}
      /\ \A bank \in Banks : bank_occupied'[bank] =>
           bank_occupied[bank] \/ (Starts(word) /\ bank = PriorBank)
  BY BatchStep DEF Clock
<1>2. \A k \in Nat : Row(k)' = Row(k) /\ Row(k) \in Nat
  BY <1>1 DEF Row
<1>3. SUFFICES ASSUME NEW bank \in Banks, bank_occupied'[bank],
                      NEW x \in 0..(batch.count - 1), NEW d \in 0..(batch.digits - 1),
                      Row(d) + x < BankLanded(bank)',
                      d + 1 = batch.digits \/ BankLanded(bank)' <= Row(d + 1) + x
               PROVE  /\ ks_b_memory'[bank][x] = KeySum(id, CoefficientOf(bank), x, d + 1, 0)'
                      /\ ks_a_memory'[bank][x] = KeySum(id, CoefficientOf(bank), x, d + 1, 1)'
  <2>1. /\ batch' = batch
        /\ \A k \in 0..(batch.digits - 1) : Row(k)' = Row(k) /\ Row(k + 1)' = Row(k + 1)
    BY <1>1 DEF Row
  <2> QED BY <2>1 DEF BvMemoryInv
<1>4. /\ d \in Nat /\ Row(d) \in Nat /\ Row(d + 1) = Row(d) + batch.count /\ x \in Nat
      /\ BankLanded(bank) \in Int /\ BankLanded(bank)' \in Int
      /\ d + 1 # batch.digits => Row(d + 1) + x \in Nat
  BY <1>1, LandedStep, RowStep
<1>5. ~(Starts(word) /\ bank = PriorBank)
  BY <1>3, <1>4, LandedStep
<1>6. /\ bank_occupied[bank]
      /\ BankLanded(bank)' = BankLanded(bank) + (IF bv_accum.valid THEN 1 ELSE 0)
  BY <1>1, <1>3, <1>5, LandedStep
<1>7. \A component : KeySum(id, CoefficientOf(bank), x, d + 1, component)'
                       = KeySum(id, CoefficientOf(bank), x, d + 1, component)
  <2>1. CoefficientOf(bank)' = CoefficientOf(bank)
    BY <1>5, CoefficientKept
  <2> QED BY <1>1, <2>1 DEF KeySum, BvTerm, Times, LoadedProfile, DigitIndex, KeyIndex,
          CoefficientWords
<1> DEFINE sum(component) == KeySum(id, CoefficientOf(bank), x, d + 1, component)
<1>8. SUFFICES ks_b_memory'[bank][x] = sum(0) /\ ks_a_memory'[bank][x] = sum(1)
  BY <1>7
<1>9. x \in Ciphertexts
  BY <1>1, CoreAssumption DEF Ciphertexts, FlowInv, InputInv
<1>10. CASE bv_accum.valid /\ bv_accum.bank = bank /\ bv_accum.ciphertext = x
  <2>1. PICK e \in Nat : /\ e = bv_accum.digit /\ e \in 0..(batch.digits - 1)
                         /\ Row(e) + x = BankLanded(bank)
    BY <1>10, BvResult
  <2>2. d = e
    <3>1. BankLanded(bank)' = Row(e) + x + 1 /\ Row(e) \in Nat
      BY <1>1, <1>2, <1>4, <1>6, <1>10, <2>1
    <3>2. ~(e < d)
      <4> SUFFICES ASSUME e < d PROVE FALSE
        OBVIOUS
      <4>1. Row(e) + batch.count <= Row(d)
        BY <1>1, <1>4, RowOrder
      <4> QED BY <1>1, <1>3, <1>4, <3>1, <4>1
    <3>3. ~(d < e)
      <4> SUFFICES ASSUME d < e PROVE FALSE
        OBVIOUS
      <4>1. d + 1 # batch.digits
        BY <1>1, <2>1
      <4>2. Row(d) + batch.count <= Row(e)
        BY <1>1, <1>4, RowOrder
      <4> QED BY <1>1, <1>3, <1>4, <3>1, <4>1, <4>2
    <3> QED BY <1>4, <3>2, <3>3
  <2>3. /\ Accumulated(bv_accum.prior_b, bv_accum.result_b) = sum(0)
        /\ Accumulated(bv_accum.prior_a, bv_accum.result_a) = sum(1)
    BY <1>10, <2>1, <2>2, SumWritten
  <2>4. /\ ks_b_memory'[bank][x] = Accumulated(bv_accum.prior_b, bv_accum.result_b)
        /\ ks_a_memory'[bank][x] = Accumulated(bv_accum.prior_a, bv_accum.result_a)
    <3> HIDE DEF Banks, Ciphertexts
    <3>1. /\ ks_b_memory' = [ks_b_memory EXCEPT
               ![bank][x] = Accumulated(bv_accum.prior_b, bv_accum.result_b)]
          /\ ks_a_memory' = [ks_a_memory EXCEPT
               ![bank][x] = Accumulated(bv_accum.prior_a, bv_accum.result_a)]
      BY <1>1, <1>10 DEF BvPath
    <3>2. /\ DOMAIN ks_b_memory = Banks /\ DOMAIN ks_b_memory[bank] = Ciphertexts
          /\ DOMAIN ks_a_memory = Banks /\ DOMAIN ks_a_memory[bank] = Ciphertexts
      BY DEF MemoryShape
    <3> QED BY <1>9, <3>1, <3>2
  <2> QED BY <2>3, <2>4
<1>11. CASE ~(bv_accum.valid /\ bv_accum.bank = bank /\ bv_accum.ciphertext = x)
  <2>1. ks_b_memory'[bank][x] = ks_b_memory[bank][x]
        /\ ks_a_memory'[bank][x] = ks_a_memory[bank][x]
    <3>1. CASE ~bv_accum.valid
      BY <1>1, <3>1 DEF BvPath
    <3>2. CASE bv_accum.valid
      <4>1. PICK at, of, valueB, valueA :
              /\ ~(at = bank /\ of = x)
              /\ ks_b_memory' = [ks_b_memory EXCEPT ![at][of] = valueB]
              /\ ks_a_memory' = [ks_a_memory EXCEPT ![at][of] = valueA]
        <5>1. /\ ks_b_memory' = [ks_b_memory EXCEPT
                   ![bv_accum.bank][bv_accum.ciphertext] =
                     Accumulated(bv_accum.prior_b, bv_accum.result_b)]
              /\ ks_a_memory' = [ks_a_memory EXCEPT
                   ![bv_accum.bank][bv_accum.ciphertext] =
                     Accumulated(bv_accum.prior_a, bv_accum.result_a)]
          BY <1>1, <3>2 DEF BvPath
        <5>2. ~(bv_accum.bank = bank /\ bv_accum.ciphertext = x)
          BY <1>11, <3>2
        <5> QED BY <5>1, <5>2
      <4>2. /\ DOMAIN ks_b_memory = Banks /\ DOMAIN ks_b_memory[bank] = Ciphertexts
            /\ DOMAIN ks_a_memory = Banks /\ DOMAIN ks_a_memory[bank] = Ciphertexts
        BY DEF MemoryShape
      <4> HIDE DEF Banks, Ciphertexts
      <4> QED BY <1>9, <4>1, <4>2
    <3> QED BY <3>1, <3>2
  <2>2. Row(d) + x < BankLanded(bank)
    <3>1. CASE ~bv_accum.valid
      BY <1>3, <1>4, <1>6, <3>1
    <3>2. CASE bv_accum.valid /\ bv_accum.bank # bank
      <4>1. BankLanded(bank) < 0 \/ BankLanded(bank) >= AllRows
        BY <3>2, BvResult
      <4>2. Row(d) + x < AllRows /\ AllRows \in Nat
        <5>1. Row(d) <= FinalRow /\ AllRows = FinalRow + batch.count /\ FinalRow \in Nat
          BY <1>1, RowLimits
        <5> QED BY <1>1, <1>4, <5>1
      <4>3. BankLanded(bank)' = BankLanded(bank) + 1
        BY <1>6, <3>2
      <4> QED BY <1>3, <1>4, <4>1, <4>2, <4>3
    <3>3. CASE bv_accum.valid /\ bv_accum.bank = bank
      <4>1. PICK e \in Nat, y \in 0..(batch.count - 1) :
              /\ y = bv_accum.ciphertext /\ Row(e) + y = BankLanded(bank)
        <5>1. /\ bv_accum.digit \in 0..(batch.digits - 1)
              /\ bv_accum.ciphertext \in 0..(batch.count - 1)
              /\ Row(bv_accum.digit) + bv_accum.ciphertext = BankLanded(bank)
          BY <3>3, BvResult
        <5> QED BY <1>1, <5>1
      <4>2. y # x
        BY <1>11, <3>3, <4>1
      <4>3. Row(d) + x # BankLanded(bank)
        BY <1>1, <1>4, <4>1, <4>2, RowOrder
      <4> QED BY <1>3, <1>4, <1>6, <4>3
    <3> QED BY <3>1, <3>2, <3>3
  <2>3. d + 1 = batch.digits \/ BankLanded(bank) <= Row(d + 1) + x
    BY <1>1, <1>3, <1>4, <1>6
  <2>4. ks_b_memory[bank][x] = sum(0) /\ ks_a_memory[bank][x] = sum(1)
    BY <1>6, <2>2, <2>3 DEF BvMemoryInv
  <2> QED BY <2>1, <2>4
<1> QED BY <1>10, <1>11

-----------------------------------------------------------------------------
(* The data of a batch, at every clock.                                    *)

(* While a batch is under way every clock keeps its data.                  *)
LEMMA DataStep ==
  ASSUME FlowInv, CoreInv, NEW word, NEW ready, GoodWord(word), Clock(word, ready),
         state \in Running, ~Finishes(ready),
         NEW id, DataInv(id), GoodPayload(id, word)
  PROVE  DataInv(id)'
<1>1. MemoryShape' /\ GapInv'
  BY ShapeStep, GapStep DEF DataInv, Clock
<1>2. UNCHANGED profile
  BY BatchStep
<1>3. ASSUME profile.q = profile.mu
      PROVE  /\ OperandInv(id)'
             /\ InOrder(eval_pipe, EvalDue(id))' /\ InOrder(bv_pipe, BvDue(id))'
             /\ EvalMemoryInv(id)'
             /\ AccumInv(id)' /\ BvMemoryInv(id)'
  <2>1. /\ MemoryShape /\ GapInv /\ OperandInv(id)
        /\ InOrder(eval_pipe, EvalDue(id)) /\ InOrder(bv_pipe, BvDue(id))
        /\ EvalMemoryInv(id) /\ AccumInv(id) /\ BvMemoryInv(id)
    BY <1>3 DEF DataInv
  <2>2. OperandInv(id)'
    BY <2>1, OperandStep
  <2>3. InOrder(eval_pipe, EvalDue(id))'
    BY <2>1, EvalOrderStep
  <2>4. InOrder(bv_pipe, BvDue(id))'
    BY <2>1, BvOrderStep
  <2>5. EvalMemoryInv(id)'
    BY <1>3, <2>1, EvalMemoryStep
  <2>6. AccumInv(id)'
    BY <2>1, AccumStep
  <2>7. BvMemoryInv(id)'
    BY <1>3, <2>1, BvMemoryStep
  <2> QED BY <2>2, <2>3, <2>4, <2>5, <2>6, <2>7
<1> QED BY <1>1, <1>2, <1>3 DEF DataInv

(* A batch begins with nothing of an earlier one on its way or in a bank   *)
(* it owns.                                                                *)
LEMMA DataBegins ==
  ASSUME FlowInv, CoreInv, NEW word, NEW ready, GoodWord(word), Clock(word, ready),
         MemoryShape, GapInv, state \notin Running \/ Finishes(ready), NEW id
  PROVE  DataInv(id)'
<1>1. MemoryShape' /\ GapInv'
  BY ShapeStep, GapStep DEF Clock
<1>2. SUFFICES ASSUME state' \in Running
               PROVE  /\ OperandInv(id)'
                      /\ InOrder(eval_pipe, EvalDue(id))' /\ InOrder(bv_pipe, BvDue(id))'
                      /\ EvalMemoryInv(id)'
                      /\ AccumInv(id)' /\ BvMemoryInv(id)'
  BY <1>1 DEF DataInv
<1>3. /\ InputInv /\ MetadataInv /\ MetadataInv' /\ BankInv /\ FlowInv' /\ InputInv'
      /\ EvalPath(word) /\ BvPath(word) /\ Protocol(word, ready)
      /\ BankOwnership(word, ready)
  BY FlowStep, CoreStep DEF FlowInv, CoreInv, Clock
<1>4. state \notin Running /\ RestInv
  <2>1. CASE state \in Running /\ Finishes(ready)
    <3>1. state' = "IDLE"
      BY <1>3, <2>1, FinishStep DEF FlowInv
    <3> QED BY <1>2, <3>1 DEF Running, Keying, InputDone
  <2> QED BY <2>1 DEF FlowInv
<1>5. state \in Idling
  BY <1>3, <1>4 DEF InputInv
<1>6. accepted_batch_header(word)
  <2>1. state' \in Idling => state' \notin Running
    BY DEF Idling, Running, Keying, InputDone
  <2> QED BY <1>2, <1>3, <1>4, <1>5, <2>1, RestStep
<1>7. /\ state' = "COEFFICIENT_EVAL" /\ compute_bank' = 0 /\ eval_input'.phase = 0
  <2>1. Handshake(word) /\ state = "BATCH_HEADER" /\ ~word.last /\ ValidCounts(word)
    BY <1>6 DEF accepted_batch_header
  <2> QED BY <1>3, <2>1 DEF Protocol, AcceptCommand, AcceptModuli, AcceptReciprocals,
          AcceptCounts, AcceptOperand, AcceptKey, AcceptDigit, Discard, WaitBank,
          FinishBatch, Hold, Goto, RestartInput, InputInv
<1>8. eval_meta' = <<>> /\ bv_meta' = <<>> /\ ~bv_accum'.valid
  BY <1>3, <1>4, <1>5, QueuesStayEmpty DEF RestInv, Idling
<1>9. \A stage \in 1..Latency : ~eval_pipe'[stage].valid /\ ~bv_pipe'[stage].valid
  <2>1. /\ Cardinality(InFlight(eval_pipe')) = 0 /\ IsFiniteSet(InFlight(eval_pipe'))
        /\ Cardinality(InFlight(bv_pipe')) = 0 /\ IsFiniteSet(InFlight(bv_pipe'))
    <3>1. Len(eval_meta') = 0 /\ Len(bv_meta') = 0
      BY <1>8
    <3>2. /\ Len(eval_meta') = Cardinality(InFlight(eval_pipe'))
          /\ Len(bv_meta') = Cardinality(InFlight(bv_pipe'))
      BY <1>3 DEF MetadataInv, MetadataInStep, InFlight
    <3> QED BY <3>1, <3>2, StagesFinite
  <2>2. InFlight(eval_pipe') = {} /\ InFlight(bv_pipe') = {}
    BY <2>1, FS_EmptySet
  <2> QED BY <2>2 DEF InFlight
<1>10. \A bank \in Banks : /\ eval_result_count'[bank] = 0
                           /\ bank_occupied'[bank] => bank = 0
  <2>1. \A bank \in Banks : eval_result_count'[bank] = 0
    BY <1>3, <1>6 DEF EvalPath, Counted
  <2>2. bank_occupied' = [bank \in Banks |-> bank = 0]
    BY <1>3, <1>6 DEF BankOwnership
  <2>3. \A bank \in Banks : bank_occupied'[bank] => bank = 0
    BY <2>2, Zenon
  <2> QED BY <2>1, <2>3
<1>11. OperandInv(id)'
  BY <1>7 DEF OperandInv
<1>12. InOrder(eval_pipe, EvalDue(id))' /\ InOrder(bv_pipe, BvDue(id))'
  BY <1>9 DEF InOrder
<1>13. EvalMemoryInv(id)'
  <2>1. \A bank \in Banks : 0..(eval_result_count'[bank] - 1) = {}
    BY <1>10
  <2> QED BY <2>1 DEF EvalMemoryInv
<1>14. AccumInv(id)'
  BY <1>8 DEF AccumInv
<1>15. BvMemoryInv(id)'
  <2>1. batch'.count \in Nat
    BY <1>2, <1>3, CoreAssumption DEF InputInv
  <2>2. BankLanded(0)' <= 0 /\ BankLanded(0)' \in Int
    <3>1. BvLaunched' = 0 /\ Len(bv_meta') = 0
      BY <1>7, <1>8 DEF BvLaunched, Keying
    <3>2. BvLanded' = BvLaunched' - Len(bv_meta') - (IF bv_accum'.valid THEN 1 ELSE 0)
      BY DEF BvLanded
    <3>3. BankLanded(0)' = BvLanded'
      BY <1>7 DEF BankLanded
    <3>4. BvLanded' = 0
      <4>1. (IF bv_accum'.valid THEN 1 ELSE 0) = 0
        BY <1>8
      <4>2. \A k : k = 0 => 0 - 0 - k = 0
        OBVIOUS
      <4> QED BY <3>1, <3>2, <4>1, <4>2
    <3> QED BY <3>3, <3>4
  <2>3. \A k \in 0..(batch'.digits - 1), x \in 0..(batch'.count - 1) :
          Row(k)' + x \in Nat
    BY <2>1 DEF Row
  <2>4. ASSUME NEW bank \in Banks, bank_occupied'[bank],
               NEW x \in 0..(batch'.count - 1), NEW k \in 0..(batch'.digits - 1)
        PROVE  ~(Row(k)' + x < BankLanded(bank)')
    <3>1. bank = 0
      BY <1>10, <2>4
    <3> QED BY <2>2, <2>3, <3>1
  <2> QED BY <2>4 DEF BvMemoryInv
<1> QED BY <1>11, <1>12, <1>13, <1>14, <1>15

(* The data of no batch: after reset_n, and whenever the core rests.       *)
LEMMA DataStarts ==
  /\ CoreInit => \A id : DataInv(id)
  /\ MemoryShape /\ CoreReset => \A id : DataInv(id)'
<1>1. "IDLE" \notin Running
  BY DEF Running, Keying, InputDone
<1>2. \A stage \in 1..Latency : EmptyPipe[stage].valid \in BOOLEAN
  BY DEF EmptyPipe, NoProduct
<1>3. ASSUME CoreInit, NEW id PROVE DataInv(id)
  <2>1. MemoryShape
    <3>1. /\ c0_memory = Uninitialised /\ c1_memory = Uninitialised
          /\ ks_b_memory = Uninitialised /\ ks_a_memory = Uninitialised
      BY <1>3 DEF CoreInit
    <3> QED BY <3>1 DEF MemoryShape, Uninitialised
  <2> QED BY <1>1, <1>2, <1>3, <2>1 DEF CoreInit, DataInv, GapInv
<1>4. ASSUME MemoryShape, CoreReset, NEW id PROVE DataInv(id)'
  <2>1. MemoryShape'
    BY <1>4 DEF CoreReset, MemoryShape
  <2> QED BY <1>1, <1>2, <1>4, <2>1 DEF CoreReset, DataInv, GapInv
<1> QED BY <1>3, <1>4

(* A clock in which the core does nothing keeps its data.                  *)
LEMMA DataRests == ASSUME NEW id, DataInv(id), UNCHANGED coreVars PROVE DataInv(id)'
<1>1. /\ UNCHANGED <<state, profile, batch, coefficient_index, compute_bank, eval_input,
                     bv_input, bank_occupied, eval_meta, eval_pipe, eval_result_count>>
      /\ UNCHANGED <<c0_memory, c1_memory, bv_meta, bv_pipe, bv_accum, ks_b_memory,
                     ks_a_memory>>
  BY DEF coreVars, protocolVars, bankVars, outputVars, evalVars, bvVars
<1>2. MemoryShape' = MemoryShape /\ GapInv' = GapInv
  BY <1>1 DEF MemoryShape, GapInv
<1>3. OperandInv(id)' = OperandInv(id)
  BY <1>1 DEF OperandInv, OperandIndex, KeyIndex, CoefficientWords
<1>4. EvalDue(id)' = EvalDue(id) /\ BvDue(id)' = BvDue(id)
  BY <1>1 DEF EvalDue, BvDue, CoefficientOf, EvalProduct, BvProduct, BvTerm, Times,
     LoadedProfile, OperandIndex, DigitIndex, KeyIndex, CoefficientWords
<1>5. /\ InOrder(eval_pipe, EvalDue(id))' <=> InOrder(eval_pipe, EvalDue(id))
      /\ InOrder(bv_pipe, BvDue(id))' <=> InOrder(bv_pipe, BvDue(id))
  BY <1>1, <1>4 DEF InOrder, Rank
<1>6. EvalMemoryInv(id)' <=> EvalMemoryInv(id)
  BY <1>1 DEF EvalMemoryInv, CoefficientOf, EvalProduct, Times, LoadedProfile, OperandIndex,
     CoefficientWords
<1>7. AccumInv(id)' <=> AccumInv(id)
  BY <1>1 DEF AccumInv, CoefficientOf, BvProduct, KeySum, BvTerm, Times, LoadedProfile,
     DigitIndex, KeyIndex, CoefficientWords
<1>8. BvMemoryInv(id)' <=> BvMemoryInv(id)
  BY <1>1 DEF BvMemoryInv, BankLanded, BvLanded, BvLaunched, AllRows, Row, CoefficientOf,
     KeySum, BvTerm, Times, LoadedProfile, DigitIndex, KeyIndex, CoefficientWords
<1> QED BY <1>1, <1>2, <1>3, <1>5, <1>6, <1>7, <1>8 DEF DataInv

-----------------------------------------------------------------------------
(* What the output reads.                                                  *)

(* A number written as quotient and rest is divided accordingly.           *)
LEMMA Division ==
  ASSUME NEW d \in Nat \ {0}, NEW k \in Nat, NEW r \in 0..(d - 1), NEW n, n = d * k + r
  PROVE  n \div d = k /\ n % d = r
<1>1. n \in Nat
  OBVIOUS
<1>2. PICK q, rest : q = n \div d /\ rest = n % d
  OBVIOUS
<1>3. q \in Int /\ rest \in 0..(d - 1) /\ n = d * q + rest
  BY <1>1, <1>2
<1>4. \A e \in Int : e < k => d * e + d <= d * k
  OBVIOUS
<1>5. \A e \in Int : k < e => d * k + d <= d * e
  OBVIOUS
<1>6. d * q \in Int /\ d * k \in Int
  BY <1>3
<1>7. q = k
  BY <1>3, <1>4, <1>5, <1>6
<1> QED BY <1>2, <1>3, <1>6, <1>7

(* The place in the output stream of a component of a ciphertext.          *)
OutputPlace(coefficient, ciphertext, component) ==
  2 * (Row(coefficient) + ciphertext) + component

(* The place of an output word in the stream tells its coefficient,        *)
(* ciphertext and component.                                               *)
LEMMA OutputPosition ==
  ASSUME batch.count \in Nat \ {0}, NEW k \in Nat, NEW x \in 0..(batch.count - 1),
         NEW e \in 0..1, NEW n, n = 2 * (Row(k) + x) + e
  PROVE  /\ n \div (2 * batch.count) = k /\ (n % (2 * batch.count)) \div 2 = x
         /\ n % 2 = e
         /\ n % (2 * batch.count) = 0 <=> x = 0 /\ e = 0
<1>1. PICK c \in Nat \ {0} : c = batch.count
  OBVIOUS
<1>2. PICK rows : rows = Row(k)
  OBVIOUS
<1>3. rows = k * c /\ rows \in Nat
  BY <1>1, <1>2 DEF Row
<1>4. PICK width : width = 2 * c
  OBVIOUS
<1>5. width \in Nat \ {0} /\ 2 * x + e \in 0..(width - 1)
  BY <1>1, <1>4
<1>6. PICK rest \in 0..(width - 1) : rest = 2 * x + e
  BY <1>5
<1>7. n \div width = k /\ n % width = rest
  <2>1. width * k = 2 * rows
    BY <1>3, <1>4
  <2>2. n = width * k + rest
    BY <1>2, <1>3, <1>6, <2>1
  <2> QED BY <1>5, <2>2, Division
<1>8. rest \div 2 = x
  BY <1>6
<1>9. n % 2 = e
  BY <1>2, <1>3
<1>10. rest = 0 <=> x = 0 /\ e = 0
  BY <1>6
<1> QED BY <1>1, <1>4, <1>7, <1>8, <1>9, <1>10

(* A multiple leaves no rest.                                              *)
LEMMA Multiple ==
  ASSUME NEW d \in Nat \ {0}, NEW k \in Nat
  PROVE  (d * k) % d = 0
<1>1. PICK n : n = d * k
  OBVIOUS
<1>2. PICK rest : rest = 0
  OBVIOUS
<1>3. rest \in 0..(d - 1) /\ n = d * k + rest
  BY <1>1, <1>2
<1>4. n % d = rest
  BY <1>3, Division
<1> QED BY <1>1, <1>2, <1>4

(* A batch is shipped in whole coefficients.                               *)
LEMMA WholeBatch ==
  ASSUME batch.count \in Nat \ {0}
  PROVE  OutputWords(batch) % (2 * batch.count) = 0
<1>1. PICK c \in Nat \ {0} : c = batch.count
  OBVIOUS
<1>2. PICK d \in Nat \ {0} : d = 2 * c
  BY <1>1
<1>3. PICK size \in Nat : size = N
  BY CoreAssumption
<1>4. OutputWords(batch) = d * size
  BY <1>1, <1>2, <1>3 DEF OutputWords
<1>5. (d * size) % d = 0
  BY Multiple
<1> QED BY <1>1, <1>2, <1>4, <1>5

(* The bank being output holds the whole of its coefficient.               *)
LEMMA OutputBank ==
  ASSUME FlowInv, CoreInv, state \in Running, output.active
  PROVE  /\ output.bank \in Banks /\ bank_occupied[output.bank]
         /\ CoefficientOf(output.bank) = output.coefficient_index
         /\ eval_result_count[output.bank] = batch.count
         /\ BankLanded(output.bank) \in Int /\ BankLanded(output.bank) >= AllRows
         /\ output.coefficient_index \in 0..LastCoefficient
<1>1. /\ InputInv /\ EvalInv /\ BvInv /\ DrainInv /\ BankInv
  BY DEF FlowInv, CoreInv
<1>2. /\ batch.count \in Nat \ {0} /\ compute_bank \in Banks
      /\ AllRows \in Nat /\ EvalLanded \in Int /\ BvLanded \in Int
  BY FlowNumbers
<1>3. /\ PriorBank \in Banks /\ PriorBank # compute_bank
      /\ PriorBank = 1 - compute_bank
  BY <1>2, OtherBank DEF PriorBank, Other
<1>4. /\ output.bank \in Banks /\ bank_occupied[output.bank] /\ bank_ready[output.bank]
      /\ output.coefficient_index \in Nat /\ output.bank = output.coefficient_index % 2
      /\ coefficient_index \in 0..LastCoefficient /\ compute_bank = coefficient_index % 2
  BY <1>1 DEF BankInv, DrainInv, InputInv
<1>5. CASE bank_occupied[PriorBank]
  <2>1. output.coefficient_index = coefficient_index - 1
    BY <1>1, <1>5 DEF DrainInv
  <2>2. output.bank = PriorBank
    BY <1>3, <1>4, <2>1 DEF Banks
  <2>3. EvalLanded >= 0 /\ BvLanded >= 0
    BY <1>1, <1>4, <2>2 DEF DrainInv
  <2>4. eval_result_count[output.bank] = batch.count
    BY <1>1, <1>2, <1>5, <2>2, <2>3 DEF EvalInv
  <2>5. BankLanded(output.bank) = BvLanded + AllRows
    BY <1>3, <2>2 DEF BankLanded
  <2>6. CoefficientOf(output.bank) = coefficient_index - 1
    BY <1>3, <2>2 DEF CoefficientOf
  <2> QED BY <1>2, <1>4, <2>1, <2>3, <2>4, <2>5, <2>6, CoreAssumption DEF LastCoefficient
<1>6. CASE ~bank_occupied[PriorBank]
  <2>1. output.coefficient_index = coefficient_index /\ output.bank = compute_bank
    BY <1>1, <1>4, <1>6 DEF DrainInv
  <2>2. EvalLanded = batch.count /\ BvLanded = AllRows
    BY <1>1, <1>4, <2>1 DEF DrainInv
  <2>3. eval_result_count[output.bank] = batch.count
    BY <1>1, <1>2, <2>1, <2>2 DEF EvalInv, Beyond
  <2>4. BankLanded(output.bank) = AllRows /\ CoefficientOf(output.bank) = coefficient_index
    BY <2>1, <2>2 DEF BankLanded, CoefficientOf
  <2> QED BY <1>2, <1>4, <2>1, <2>3, <2>4
<1> QED BY <1>5, <1>6

(* The c0 word owed to a ciphertext, in terms of what is computed.         *)
LEMMA FirstWordOwed ==
  ASSUME batch.count \in Nat \ {0}, NEW k \in Nat, NEW x \in 0..(batch.count - 1),
         NEW owed, owed.counts = batch, owed.profile = LoadedProfile
  PROVE  Relinearized(owed, OutputPlace(k, x, 0)) =
           <<EvalProduct(owed.frame, k, x).a0b0>>
             \o KeySum(owed.frame, k, x, batch.digits, 0)
<1> DEFINE times(i, j) == Product(Payload(owed.frame, i), Payload(owed.frame, j), owed.profile)
           operand(phase) == OperandIndex(batch, k, x, phase)
           evalMul == <<times(operand(0), operand(2))>>
           keySwitch == [i \in 1..batch.digits |->
                           times(DigitIndex(batch, k, i - 1, x), KeyIndex(batch, k, i - 1, 0))]
<1>1. PICK n : n = OutputPlace(k, x, 0)
  OBVIOUS
<1>2. n \div (2 * batch.count) = k /\ (n % (2 * batch.count)) \div 2 = x /\ n % 2 = 0
  BY <1>1, OutputPosition DEF OutputPlace
<1>3. Relinearized(owed, n) = evalMul \o keySwitch
  BY <1>2 DEF Relinearized
<1>4. keySwitch = KeySum(owed.frame, k, x, batch.digits, 0)
  BY DEF KeySum, BvTerm, Times
<1>5. evalMul = <<EvalProduct(owed.frame, k, x).a0b0>>
  BY DEF EvalProduct, Times
<1> HIDE DEF keySwitch, evalMul
<1> QED BY <1>1, <1>3, <1>4, <1>5

(* The c1 word owed to it.                                                *)
LEMMA SecondWordOwed ==
  ASSUME batch.count \in Nat \ {0}, NEW k \in Nat, NEW x \in 0..(batch.count - 1),
         NEW owed, owed.counts = batch, owed.profile = LoadedProfile
  PROVE  Relinearized(owed, OutputPlace(k, x, 1)) =
           <<EvalProduct(owed.frame, k, x).a0b1, EvalProduct(owed.frame, k, x).a1b0>>
             \o KeySum(owed.frame, k, x, batch.digits, 1)
<1> DEFINE times(i, j) == Product(Payload(owed.frame, i), Payload(owed.frame, j), owed.profile)
           operand(phase) == OperandIndex(batch, k, x, phase)
           evalMul == <<times(operand(0), operand(3)), times(operand(1), operand(2))>>
           keySwitch == [i \in 1..batch.digits |->
                           times(DigitIndex(batch, k, i - 1, x), KeyIndex(batch, k, i - 1, 1))]
<1>1. PICK n : n = OutputPlace(k, x, 1)
  OBVIOUS
<1>2. n \div (2 * batch.count) = k /\ (n % (2 * batch.count)) \div 2 = x /\ n % 2 = 1
  BY <1>1, OutputPosition DEF OutputPlace
<1>3. Relinearized(owed, n) = evalMul \o keySwitch
  <2>1. Relinearized(owed, n) =
          (IF n % 2 = 0 THEN <<times(operand(0), operand(2))>> ELSE evalMul) \o keySwitch
    BY <1>2 DEF Relinearized
  <2> HIDE DEF evalMul, keySwitch, times, operand
  <2>2. n % 2 # 0
    BY <1>2
  <2> QED BY <2>1, <2>2
<1>4. keySwitch = KeySum(owed.frame, k, x, batch.digits, 1)
  BY DEF KeySum, BvTerm, Times
<1>5. evalMul = <<EvalProduct(owed.frame, k, x).a0b1, EvalProduct(owed.frame, k, x).a1b0>>
  BY DEF EvalProduct, Times
<1> HIDE DEF keySwitch, evalMul
<1> QED BY <1>1, <1>3, <1>4, <1>5

(* Only the last word of the last coefficient ends the stream.             *)
LEMMA LastWord ==
  ASSUME batch.count \in Nat \ {0}, NEW k \in 0..LastCoefficient,
         NEW x \in 0..(batch.count - 1), NEW e \in 0..1
  PROVE  OutputPlace(k, x, e) = OutputWords(batch) - 1 <=>
           e = 1 /\ x + 1 = batch.count /\ k = LastCoefficient
<1>1. PICK c \in Nat \ {0} : c = batch.count
  OBVIOUS
<1>2. PICK row : row = Row(k)
  OBVIOUS
<1>3. PICK all : all = N * c
  OBVIOUS
<1>4. N \in Nat /\ N >= 2 /\ k \in Nat /\ k + 1 <= N /\ (k = LastCoefficient <=> k + 1 = N)
  BY CoreAssumption DEF LastCoefficient
<1>5. row \in Nat /\ all \in Nat /\ row + c = (k + 1) * c
  <2>1. row = k * c
    BY <1>1, <1>2 DEF Row
  <2> QED BY <1>3, <1>4, <2>1
<1>6. k + 1 = N => row + c = all
  BY <1>3, <1>5
<1>7. k + 1 # N => row + 2 * c <= all
  <2> SUFFICES ASSUME k + 1 # N PROVE row + 2 * c <= all
    OBVIOUS
  <2>1. PICK m \in Nat : N = (k + 2) + m
    <3>1. N - (k + 2) \in Nat /\ N = (k + 2) + (N - (k + 2))
      BY <1>4
    <3> QED BY <3>1
  <2>2. m * c \in Nat /\ N * c = (k + 1) * c + c + m * c
    BY <1>1, <1>4, <2>1
  <2> QED BY <1>1, <1>3, <1>5, <2>2
<1>8. OutputWords(batch) = 2 * all
  <2>1. OutputWords(batch) = (2 * N) * c
    BY <1>1 DEF OutputWords
  <2> QED BY <1>1, <1>3, <1>4, <2>1
<1>9. PICK n : n = OutputPlace(k, x, e)
  OBVIOUS
<1>10. n = 2 * (row + x) + e /\ x \in 0..(c - 1)
  BY <1>1, <1>2, <1>9 DEF OutputPlace
<1>11. CASE k + 1 = N
  BY <1>1, <1>4, <1>5, <1>6, <1>8, <1>9, <1>10, <1>11
<1>12. CASE k + 1 # N
  BY <1>1, <1>4, <1>5, <1>7, <1>8, <1>9, <1>10, <1>12
<1> QED BY <1>11, <1>12

(* The word shown is the one the batch owes at its place in the stream,    *)
(* and TLAST marks the last of them.                                       *)
LEMMA OutputExact ==
  ASSUME FlowInv, CoreInv, state \in Running, profile.q = profile.mu, output.active,
         NEW owed, DataInv(owed.frame), owed.counts = batch, owed.profile = LoadedProfile,
         NEW n, n = OutputPlace(output.coefficient_index, output.ciphertext, output.component)
  PROVE  /\ m_axis_tdata = Relinearized(owed, n)
         /\ m_axis_tlast <=> n = OutputWords(batch) - 1
<1> DEFINE b == output.bank
           k == output.coefficient_index
           x == output.ciphertext
           e == output.component
           c == batch.count
           product == EvalProduct(owed.frame, k, x)
           sum(component) == KeySum(owed.frame, k, x, batch.digits, component)
<1>1. /\ b \in Banks /\ bank_occupied[b] /\ CoefficientOf(b) = k
      /\ eval_result_count[b] = c /\ BankLanded(b) \in Int /\ BankLanded(b) >= AllRows
      /\ k \in 0..LastCoefficient
  BY OutputBank
<1>2. /\ c \in Nat \ {0} /\ batch.digits \in Nat \ {0} /\ x \in 0..(c - 1) /\ e \in 0..1
      /\ k \in Nat
  <2>1. c \in Nat \ {0} /\ batch.digits \in Nat \ {0}
    BY FlowNumbers
  <2>2. x \in Nat /\ e \in 0..1 /\ x < c /\ k \in Nat
    BY DEF FlowInv, DrainInv, CoreInv, BankInv
  <2> QED BY <2>1, <2>2
<1>3. /\ c0_memory[b][x] = <<product.a0b0>>
      /\ c1_memory[b][x] = <<product.a0b1, product.a1b0>>
  BY <1>1, <1>2 DEF DataInv, EvalMemoryInv
<1>4. ks_b_memory[b][x] = sum(0) /\ ks_a_memory[b][x] = sum(1)
  <2>1. PICK last \in 0..(batch.digits - 1) : last + 1 = batch.digits
    <3>1. batch.digits - 1 \in 0..(batch.digits - 1) /\ (batch.digits - 1) + 1 = batch.digits
      BY <1>2
    <3> QED BY <3>1
  <2>2. Row(last) + x < BankLanded(b)
    <3>1. Row(last) \in Nat /\ AllRows = Row(last) + c
      BY <1>2, <2>1, RowStep DEF AllRows
    <3> QED BY <1>1, <1>2, <3>1
  <2>3. /\ ks_b_memory[b][x] = KeySum(owed.frame, CoefficientOf(b), x, last + 1, 0)
        /\ ks_a_memory[b][x] = KeySum(owed.frame, CoefficientOf(b), x, last + 1, 1)
    BY <1>1, <1>2, <2>1, <2>2 DEF DataInv, BvMemoryInv
  <2> QED BY <1>1, <2>1, <2>3
<1>5. LoadedProfile = profile.q
  BY DEF LoadedProfile
<1>6. m_axis_tdata = IF e = 1 THEN <<product.a0b1, product.a1b0>> \o sum(1)
                              ELSE <<product.a0b0>> \o sum(0)
  <2>1. /\ product.a0b0.q = profile.q /\ product.a0b1.q = profile.q
        /\ product.a1b0.q = profile.q
    BY <1>5 DEF EvalProduct, Times, Product
  <2>2. \A component : \A i \in DOMAIN sum(component) : sum(component)[i].q = profile.q
    BY <1>5 DEF KeySum, BvTerm, Times, Product
  <2> HIDE DEF product, sum
  <2>3. AddMod(<<product.a0b1, product.a1b0>>, sum(1), profile.q)
          = <<product.a0b1, product.a1b0>> \o sum(1)
    BY <2>1, <2>2 DEF AddMod
  <2>4. AddMod(<<product.a0b0>>, sum(0), profile.q) = <<product.a0b0>> \o sum(0)
    BY <2>1, <2>2 DEF AddMod
  <2> QED BY <1>3, <1>4, <2>3, <2>4 DEF m_axis_tdata
<1> HIDE DEF k, x, e
<1>7. n = OutputPlace(k, x, e)
  BY DEF k, x, e
<1>8. Relinearized(owed, n) = IF e = 0 THEN <<product.a0b0>> \o sum(0)
                              ELSE <<product.a0b1, product.a1b0>> \o sum(1)
  <2>1. PICK at \in Nat, of \in 0..(batch.count - 1) : at = k /\ of = x
    BY <1>2
  <2>2. Relinearized(owed, OutputPlace(at, of, 0)) =
          <<EvalProduct(owed.frame, at, of).a0b0>>
            \o KeySum(owed.frame, at, of, batch.digits, 0)
    BY <1>2, FirstWordOwed
  <2>3. Relinearized(owed, OutputPlace(at, of, 1)) =
          <<EvalProduct(owed.frame, at, of).a0b1, EvalProduct(owed.frame, at, of).a1b0>>
            \o KeySum(owed.frame, at, of, batch.digits, 1)
    BY <1>2, SecondWordOwed, SMTT(60)
  <2>4. e = 0 \/ e = 1
    BY <1>2
  <2> QED BY <1>7, <2>1, <2>2, <2>3, <2>4
<1>9. m_axis_tlast <=> n = OutputWords(batch) - 1
  <2>1. m_axis_tlast <=> e = 1 /\ x + 1 = c /\ k = LastCoefficient
    BY DEF m_axis_tlast, k, x, e
  <2> QED BY <1>1, <1>2, <1>7, <2>1, LastWord
<1> HIDE DEF product, sum
<1>10. m_axis_tdata = Relinearized(owed, n)
  <2>1. e = 0 \/ e = 1
    BY <1>2
  <2> QED BY <2>1, <1>6, <1>8
<1> QED BY <1>9, <1>10

-----------------------------------------------------------------------------
(* How far the batch has come in and gone out.                             *)
AcceptedCoefficients == coefficient_index + (IF state \in InputDone THEN 1 ELSE 0)
Shipped == OutputPlace(output.coefficient_index, output.ciphertext, output.component)

(* A coefficient is counted as its last word is taken, whether the next    *)
(* one starts at once or waits for a bank.                                 *)
LEMMA AcceptedStep ==
  ASSUME FlowInv, CoreInv, NEW word, NEW ready, GoodWord(word), Clock(word, ready),
         state \in Running, ~Finishes(ready)
  PROVE  /\ AcceptedCoefficients' =
              AcceptedCoefficients + (IF input_coefficient_complete(word) THEN 1 ELSE 0)
         /\ state = "WAIT_BATCH_OUTPUT" => state' = "WAIT_BATCH_OUTPUT"
<1>1. Protocol(word, ready) /\ coefficient_index \in Nat
  BY BatchStep DEF Clock
<1>2. CASE state \in InputDone
  <2>1. ~Handshake(word) /\ ~input_coefficient_complete(word)
    BY <1>2 DEF Handshake, s_axis_tready, InputDone, input_coefficient_complete
  <2>2. WaitBank \/ Hold(word, ready)
    BY <1>1, <2>1 DEF Protocol, FinishBatch, Finishes
  <2>3. CASE WaitBank
    BY <1>1, <1>2, <2>1, <2>3 DEF WaitBank, StartNextCoefficient, Goto, AcceptedCoefficients,
       InputDone
  <2>4. CASE Hold(word, ready)
    BY <1>1, <1>2, <2>1, <2>4 DEF Hold, protocolVars, AcceptedCoefficients, InputDone
  <2> QED BY <2>2, <2>3, <2>4
<1>3. CASE state \notin InputDone /\ ~Handshake(word)
  <2>1. Hold(word, ready) /\ ~input_coefficient_complete(word)
    BY <1>1, <1>3 DEF Protocol, WaitBank, FinishBatch, InputDone, input_coefficient_complete
  <2> QED BY <1>1, <1>3, <2>1 DEF Hold, protocolVars, AcceptedCoefficients, InputDone
<1>4. CASE state \in {"COEFFICIENT_EVAL", "COEFFICIENT_KEY_B", "COEFFICIENT_KEY_A"}
           /\ Handshake(word)
  <2>1. ~word.last /\ ~input_coefficient_complete(word)
    BY <1>4 DEF GoodWord, Running, Keying, input_coefficient_complete
  <2>2. AcceptOperand(word) \/ AcceptKey(word)
    BY <1>1, <1>4 DEF Protocol, AcceptCommand, AcceptModuli, AcceptReciprocals, AcceptCounts,
       AcceptDigit, Discard, WaitBank, FinishBatch, Hold
  <2>3. coefficient_index' = coefficient_index /\ state' \notin InputDone
    BY <1>4, <2>1, <2>2 DEF AcceptOperand, AcceptKey, Goto, InputDone
  <2> QED BY <1>1, <1>4, <2>1, <2>3 DEF AcceptedCoefficients, InputDone
<1>5. CASE state = "COEFFICIENT_DIGITS" /\ Handshake(word)
  <2>1. word.last <=> final_external_payload_word
    BY <1>5 DEF GoodWord, Running
  <2>2. AcceptDigit(word)
    BY <1>1, <1>5 DEF Protocol, AcceptCommand, AcceptModuli, AcceptReciprocals, AcceptCounts,
       AcceptOperand, AcceptKey, Discard, WaitBank, FinishBatch, Hold
  <2>3. input_coefficient_complete(word) <=> final_bv_ciphertext /\ final_bv_digit
    BY <1>5 DEF input_coefficient_complete
  <2>4. \/ coefficient_index' = coefficient_index + 1 /\ state' = "COEFFICIENT_EVAL"
              /\ input_coefficient_complete(word)
        \/ coefficient_index' = coefficient_index
              /\ (state' \in InputDone <=> input_coefficient_complete(word))
    BY <1>5, <2>1, <2>2, <2>3 DEF AcceptDigit, StartNextCoefficient, Goto, InputDone
  <2> QED BY <1>1, <1>5, <2>4 DEF AcceptedCoefficients, InputDone
<1> QED BY <1>2, <1>3, <1>4, <1>5 DEF Running, Keying, InputDone

(* Every word taken moves the output by one place, to the end of the batch. *)
LEMMA ShippedStep ==
  ASSUME FlowInv, CoreInv, NEW word, NEW ready, GoodWord(word), Clock(word, ready),
         state \in Running, ~output.active => output.component = 0
  PROVE  /\ Shipped \in Nat
         /\ ~output'.active => output'.component = 0
         /\ ~Finishes(ready) =>
              Shipped' = Shipped + (IF output.active /\ ready THEN 1 ELSE 0)
         /\ Finishes(ready) =>
              output.active /\ ready /\ Shipped + 1 = OutputWords(batch)
<1> DEFINE c == batch.count
           k == output.coefficient_index
           x == output.ciphertext
           e == output.component
<1>1. /\ InputInv /\ BankInv /\ DrainInv /\ Protocol(word, ready)
      /\ BankOwnership(word, ready) /\ OutputScheduler(word, ready)
  BY DEF FlowInv, CoreInv, Clock
<1>2. c \in Nat \ {0}
  BY FlowNumbers
<1>3. /\ output \in [active : BOOLEAN, bank : Banks, coefficient_index : Nat,
                     ciphertext : Nat, component : 0..1]
      /\ x < c
  BY <1>1 DEF BankInv, DrainInv
<1>4. ~accepted_batch_header(word)
  BY DEF accepted_batch_header, Running, Keying, InputDone
<1>5. Row(k) \in Nat /\ Row(k + 1) = Row(k) + c
  BY <1>2, <1>3, RowStep
<1>6. Shipped = 2 * (Row(k) + x) + e /\ Shipped \in Nat
  BY <1>3, <1>5 DEF Shipped, OutputPlace
<1>7. Finishes(ready) =>
        output.active /\ ready /\ e = 1 /\ x + 1 = c /\ k = LastCoefficient
  BY DEF Finishes, output_batch_complete, output_coefficient_complete
<1>8. ~Finishes(ready) =>
        Shipped' = 2 * (output'.coefficient_index * c + output'.ciphertext) + output'.component
  <2>1. ~Finishes(ready) => UNCHANGED batch
    BY BatchStep
  <2> QED BY <2>1 DEF Shipped, OutputPlace, Row
<1>9. PICK row \in Nat, place \in Nat : row = Row(k) /\ row = k * c /\ place = x
  BY <1>3, <1>5 DEF Row
<1>15. Shipped = 2 * (row + place) + e
  BY <1>6, <1>9
<1>16. ~Finishes(ready) /\ output'.coefficient_index = k =>
         Shipped' = 2 * (row + output'.ciphertext) + output'.component
  BY <1>8, <1>9
<1>10. CASE ~output.active
  <2>1. /\ output'.coefficient_index = k /\ output'.component = 0 /\ output'.ciphertext = x
        /\ e = 0
    BY <1>1, <1>3, <1>4, <1>10 DEF OutputScheduler, DrainInv
  <2> QED BY <1>3, <1>6, <1>7, <1>8, <1>9, <1>10, <2>1
<1>11. CASE output.active /\ ~ready
  <2>1. output' = output
    BY <1>1, <1>4, <1>11 DEF OutputScheduler, outputVars
  <2> QED BY <1>3, <1>6, <1>7, <1>8, <1>9, <1>11, <2>1
<1>12. CASE output.active /\ ready /\ e = 0
  <2>1. output' = [output EXCEPT !.component = 1]
    BY <1>1, <1>4, <1>12 DEF OutputScheduler
  <2>2. /\ output'.active /\ output'.coefficient_index = k /\ output'.component = 1
        /\ output'.ciphertext = x
    BY <1>3, <1>12, <2>1
  <2>3. /\ Shipped = 2 * (row + place) + 0 /\ Shipped' = 2 * (row + place) + 1
        /\ ~Finishes(ready)
    <3>1. ~Finishes(ready)
      <4>1. Finishes(ready) => e = 1
        BY <1>7
      <4>2. e # 1
        BY <1>12
      <4> QED BY <4>1, <4>2
    <3>2. Shipped' = 2 * (row + output'.ciphertext) + output'.component
      BY <1>16, <2>2, <3>1
    <3>3. output'.ciphertext = place /\ output'.component = 1
      BY <1>9, <2>2
    <3> QED BY <1>12, <1>15, <3>1, <3>2, <3>3
  <2>4. Shipped' = Shipped + 1
    BY <2>3
  <2> QED BY <1>6, <1>12, <2>2, <2>3, <2>4
<1>13. CASE output.active /\ ready /\ e = 1 /\ x + 1 # c
  <2>1. output' = [output EXCEPT !.component = 0, !.active = TRUE, !.ciphertext = @ + 1]
    <3>1. output' =
            [output EXCEPT
               !.component = 0,
               !.active = ~(x + 1 = c),
               !.ciphertext = IF x + 1 = c THEN 0 ELSE @ + 1,
               !.coefficient_index = IF x + 1 = c /\ @ # LastCoefficient THEN @ + 1 ELSE @]
      BY <1>1, <1>3, <1>4, <1>13 DEF OutputScheduler
    <3> QED BY <1>3, <1>13, <3>1
  <2>2. /\ output'.active /\ output'.coefficient_index = k /\ output'.component = 0
        /\ output'.ciphertext = x + 1
    BY <1>3, <2>1
  <2>3. /\ Shipped = 2 * (row + place) + 1 /\ Shipped' = 2 * (row + (place + 1)) + 0
        /\ ~Finishes(ready)
    BY <1>7, <1>9, <1>13, <1>15, <1>16, <2>2
  <2>4. Shipped' = Shipped + 1
    BY <2>3
  <2> QED BY <1>6, <1>13, <2>2, <2>3, <2>4
<1>14. CASE output.active /\ ready /\ e = 1 /\ x + 1 = c
  <2>1. /\ output'.component = 0 /\ output'.ciphertext = 0
        /\ output'.coefficient_index = IF k # LastCoefficient THEN k + 1 ELSE k
    <3>1. output' =
            [output EXCEPT
               !.component = 0,
               !.active = ~(x + 1 = c),
               !.ciphertext = IF x + 1 = c THEN 0 ELSE @ + 1,
               !.coefficient_index = IF x + 1 = c /\ @ # LastCoefficient THEN @ + 1 ELSE @]
      BY <1>1, <1>3, <1>4, <1>14 DEF OutputScheduler
    <3> QED BY <1>3, <1>14, <3>1
  <2>2. CASE Finishes(ready)
    <3>1. Shipped + 1 = OutputWords(batch)
      <4>1. k \in 0..LastCoefficient /\ x \in 0..(c - 1) /\ e \in 0..1
        BY <1>2, <1>3, <1>7, <2>2, CoreAssumption DEF LastCoefficient
      <4>2. PICK at \in 0..LastCoefficient, of \in 0..(c - 1), part \in 0..1 :
              at = k /\ of = x /\ part = e
        BY <4>1
      <4>3. OutputPlace(at, of, part) = OutputWords(batch) - 1
        BY <1>2, <1>7, <2>2, <4>2, LastWord
      <4>4. Shipped = OutputWords(batch) - 1 /\ OutputWords(batch) \in Int
        <5>1. Shipped = OutputPlace(at, of, part)
          BY <4>2 DEF Shipped
        <5>2. OutputWords(batch) \in Int
          BY <1>2, CoreAssumption DEF OutputWords
        <5> QED BY <4>3, <5>1, <5>2
      <4> QED BY <1>6, <4>4
    <3> QED BY <1>6, <1>14, <2>1, <2>2, <3>1
  <2>3. CASE ~Finishes(ready)
    <3>1. output_coefficient_complete(ready)
      BY <1>14 DEF output_coefficient_complete
    <3>2. k # LastCoefficient
      <4>1. k + 1 = coefficient_index
        BY <1>1, <2>3, <3>1, BanksMove
      <4>2. coefficient_index \in 0..LastCoefficient /\ LastCoefficient \in Nat
        BY <1>1, CoreAssumption DEF InputInv, LastCoefficient
      <4> QED BY <1>3, <4>1, <4>2
    <3>3. Shipped' = 2 * ((k + 1) * c + 0) + 0
      BY <1>8, <2>1, <2>3, <3>2
    <3>4. (k + 1) * c = row + c
      BY <1>2, <1>3, <1>9
    <3>5. Shipped' = 2 * (row + c)
      BY <1>2, <1>9, <3>3, <3>4
    <3>6. Shipped = 2 * (row + place) + 1 /\ place + 1 = c
      BY <1>9, <1>14, <1>15
    <3>7. Shipped' = Shipped + 1
      BY <3>5, <3>6
    <3> QED BY <1>6, <1>14, <2>1, <2>3, <3>7
  <2> QED BY <2>2, <2>3
<1> QED BY <1>3, <1>10, <1>11, <1>12, <1>13, <1>14

(* What is shipped tells the coefficient being output, and when it begins. *)
LEMMA ShippedPosition ==
  FlowInv /\ CoreInv /\ state \in Running =>
    /\ Shipped \div (2 * batch.count) = output.coefficient_index
    /\ Shipped % (2 * batch.count) = 0 <=> output.ciphertext = 0 /\ output.component = 0
<1> SUFFICES ASSUME FlowInv, CoreInv, state \in Running
             PROVE  /\ Shipped \div (2 * batch.count) = output.coefficient_index
                    /\ Shipped % (2 * batch.count) = 0 <=>
                         output.ciphertext = 0 /\ output.component = 0
  OBVIOUS
<1>1. /\ output.coefficient_index \in Nat /\ output.ciphertext \in Nat
      /\ output.component \in 0..1 /\ output.ciphertext < batch.count
  BY DEF FlowInv, DrainInv, CoreInv, BankInv
<1>2. batch.count \in Nat \ {0}
  BY FlowNumbers
<1>3. PICK k \in Nat, x \in 0..(batch.count - 1), e \in 0..1 :
        k = output.coefficient_index /\ x = output.ciphertext /\ e = output.component
  BY <1>1, <1>2
<1>4. PICK n : n = OutputPlace(k, x, e)
  OBVIOUS
<1>5. Shipped = n
  BY <1>3, <1>4 DEF Shipped
<1>6. n = 2 * (Row(k) + x) + e
  BY <1>4 DEF OutputPlace
<1>7. n \div (2 * batch.count) = k
  BY <1>2, <1>6, OutputPosition
<1>8. n % (2 * batch.count) = 0 <=> x = 0 /\ e = 0
  BY <1>2, <1>6, OutputPosition
<1> QED BY <1>3, <1>5, <1>7, <1>8

(* A coefficient is only output when it is wholly in, and the one coming   *)
(* in is at most one ahead of the one going out.                           *)
LEMMA AcceptLimits ==
  ASSUME FlowInv, CoreInv, state \in Running
  PROVE  /\ bank_ready[output.coefficient_index % 2] =>
              output.coefficient_index + 1 <= AcceptedCoefficients
         /\ state \notin InputDone =>
              /\ AcceptedCoefficients < N
              /\ AcceptedCoefficients < output.coefficient_index + 2
<1>1. /\ InputInv /\ DrainInv /\ BankInv
  BY DEF FlowInv, CoreInv
<1>2. /\ coefficient_index \in 0..LastCoefficient /\ compute_bank = coefficient_index % 2
      /\ LastCoefficient \in Nat /\ N = LastCoefficient + 1 /\ coefficient_index \in Nat
  BY <1>1, CoreAssumption DEF InputInv, LastCoefficient
<1>3. /\ compute_bank \in Banks /\ PriorBank \in Banks /\ PriorBank # compute_bank
      /\ PriorBank = 1 - compute_bank
  BY <1>2, OtherBank DEF PriorBank, Other, Banks
<1>4. /\ output.coefficient_index \in Nat
      /\ output.coefficient_index =
           IF bank_occupied[PriorBank] THEN coefficient_index - 1 ELSE coefficient_index
  BY <1>1 DEF DrainInv, BankInv
<1>5. ASSUME bank_ready[output.coefficient_index % 2]
      PROVE  output.coefficient_index + 1 <= AcceptedCoefficients
  <2>1. CASE bank_occupied[PriorBank]
    BY <1>2, <1>4, <2>1 DEF AcceptedCoefficients
  <2>2. CASE ~bank_occupied[PriorBank]
    <3>1. bank_ready[compute_bank] /\ output.coefficient_index = coefficient_index
      BY <1>2, <1>4, <1>5, <2>2
    <3>2. state \in InputDone
      BY <1>1, <3>1 DEF DrainInv
    <3> QED BY <1>2, <3>1, <3>2 DEF AcceptedCoefficients
  <2> QED BY <2>1, <2>2
<1>6. ASSUME state \notin InputDone
      PROVE  /\ AcceptedCoefficients < N
             /\ AcceptedCoefficients < output.coefficient_index + 2
  <2>1. AcceptedCoefficients = coefficient_index
    BY <1>2, <1>6 DEF AcceptedCoefficients
  <2>2. output.coefficient_index >= coefficient_index - 1
    BY <1>2, <1>4
  <2> QED BY <1>2, <1>4, <2>1, <2>2
<1> QED BY <1>5, <1>6

(* What the output scheduler may do in one clock: begin a coefficient that *)
(* is ready, hold its word, or go on to the next word or to a pause.       *)
LEMMA OutputChoices ==
  ASSUME FlowInv, CoreInv, NEW word, NEW ready, Clock(word, ready), state \in Running
  PROVE  /\ ~output.active /\ output'.active => bank_ready[output.coefficient_index % 2]
         /\ output.active /\ ~ready => output' = output
         /\ output.active /\ ready =>
              (output'.active <=> ~(output'.ciphertext = 0 /\ output'.component = 0))
<1>1. /\ output \in [active : BOOLEAN, bank : Banks, coefficient_index : Nat,
                     ciphertext : Nat, component : 0..1]
      /\ OutputScheduler(word, ready)
  BY DEF CoreInv, BankInv, Clock
<1>2. ~accepted_batch_header(word)
  BY DEF accepted_batch_header, Running, Keying, InputDone
<1>3. CASE ~output.active
  BY <1>1, <1>2, <1>3 DEF OutputScheduler
<1>4. CASE output.active /\ ~ready
  BY <1>1, <1>2, <1>4 DEF OutputScheduler, outputVars
<1>5. CASE output.active /\ ready /\ output.component = 0
  <2>1. output' = [output EXCEPT !.component = 1]
    BY <1>1, <1>2, <1>5 DEF OutputScheduler
  <2> QED BY <1>1, <1>5, <2>1
<1>6. CASE output.active /\ ready /\ output.component = 1
  <2> DEFINE final == output.ciphertext + 1 = batch.count
  <2>1. output' =
          [output EXCEPT
             !.component = 0,
             !.active = ~final,
             !.ciphertext = IF final THEN 0 ELSE @ + 1,
             !.coefficient_index = IF final /\ @ # LastCoefficient THEN @ + 1 ELSE @]
    BY <1>1, <1>2, <1>6 DEF OutputScheduler
  <2>2. /\ output'.active = ~final /\ output'.component = 0
        /\ output'.ciphertext = IF final THEN 0 ELSE output.ciphertext + 1
    BY <1>1, <2>1
  <2>3. final => ~output'.active /\ output'.ciphertext = 0
    BY <2>2
  <2>4. ~final => output'.active /\ output'.ciphertext # 0
    <3>1. output.ciphertext + 1 # 0
      BY <1>1
    <3> QED BY <2>2, <3>1
  <2> QED BY <1>6, <2>2, <2>3, <2>4
<1> QED BY <1>1, <1>3, <1>4, <1>5, <1>6

-----------------------------------------------------------------------
(* How long the coefficient before the current one keeps its bank, while   *)
(* the receiver is always ready.  Time is told in words: a clock takes one *)
(* at most, and a product moves a stage on in every clock, so that those   *)
(* of the coefficient before are beyond the stage of the current position. *)
TimelyInv ==
  state \in Running =>
    /\ state # "WAIT_BANK"
    /\ Len(eval_meta) - EvalLaunched <= Rank(eval_pipe, CoefficientPosition + 1)
    /\ Len(bv_meta) - BvLaunched <= Rank(bv_pipe, CoefficientPosition + 1)
    /\ BvLanded < 0 => CoefficientPosition <= Latency
    /\ bank_occupied[PriorBank] =>
         /\ ~bank_ready[PriorBank] => CoefficientPosition <= Latency + 1
         /\ ~output.active => CoefficientPosition <= Latency + 2
         /\ output.active =>
              CoefficientPosition <= Latency + 3 + 2 * output.ciphertext + output.component

(* A batch whose coefficients take longer to read than a bank to drain.    *)
RoomToDrain(counts) == CoefficientWords(counts) > Latency + 3 + 2 * counts.count

(* The products at or ahead of a stage are fewer ahead, none at the end.   *)
LEMMA RankNumbers ==
  ASSUME NEW pipe, NEW stage \in Nat
  PROVE  /\ Rank(pipe, stage) \in Nat
         /\ Rank(pipe, stage + 1) <= Rank(pipe, stage)
         /\ stage > Latency => Rank(pipe, stage) = 0
<1> DEFINE here(s) == {t \in s..Latency : pipe[t].valid}
<1>1. Latency \in Nat
  BY CoreAssumption
<1>2. ASSUME NEW s \in Nat
      PROVE  IsFiniteSet(here(s)) /\ Cardinality(here(s)) \in Nat
  <2>1. IsFiniteSet(s..Latency)
    BY <1>1, FS_Interval
  <2>2. here(s) \subseteq s..Latency
    OBVIOUS
  <2> HIDE DEF here
  <2> QED BY <2>1, <2>2, FS_Subset, FS_CardinalityType
<1>3. here(stage + 1) \subseteq here(stage)
  BY <1>1
<1>4. stage > Latency => here(stage) = {}
  BY <1>1
<1>5. \A s \in Nat : Rank(pipe, s) = Cardinality(here(s))
  BY DEF Rank
<1>6. stage + 1 \in Nat
  OBVIOUS
<1> HIDE DEF here
<1>7. Cardinality(here(stage + 1)) <= Cardinality(here(stage))
  BY <1>2, <1>3, FS_Subset
<1> QED BY <1>2, <1>4, <1>5, <1>6, <1>7, FS_EmptySet

(* Products beyond the current position are still beyond it a clock later, *)
(* but for the one that left, whether the clock took a word or not.        *)
LEMMA RankBehind ==
  ASSUME NEW pipe, NEW product, NEW position \in Nat, NEW taken \in 0..1,
         NEW old \in Int, old <= Rank(pipe, position + 1)
  PROVE  old - (IF pipe[Latency].valid THEN 1 ELSE 0)
           <= Rank(Shift(pipe, product), position + taken + 1)
<1> DEFINE shifted == Shift(pipe, product)
           popped  == IF pipe[Latency].valid THEN 1 ELSE 0
           stage   == position + 1
<1>1. Latency \in Nat \ {0} /\ stage \in Nat \ {0} /\ popped \in 0..1
      /\ (popped = 1 <=> pipe[Latency].valid)
  BY CoreAssumption
<1>2. /\ Rank(pipe, stage) \in Nat /\ Rank(shifted, stage) \in Nat
      /\ Rank(shifted, stage + 1) \in Nat
      /\ Rank(shifted, stage + 1) <= Rank(shifted, stage)
      /\ stage > Latency => Rank(pipe, stage) = 0
  BY <1>1, RankNumbers
<1>3. position + taken + 1 \in {stage, stage + 1}
  OBVIOUS
<1>4. old - popped <= Rank(shifted, stage + 1)
  <2>1. CASE stage \in 1..(Latency - 1)
    <3>1. Rank(shifted, stage + 1) = Rank(pipe, stage) - popped
      BY <2>1, RankShift
    <3> HIDE DEF popped, stage, shifted
    <3> QED BY <1>1, <1>2, <3>1 DEF stage
  <2>2. CASE stage = Latency
    <3>1. Rank(pipe, Latency) <= popped
      <4>1. Rank(pipe, Latency) = Cardinality({s \in Latency..Latency : pipe[s].valid})
        BY DEF Rank
      <4>2. {s \in Latency..Latency : pipe[s].valid} =
              IF pipe[Latency].valid THEN {Latency} ELSE {}
        BY <1>1
      <4>3. Cardinality({Latency}) = 1 /\ Cardinality({}) = 0
        BY FS_Singleton, FS_EmptySet
      <4> QED BY <4>1, <4>2, <4>3
    <3> HIDE DEF popped, stage, shifted
    <3> QED BY <1>1, <1>2, <2>2, <3>1 DEF stage
  <2>3. CASE stage > Latency
    <3> HIDE DEF popped, stage, shifted
    <3> QED BY <1>1, <1>2, <2>3 DEF stage
  <2> QED BY <1>1, <2>1, <2>2, <2>3
<1>5. old - popped <= Rank(shifted, stage)
  <2> HIDE DEF popped, stage, shifted
  <2> QED BY <1>1, <1>2, <1>4
<1> HIDE DEF popped, stage, shifted
<1>6. old - popped <= Rank(shifted, position + taken + 1)
  BY <1>3, <1>4, <1>5
<1> QED BY <1>6 DEF popped, shifted

(* The position is one in the coefficient, in every state.                 *)
LEMMA PositionHolds ==
  InputInv /\ state \in Running => CoefficientPosition \in 0..CoefficientWords(batch)
BY PositionLimits

(* How a clock moves the position in the coefficient.                      *)
LEMMA PositionMoves ==
  ASSUME FlowInv, CoreInv, NEW word, NEW ready, GoodWord(word), Clock(word, ready),
         state \in Running, ~Finishes(ready)
  PROVE  /\ CoefficientPosition \in Nat /\ CoefficientPosition' \in Nat
         /\ Starts(word) => CoefficientPosition' = 0
         /\ ~Starts(word) =>
              \E taken \in 0..1 : CoefficientPosition' = CoefficientPosition + taken
<1> DEFINE p == CoefficientPosition
           w == CoefficientWords(batch)
           taken == IF Handshake(word) THEN 1 ELSE 0
<1>1. /\ InputInv /\ InputInv' /\ state' \in Running /\ UNCHANGED batch
      /\ Protocol(word, ready) /\ coefficient_index \in Nat
      /\ Starts(word) => state' = "COEFFICIENT_EVAL"
      /\ Starts(word) => coefficient_index' = coefficient_index + 1
      /\ ~Starts(word) => coefficient_index' = coefficient_index
  BY BatchStep DEF FlowInv, Clock
<1>2. w \in Nat \ {0} /\ p \in 0..w
  BY <1>1, PositionLimits
<1>3. p' \in 0..(w') /\ w' = w
  <2>1. (InputInv /\ state \in Running => p \in 0..w)'
    BY PositionHolds, PTL
  <2> QED BY <1>1, <2>1 DEF CoefficientWords
<1>4. Consumed' = Consumed + taken
  BY <1>1, PositionStep
<1>5. ASSUME ~Starts(word) PROVE p' = p + taken
  <2>1. Consumed = coefficient_index * w + p /\ Consumed' = coefficient_index * w + p'
    BY <1>1, <1>3, <1>5 DEF Consumed
  <2>2. coefficient_index * w \in Int /\ p' \in Nat /\ taken \in Nat
    <3> HIDE DEF w, p
    <3> QED BY <1>1, <1>2, <1>3
  <2> DEFINE base == coefficient_index * w
  <2> HIDE DEF base, w, p, taken
  <2> QED BY <1>2, <1>4, <2>1, <2>2 DEF base
<1>6. ASSUME Starts(word) PROVE p' = 0
  <2>1. /\ Consumed = coefficient_index * w + p
        /\ Consumed' = (coefficient_index + 1) * w + p'
    BY <1>1, <1>3, <1>6 DEF Consumed
  <2>2. \A i, x \in Nat : (i + 1) * x = i * x + x /\ i * x \in Nat
    OBVIOUS
  <2>3. (coefficient_index + 1) * w = coefficient_index * w + w
        /\ coefficient_index * w \in Nat
    <3> HIDE DEF w
    <3> QED BY <1>1, <1>2, <2>2
  <2>4. p = w => taken = 0
    <3>1. p = w => state \in InputDone
      BY <1>1, <1>2, PositionLimits
    <3>2. state \in InputDone => ~Handshake(word)
      BY DEF InputDone, Handshake, s_axis_tready
    <3> QED BY <3>1, <3>2
  <2> DEFINE base == coefficient_index * w
  <2>5. /\ Consumed = base + p /\ Consumed' = base + w + p' /\ base \in Nat
    BY <2>1, <2>3
  <2>6. taken \in 0..1 /\ p' \in Nat
    BY <1>2, <1>3
  <2>7. PICK next : next = p'
    OBVIOUS
  <2> HIDE DEF base, w, p, taken
  <2>8. base + w + next = base + p + taken
    BY <1>4, <2>5, <2>7
  <2>9. next \in Nat /\ base \in Nat
    BY <2>5, <2>6, <2>7
  <2>10. next = 0
    BY <1>2, <2>4, <2>6, <2>8, <2>9
  <2> QED BY <2>7, <2>10
<1>7. taken \in 0..1 /\ p' \in Nat /\ p \in Nat
  BY <1>2, <1>3
<1> QED BY <1>5, <1>6, <1>7

(* Products of the coefficient before stay beyond the current position.    *)
LEMMA LaunchesBehind ==
  ASSUME FlowInv, CoreInv, TimelyInv, NEW word, NEW ready, GoodWord(word),
         Clock(word, ready), state \in Running, ~Finishes(ready)
  PROVE  /\ Len(eval_meta') - EvalLaunched' <= Rank(eval_pipe', CoefficientPosition' + 1)
         /\ Len(bv_meta') - BvLaunched' <= Rank(bv_pipe', CoefficientPosition' + 1)
         /\ BvLanded' < 0 => CoefficientPosition' <= Latency
         /\ ~Starts(word) /\ (EvalLanded < 0 \/ BvLanded < 0) => CoefficientPosition <= Latency
<1> DEFINE p == CoefficientPosition
<1>1. /\ InputInv /\ MetadataInv /\ MetadataInv' /\ EvalPath(word) /\ BvPath(word)
      /\ Protocol(word, ready) /\ state' \in Running /\ FlowInv' /\ CoreInv'
  BY BatchStep, FlowStep DEF FlowInv, CoreInv, Clock
<1>2. /\ p \in Nat /\ p' \in Nat /\ (Starts(word) => p' = 0)
      /\ ~Starts(word) => \E taken \in 0..1 : p' = p + taken
  BY PositionMoves
<1>3. /\ Len(eval_meta) \in Nat /\ Len(bv_meta) \in Nat
      /\ EvalLaunched \in Nat /\ BvLaunched \in Nat
      /\ EvalLanded = EvalLaunched - Len(eval_meta)
      /\ BvLanded = BvLaunched - Len(bv_meta) - (IF bv_accum.valid THEN 1 ELSE 0)
  BY FlowNumbers
<1>4. /\ Len(eval_meta) - EvalLaunched <= Rank(eval_pipe, p + 1)
      /\ Len(bv_meta) - BvLaunched <= Rank(bv_pipe, p + 1)
      /\ BvLanded < 0 => p <= Latency
  BY DEF TimelyInv
<1>5. /\ Len(eval_meta') = Len(eval_meta) - (IF eval_meta_pop THEN 1 ELSE 0)
                             + (IF eval_launch(word) THEN 1 ELSE 0)
      /\ Len(bv_meta') = Len(bv_meta) - (IF bv_meta_pop THEN 1 ELSE 0)
                           + (IF bv_launch(word) THEN 1 ELSE 0)
  BY <1>1, EvalQueueLength, BvQueueLength
<1>6. PICK product : eval_pipe' = Shift(eval_pipe, product)
  BY <1>1 DEF EvalPath
<1>7. PICK term : bv_pipe' = Shift(bv_pipe, term)
  BY <1>1 DEF BvPath
<1>8. bv_accum'.valid <=> bv_meta_pop
  BY <1>1 DEF BvPath, FlowInv, BvInv
<1>9. /\ Len(eval_meta') = Rank(eval_pipe', 1) /\ Len(bv_meta') = Rank(bv_pipe', 1)
      /\ Rank(eval_pipe', 1) \in Nat /\ Rank(bv_pipe', 1) \in Nat
  <2>1. \A pipe : Rank(pipe, 1) = Cardinality(InFlight(pipe)) /\ Rank(pipe, 1) \in Nat
    BY StagesFinite DEF Rank, InFlight
  <2> QED BY <1>1, <2>1 DEF MetadataInv, MetadataInStep
<1>10. CASE Starts(word)
  <2>1. EvalLaunched' = 0 /\ BvLaunched' = 0 /\ p' = 0
    BY <1>1, <1>2, <1>10, Advance
  <2>2. p' <= Latency
    BY <2>1, CoreAssumption
  <2>3. Rank(eval_pipe', p' + 1) = Len(eval_meta') /\ Rank(bv_pipe', p' + 1) = Len(bv_meta')
    BY <1>9, <2>1
  <2> QED BY <1>9, <1>10, <2>1, <2>2, <2>3
<1>11. CASE ~Starts(word)
  <2>1. /\ EvalLaunched' = EvalLaunched + (IF eval_launch(word) THEN 1 ELSE 0)
        /\ BvLaunched' = BvLaunched + (IF bv_launch(word) THEN 1 ELSE 0)
    BY <1>1, <1>11, Advance
  <2>2. PICK taken \in 0..1 : p' = p + taken
    BY <1>2, <1>11
  <2>3. PICK e : e = Len(eval_meta) - EvalLaunched
    OBVIOUS
  <2>4. PICK b : b = Len(bv_meta) - BvLaunched
    OBVIOUS
  <2>5. PICK at : at = p
    OBVIOUS
  <2>6. e \in Int /\ b \in Int /\ at \in Nat
    BY <1>2, <1>3, <2>3, <2>4, <2>5
  <2>7. e <= Rank(eval_pipe, at + 1) /\ b <= Rank(bv_pipe, at + 1)
    BY <1>4, <2>3, <2>4, <2>5
  <2>8. /\ e - (IF eval_pipe[Latency].valid THEN 1 ELSE 0)
              <= Rank(eval_pipe', at + taken + 1)
        /\ b - (IF bv_pipe[Latency].valid THEN 1 ELSE 0)
              <= Rank(bv_pipe', at + taken + 1)
    BY <1>6, <1>7, <2>6, <2>7, RankBehind
  <2>9. /\ Len(eval_meta') - EvalLaunched' = e - (IF eval_meta_pop THEN 1 ELSE 0)
        /\ Len(bv_meta') - BvLaunched' = b - (IF bv_meta_pop THEN 1 ELSE 0)
    BY <1>3, <1>5, <2>1, <2>3, <2>4
  <2>10. /\ Len(eval_meta') - EvalLaunched' <= Rank(eval_pipe', p' + 1)
         /\ Len(bv_meta') - BvLaunched' <= Rank(bv_pipe', p' + 1)
    BY <2>2, <2>5, <2>8, <2>9 DEF eval_meta_pop, bv_meta_pop
  <2>11. /\ at + 1 > Latency => Rank(eval_pipe, at + 1) = 0 /\ Rank(bv_pipe, at + 1) = 0
         /\ Rank(eval_pipe, at + 1) \in Nat /\ Rank(bv_pipe, at + 1) \in Nat
    BY <2>6, RankNumbers
  <2>12. e > 0 \/ b > 0 => at + 1 <= Latency
    BY <2>6, <2>7, <2>11, CoreAssumption
  <2>13. BvLanded' < 0 => b > 0
    <3>1. BvLanded' = BvLaunched' - Len(bv_meta') - (IF bv_accum'.valid THEN 1 ELSE 0)
      BY DEF BvLanded
    <3>2. BvLaunched' \in Int /\ Len(bv_meta') \in Int
      BY <1>3, <1>5, <2>1
    <3> QED BY <1>8, <2>6, <2>9, <3>1, <3>2
  <2>14. EvalLanded < 0 => e > 0
    BY <1>3, <2>3
  <2>15. at + 1 <= Latency => p <= Latency /\ p' <= Latency
    BY <2>2, <2>5, <2>6, CoreAssumption
  <2> QED BY <1>4, <2>10, <2>12, <2>13, <2>14, <2>15
<1> QED BY <1>10, <1>11

(* The bank of the coefficient before, clock by clock: filled, handed over, *)
(* put out word by word, and free.                                         *)
LEMMA DrainsInTime ==
  ASSUME FlowInv, CoreInv, TimelyInv, NEW word, GoodWord(word), Clock(word, TRUE),
         state \in Running, ~Finishes(TRUE), bank_occupied'[PriorBank']
  PROVE  /\ ~bank_ready'[PriorBank'] => CoefficientPosition' <= Latency + 1
         /\ ~output'.active => CoefficientPosition' <= Latency + 2
         /\ output'.active =>
              CoefficientPosition' <= Latency + 3 + 2 * output'.ciphertext + output'.component
<1> DEFINE p == CoefficientPosition
           complete == output_coefficient_complete(TRUE)
<1>1. /\ InputInv /\ BankInv /\ BankInv' /\ EvalInv /\ BvInv /\ DrainInv
      /\ Protocol(word, TRUE) /\ BankOwnership(word, TRUE) /\ OutputScheduler(word, TRUE)
  BY BatchStep DEF FlowInv, CoreInv, Clock
<1>2. ~accepted_batch_header(word)
  BY DEF accepted_batch_header, Running, Keying, InputDone
<1>3. /\ p \in Nat /\ p' \in Nat /\ (Starts(word) => p' = 0)
      /\ ~Starts(word) => \E taken \in 0..1 : p' = p + taken
  BY PositionMoves
<1>4. /\ output \in [active : BOOLEAN, bank : Banks, coefficient_index : Nat,
                     ciphertext : Nat, component : 0..1]
      /\ output'.ciphertext \in Nat /\ output'.component \in 0..1
      /\ Latency \in Nat
  BY <1>1, CoreAssumption DEF BankInv
<1>5. CASE Starts(word)
  <2>1. p' = 0
    BY <1>3, <1>5
  <2> QED BY <1>4, <2>1
<1>6. CASE ~Starts(word)
  <2>1. PriorBank' = PriorBank /\ PriorBank \in Banks /\ coefficient_index \in Nat
    BY <1>6, BatchStep DEF PriorBank
  <2>2. bank_occupied[PriorBank] /\ ~complete
    BY <1>1, <1>6, <2>1, BanksMove
  <2>3. p' <= p + 1
    BY <1>3, <1>6
  <2>4. /\ ~bank_ready[PriorBank] => p <= Latency + 1
        /\ ~output.active => p <= Latency + 2
        /\ output.active => p <= Latency + 3 + 2 * output.ciphertext + output.component
    BY <2>2 DEF TimelyInv
  <2>5. ASSUME ~bank_ready'[PriorBank'] PROVE p' <= Latency + 1
    <3>1. ~compute_complete(PriorBank)
      BY <1>1, <1>2, <1>6, <2>1, <2>2, <2>5 DEF BankOwnership, Starts
    <3>2. ~bank_ready[PriorBank]
      BY <1>1, <1>2, <1>6, <2>1, <2>2, <2>5 DEF BankOwnership, Starts
    <3>3. EvalLanded < 0 \/ BvLanded < 0
      BY <1>1, <2>2, <3>1, <3>2 DEF compute_complete, EvalInv, BvInv
    <3>4. p <= Latency
      BY <1>6, <3>3, LaunchesBehind
    <3> QED BY <1>3, <1>4, <2>3, <3>4
  <2>6. ASSUME ~output'.active PROVE p' <= Latency + 2
    <3>1. ~output.active
      BY <1>1, <1>2, <1>4, <2>2, <2>6 DEF OutputScheduler, output_coefficient_complete
    <3>2. output.coefficient_index % 2 = PriorBank
      <4>1. output.coefficient_index = coefficient_index - 1
            /\ compute_bank = coefficient_index % 2
        BY <1>1, <2>2 DEF DrainInv, InputInv
      <4>2. output.coefficient_index \in Nat
        BY <1>4
      <4> QED BY <2>1, <4>1, <4>2 DEF PriorBank, Other
    <3>3. ~bank_ready[PriorBank]
      BY <1>1, <1>2, <1>4, <2>6, <3>1, <3>2 DEF OutputScheduler
    <3> QED BY <1>3, <1>4, <2>3, <2>4, <3>3
  <2>7. ASSUME output'.active
        PROVE  p' <= Latency + 3 + 2 * output'.ciphertext + output'.component
    <3>1. CASE ~output.active
      BY <1>3, <1>4, <2>3, <2>4, <3>1
    <3>2. CASE output.active
      <4>1. 2 * output'.ciphertext + output'.component =
              2 * output.ciphertext + output.component + 1
        <5>1. CASE output.component = 0
          <6>1. output' = [output EXCEPT !.component = 1]
            BY <1>1, <1>2, <3>2, <5>1 DEF OutputScheduler
          <6> QED BY <1>4, <5>1, <6>1
        <5>2. CASE output.component = 1
          <6>1. ~(output.ciphertext + 1 = batch.count)
            BY <2>2, <3>2, <5>2 DEF output_coefficient_complete
          <6>2. output'.component = 0 /\ output'.ciphertext = output.ciphertext + 1
            <7> DEFINE final == output.ciphertext + 1 = batch.count
            <7>1. output' =
                    [output EXCEPT
                       !.component = 0,
                       !.active = ~final,
                       !.ciphertext = IF final THEN 0 ELSE @ + 1,
                       !.coefficient_index =
                         IF final /\ @ # LastCoefficient THEN @ + 1 ELSE @]
              BY <1>1, <1>2, <3>2, <5>2 DEF OutputScheduler
            <7>2. /\ output'.component = 0
                  /\ output'.ciphertext = IF final THEN 0 ELSE output.ciphertext + 1
              BY <1>4, <7>1
            <7> QED BY <6>1, <7>2
          <6> QED BY <1>4, <5>2, <6>2
        <5> QED BY <1>4, <5>1, <5>2
      <4>2. PICK old : old = 2 * output.ciphertext + output.component
        OBVIOUS
      <4>3. old \in Nat /\ p <= Latency + 3 + old
        BY <1>3, <1>4, <2>4, <3>2, <4>2
      <4> QED BY <1>3, <1>4, <2>3, <4>1, <4>2, <4>3
    <3> QED BY <3>1, <3>2
  <2> QED BY <2>5, <2>6, <2>7
<1> QED BY <1>5, <1>6

(* So the last word of a coefficient finds the other bank free, and no     *)
(* clock is spent waiting for it.                                          *)
LEMMA TimelyStep ==
  ASSUME FlowInv, CoreInv, TimelyInv, NEW word, GoodWord(word), Clock(word, TRUE),
         state = "COEFFICIENT_DIGITS" => RoomToDrain(batch)
  PROVE  TimelyInv'
<1>1. CASE state \in Running /\ ~Finishes(TRUE)
  <2>1. /\ Len(eval_meta') - EvalLaunched' <= Rank(eval_pipe', CoefficientPosition' + 1)
        /\ Len(bv_meta') - BvLaunched' <= Rank(bv_pipe', CoefficientPosition' + 1)
        /\ BvLanded' < 0 => CoefficientPosition' <= Latency
    BY <1>1, LaunchesBehind
  <2>2. bank_occupied'[PriorBank'] =>
          /\ ~bank_ready'[PriorBank'] => CoefficientPosition' <= Latency + 1
          /\ ~output'.active => CoefficientPosition' <= Latency + 2
          /\ output'.active =>
               CoefficientPosition' <= Latency + 3 + 2 * output'.ciphertext + output'.component
    BY <1>1, DrainsInTime
  <2>3. state' # "WAIT_BANK"
    <3>1. SUFFICES ASSUME state' = "WAIT_BANK" PROVE FALSE
      OBVIOUS
    <3>2. /\ Protocol(word, TRUE) /\ InputInv /\ DrainInv /\ BankInv
          /\ batch.count \in Nat \ {0}
      BY <1>1, BatchStep DEF Clock, FlowInv, CoreInv
    <3>3. state # "WAIT_BANK"
      BY <1>1 DEF TimelyInv
    <3>4. /\ state = "COEFFICIENT_DIGITS" /\ Handshake(word)
          /\ final_bv_ciphertext /\ final_bv_digit
          /\ ~next_bank_available
      BY <3>1, <3>2, <3>3
         DEF Protocol, AcceptCommand, AcceptModuli, AcceptReciprocals, AcceptCounts,
             AcceptOperand, AcceptKey, AcceptDigit, Discard, WaitBank, FinishBatch, Hold,
             protocolVars, Reject, Truncate, StartNextCoefficient, Goto,
             input_coefficient_complete
    <3>5. CoefficientPosition + 1 = CoefficientWords(batch)
          /\ CoefficientPosition \in Nat /\ CoefficientWords(batch) \in Nat
      BY <1>1, <3>2, <3>4, PositionLimits DEF InputDone
    <3>6. bank_occupied[PriorBank]
      BY <3>4 DEF next_bank_available, PriorBank
    <3>7. /\ output.ciphertext \in Nat /\ output.component \in 0..1
          /\ output.ciphertext < batch.count /\ Latency \in Nat
      BY <3>2, CoreAssumption DEF BankInv, DrainInv
    <3>8. CoefficientPosition <= Latency + 2 + 2 * batch.count
      <4>1. CASE ~output.active
        BY <1>1, <3>2, <3>5, <3>6, <3>7, <4>1 DEF TimelyInv
      <4>2. CASE output.active
        <5>1. CoefficientPosition <= Latency + 3 + 2 * output.ciphertext + output.component
          BY <1>1, <3>6, <4>2 DEF TimelyInv
        <5> QED BY <3>2, <3>5, <3>7, <5>1
      <4> QED BY <4>1, <4>2
    <3>9. CoefficientWords(batch) > Latency + 3 + 2 * batch.count
      BY <3>4 DEF RoomToDrain
    <3> QED BY <3>2, <3>5, <3>7, <3>8, <3>9
  <2> QED BY <2>1, <2>2, <2>3 DEF TimelyInv
<1>2. CASE state \in Running /\ Finishes(TRUE)
  <2>1. state' = "IDLE"
    BY <1>2, Advance DEF FlowInv, Clock
  <2> QED BY <2>1 DEF TimelyInv, Running, Keying, InputDone
<1>3. CASE state \notin Running
  <2>1. /\ InputInv /\ InputInv' /\ RestInv /\ MetadataInv /\ MetadataInv' /\ BankInv
        /\ BankInv' /\ state \in Idling /\ FlowInv' /\ CoreInv'
    BY <1>3, CoreStep, FlowStep DEF FlowInv, CoreInv, InputInv
  <2>2. CASE ~accepted_batch_header(word)
    <3>1. state' \in Idling
      BY <2>1, <2>2, RestStep
    <3> QED BY <3>1 DEF TimelyInv, Idling, Running, Keying, InputDone
  <2>3. CASE accepted_batch_header(word)
    <3>1. /\ state' = "COEFFICIENT_EVAL" /\ compute_bank' = 0
          /\ eval_input'.ciphertext = 0 /\ eval_input'.phase = 0
      BY <2>1, <2>3 DEF Clock, Protocol, AcceptCommand, AcceptModuli, AcceptReciprocals,
         AcceptCounts, AcceptOperand, AcceptKey, AcceptDigit, Discard, WaitBank, FinishBatch,
         Hold, protocolVars, Reject, Goto, RestartInput, accepted_batch_header, InputInv
    <3>2. eval_meta' = <<>> /\ bv_meta' = <<>> /\ ~bv_accum'.valid
      BY <2>1, <2>3, QueuesStayEmpty DEF Clock, RestInv, accepted_batch_header
    <3>3. EvalLaunched' = 0 /\ BvLaunched' = 0 /\ CoefficientPosition' = 0
      <4>1. EvalLaunched' = 0
        BY <3>1 DEF EvalLaunched
      <4>2. BvLaunched' = 0
        BY <3>1 DEF BvLaunched, Keying
      <4>3. CoefficientPosition' = (4 * eval_input'.ciphertext) + eval_input'.phase
        BY <3>1 DEF CoefficientPosition
      <4>4. CoefficientPosition' = 0
        BY <3>1, <4>3
      <4> QED BY <4>1, <4>2, <4>4
    <3>4. BvLanded' = 0
      <4>1. BvLanded' = BvLaunched' - Len(bv_meta') - (IF bv_accum'.valid THEN 1 ELSE 0)
        BY DEF BvLanded
      <4>2. Len(bv_meta') = 0
        BY <3>2
      <4>3. BvLanded' = BvLaunched' - Len(bv_meta') - 0
        BY <3>2, <4>1
      <4> QED BY <3>3, <4>2, <4>3
    <3>5. Rank(eval_pipe', 1) \in Nat /\ Rank(bv_pipe', 1) \in Nat
      BY RankNumbers
    <3>6. ~bank_occupied'[PriorBank']
      <4>1. bank_occupied' = [bank \in Banks |-> bank = 0]
        BY <2>3 DEF Clock, BankOwnership
      <4>2. PriorBank' = 1
        BY <3>1 DEF PriorBank, Other
      <4>3. 1 \in Banks /\ 1 # 0
        BY DEF Banks
      <4>4. bank_occupied'[1] = (1 = 0)
        BY <4>1, <4>3
      <4> QED BY <4>2, <4>3, <4>4
    <3>7. Len(eval_meta') = 0 /\ Len(bv_meta') = 0
      BY <3>2
    <3> QED BY <3>1, <3>3, <3>4, <3>5, <3>6, <3>7 DEF TimelyInv
  <2> QED BY <2>2, <2>3
<1> QED BY <1>1, <1>2, <1>3

(* Out of reset nothing is under way.                                      *)
LEMMA TimelyStarts == (CoreInit => TimelyInv) /\ (CoreReset => TimelyInv')
BY DEF CoreInit, CoreReset, TimelyInv, Running, Keying, InputDone

(* A step of the sender alone changes none of it.                          *)
LEMMA TimelyRests == ASSUME TimelyInv, UNCHANGED coreVars PROVE TimelyInv'
BY DEF coreVars, protocolVars, bankVars, outputVars, evalVars, bvVars, TimelyInv,
   EvalLaunched, BvLaunched, BvLanded, PriorBank, CoefficientPosition, Rank, Row, AllRows
=============================================================================
