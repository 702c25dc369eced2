--------------------------- MODULE KeyreuseTraffic ---------------------------
(***************************************************************************)
(* The core between a sender of frames and a receiver: profile and batch   *)
(* frames word by word with any gaps, any backpressure, resets at any      *)
(* clock, and, where Faults allows, the malformed frames the core answers  *)
(* with protocol_error.                                                    *)
(***************************************************************************)
EXTENDS KeyreuseCore

CONSTANTS
  Counts,       \* [count, digits] a batch frame may announce
  Faults,       \* subset of {"value", "short", "long", "order"}
  Settle,       \* after a faulty frame, wait until the core has drained
  Readiness,    \* values m_axis_tready may take
  MaxFrames, MaxResets

VARIABLES
  frame, sent,              \* the frame being sent, and its words accepted
  frames, resets,           \* frames started, resets applied
  job, accepted, delivered  \* batch under way, its coefficients, its words out

senderVars == <<frame, sent, frames, resets>>
jobVars == <<job, accepted, delivered>>
vars == <<coreVars, senderVars, jobVars>>

(* NoFrame remembers the fault of the frame before it.                     *)
NoFrame(fault) == [kind |-> "none", id |-> 0, value |-> NoProfile, fault |-> fault]
NoJob == [frame |-> 0, counts |-> [count |-> 0, digits |-> 0], profile |-> NoProfile]

Length(f) == IF f.kind = "profile" THEN 3 ELSE 2 + PayloadWords(f.value)

ProfileWord(f, index) ==
  CASE index = 0 -> [is |-> "RLPF", value |-> ZeroWord]
    [] index = 1 -> [is |-> "moduli", value |-> f.value]
    [] OTHER     -> [is |-> "reciprocals", value |-> f.value]
BatchWord(f, index) ==
  CASE index = 0 -> [is |-> "RLCM", value |-> ZeroWord]
    [] index = 1 -> [is |-> "counts", value |-> f.value]
    [] OTHER     -> [is |-> "payload", value |-> Payload(f.id, index - 2)]

Marked(word, last) == [is |-> word.is, value |-> word.value, last |-> last]
FrameWord(f, index) ==
  Marked(IF f.kind = "profile" THEN ProfileWord(f, index) ELSE BatchWord(f, index),
         index = Length(f) - 1)

(* What a faulty frame may hold instead of its index-th word.              *)
FaultyWords(f, index) ==
  LET good == FrameWord(f, index) IN
  CASE f.fault = "value" /\ index = 1 /\ f.kind = "batch" ->
         {[good EXCEPT !.value = [count |-> MinBatch - 1, digits |-> 1]],
          [good EXCEPT !.value = [count |-> MinBatch, digits |-> MaxDigits + 1]]}
    [] f.fault = "value" /\ index > 0 /\ f.kind = "profile" ->
         {[good EXCEPT !.value = NoProfile]}
    [] f.fault = "short" -> {[good EXCEPT !.last = TRUE]}
    [] f.fault = "long" /\ index >= Length(f) - 1 ->
         {[good EXCEPT !.last = index = Length(f)]}
    [] OTHER -> {}

Offered ==
  IF frame.kind = "none" THEN {NoWord}
  ELSE {NoWord} \union FaultyWords(frame, sent)
         \union (IF frame.fault = "long" /\ sent >= Length(frame) - 1
                   THEN {} ELSE {FrameWord(frame, sent)})

(* The core will do nothing more of its own accord.                        *)
Settled ==
  /\ eval_meta = <<>> /\ bv_meta = <<>> /\ ~bv_accum.valid
  /\ ~output.active /\ ~bank_ready[output.coefficient_index % 2]
  /\ \A bank \in Banks : ~compute_complete(bank)

(* The sender chooses its next frame, without waiting for a clock.  A      *)
(* batch frame is well ordered only behind a loaded profile.               *)
Begin(kind, value, fault) ==
  frame' = [kind |-> kind, id |-> frames + 1, value |-> value, fault |-> fault]

StartFrame ==
  /\ frame.kind = "none" /\ frames < MaxFrames
  /\ Settle /\ frame.fault # "none" => Settled
  /\ \E fault \in Faults \union {"none"} :
       \/ fault # "order" /\ \E p \in Profiles : Begin("profile", p, fault)
       \/ /\ (fault = "order") <=> ~profile.ready
          /\ \E counts \in Counts : Begin("batch", counts, fault)
  /\ frames' = frames + 1
  /\ UNCHANGED <<coreVars, jobVars, sent, resets>>

Send(word) ==
  /\ frame' = IF Handshake(word) /\ word.last THEN NoFrame(frame.fault) ELSE frame
  /\ sent' = IF ~Handshake(word) THEN sent ELSE IF word.last THEN 0 ELSE sent + 1
  /\ UNCHANGED frames

Follow(word, ready) ==
  IF accepted_batch_header(word)
    THEN /\ job' = [frame |-> frame.id, counts |-> word.value, profile |-> LoadedProfile]
         /\ accepted' = 0 /\ delivered' = 0
    ELSE /\ accepted' = IF input_coefficient_complete(word)
                          THEN accepted + 1 ELSE accepted
         /\ delivered' = IF output.active /\ ready THEN delivered + 1 ELSE delivered
         /\ UNCHANGED job

Tick(word, ready) ==
  Clock(word, ready) /\ Send(word) /\ Follow(word, ready) /\ UNCHANGED resets

Reset ==
  /\ resets < MaxResets
  /\ resets' = resets + 1
  /\ CoreReset
  /\ frame' = NoFrame("none") /\ sent' = 0 /\ UNCHANGED frames
  /\ job' = NoJob /\ accepted' = 0 /\ delivered' = 0

Init ==
  /\ CoreInit
  /\ frame = NoFrame("none") /\ sent = 0 /\ frames = 0 /\ resets = 0
  /\ job = NoJob /\ accepted = 0 /\ delivered = 0

Next ==
  \/ \E word \in Offered, ready \in Readiness : Tick(word, ready)
  \/ StartFrame
  \/ Reset

Spec == Init /\ [][Next]_vars

(* The clock runs; a sender with a frame begun keeps offering its next     *)
(* word; a receiver faced with a word is eventually ready.                 *)
Runs  == \E word \in Offered, ready \in Readiness : Tick(word, ready)
Sends == \E word \in Offered \ {NoWord}, ready \in Readiness : Tick(word, ready)
Takes == output.active /\ \E word \in Offered : Tick(word, TRUE)

FairSpec == Spec /\ WF_vars(Runs) /\ WF_vars(Sends) /\ WF_vars(Takes)

-----------------------------------------------------------------------------
(* Every register holds a value of its width: counters stay within the     *)
(* batch, metadata queues within their depth, and the output scheduler     *)
(* within the bank memories.                                               *)
TypeOK ==
  /\ state \in {"IDLE", "PROFILE_Q", "PROFILE_MU", "BATCH_HEADER",
                "COEFFICIENT_EVAL", "COEFFICIENT_KEY_B", "COEFFICIENT_KEY_A",
                "COEFFICIENT_DIGITS", "WAIT_BANK", "WAIT_BATCH_OUTPUT", "DISCARD"}
  /\ profile.q \in Profiles \union {NoProfile}
  /\ profile.mu \in Profiles \union {NoProfile}
  /\ coefficient_index \in 0..LastCoefficient /\ compute_bank \in Banks
  /\ eval_input.ciphertext \in Ciphertexts /\ eval_input.phase \in 0..3
  /\ bv_input.ciphertext \in Ciphertexts /\ bv_input.digit \in 0..(MaxDigits - 1)
  /\ output.ciphertext \in Ciphertexts /\ output.component \in 0..1
  /\ output.bank \in Banks /\ output.coefficient_index \in 0..LastCoefficient
  /\ Len(eval_meta) <= EvalMetaDepth /\ Len(bv_meta) <= BvMetaDepth
  /\ \A bank \in Banks : eval_result_count[bank] <= batch.count
                         /\ bv_final_result_count[bank] <= batch.count

(* Every word on m_axis is the exact relinearization of the words of the   *)
(* current batch frame, in coefficient, ciphertext, component order, and   *)
(* TLAST marks the batch's last one: nothing of the other bank, of an      *)
(* earlier frame or of an uninitialised memory ever shows.  A batch begun  *)
(* under moduli whose reciprocals were refused is owed nothing exact.      *)
StreamExact ==
  output.active /\ job.profile \in Profiles =>
    /\ m_axis_tdata = Relinearized(job, delivered)
    /\ m_axis_tlast <=> delivered = OutputWords(job.counts) - 1

(* Results only land in a bank that is filling: none is on its way to a    *)
(* bank that is free or already handed to the output.                      *)
LandsOnlyInFillingBank ==
  \A bank \in Banks : ~bank_occupied[bank] \/ bank_ready[bank] =>
    /\ \A i \in DOMAIN eval_meta : eval_meta[i].bank # bank
    /\ \A i \in DOMAIN bv_meta : bv_meta[i].bank # bank
    /\ ~(bv_accum.valid /\ bv_accum.bank = bank)

(* Between batches the two independent completion counters agree: one is   *)
(* counted word by word at the output, one batch by batch by the protocol. *)
CountersAgree ==
  state = "IDLE" => completed_coefficients = N * completed.ciphertexts

(* However a frame went wrong, its TLAST brings the core back to where it  *)
(* reads the next word as a command.                                       *)
FramesStayAligned ==
  sent = 0 => state \in {"IDLE", "WAIT_BATCH_OUTPUT"}

(* A receiver that is always ready never costs the sender a clock between  *)
(* coefficients: the bank of the one before the last is free in time.      *)
NeverWaitsForBank == state # "WAIT_BANK"

(* The simulation assertion of the core: an EvalMul result is for a bank   *)
(* that is occupied.                                                       *)
EvalResultTargetsOccupiedBank ==
  eval_meta_pop => bank_occupied[Head(eval_meta).bank]

(* A batch whose header was accepted is delivered to its last word and the *)
(* core returns to IDLE, unless a reset ends it.                           *)
BatchDelivered ==
  state = "COEFFICIENT_EVAL" ~>
    /\ state = "IDLE"
    /\ job = NoJob \/ delivered = OutputWords(job.counts)

(* The core implements the stream it promises.                             *)
Shown ==
  IF output.active
    THEN [valid |-> TRUE, data |-> m_axis_tdata, last |-> m_axis_tlast]
    ELSE [valid |-> FALSE]

Stream ==
  INSTANCE RelinStream WITH
    stream <- Shown,
    Jobs <- [frame : 1..MaxFrames, counts : Counts, profile : Profiles]

(* Ordered, exact, stable under backpressure, behind its whole input and   *)
(* at most two coefficients ahead of its output: RelinStream, step by step.*)
ImplementsStream == Stream!Spec
=============================================================================
