-------------------------- MODULE MultiPairSession --------------------------
(***************************************************************************)
(* The persistent-output session wrapper around the relinearization core,  *)
(* rtl/evalmul3_bv_keyreuse_multi_pair_session_axis_core.sv, composed with *)
(* the core it instantiates.  One step is one clock edge of both.          *)
(***************************************************************************)
EXTENDS KeyreuseCore

CONSTANT MaxPairCount

ASSUME MaxPairAssumption == MaxPairCount \in Nat \ {0}

VARIABLES
  session_state, own_protocol_error,
  table,      \* profile_modulus/profile_mu_word and the counts around them
  session,    \* session_active, its counts, current and expected pair index
  frame_counts,
  payload,    \* payload_words_remaining and pair_input_complete
  fifo,       \* the registered two-word payload FIFO
  injection,  \* the header word offered to the child, and its valid bit
  session_completed

wrapperVars == <<session_state, own_protocol_error, table, session,
                 frame_counts, payload, fifo, injection, session_completed>>

PairIndexes == 0..(MaxPairCount - 1)

-----------------------------------------------------------------------------
(* Five-bit shift-add product and the twelve-bit sum built on it.          *)
multiply_small_unsigned(digit_value, batch_plus_two_value) ==
  LET partial(weight) ==
        ((digit_value \div weight) % 2) * ((batch_plus_two_value * weight) % 4096)
  IN (partial(1) + partial(2) + partial(4) + partial(8) + partial(16)) % 4096

words_per_coefficient(counts) ==
  LET count7  == counts.count % 128
      digits5 == counts.digits % 32
  IN ((4 * count7) + multiply_small_unsigned(digits5, (count7 + 2) % 128)) % 4096
pair_payload_words(counts) == words_per_coefficient(counts) * N

-----------------------------------------------------------------------------
(* Combinational wires.                                                    *)
session_tready ==
  \/ session_state \in {"IDLE", "PROFILE_COUNT", "PROFILE_Q", "PROFILE_MU",
                        "PAIR_COUNTS", "PAIR_INDEX", "DISCARD"}
  \/ session_state = "FORWARD_PAIR_DATA" /\ ~payload.complete /\ Len(fifo) < 2

Received(word) == word.is # "nothing" /\ session_tready

core_word ==
  IF session_state = "FORWARD_PAIR_DATA"
    THEN IF fifo # <<>> THEN Head(fifo) ELSE NoWord
    ELSE IF injection.valid THEN injection.word ELSE NoWord

final_profile_word == table.write_index + 1 = table.loading
(* A slip: the pair index itself is compared with the pair count.           *)
final_pair_late == session.current = table.loaded
final_pair == session.current + 1 = table.loaded
payload_final_word == payload.remaining = 1

payload_enqueue(word) == session_state = "FORWARD_PAIR_DATA" /\ Received(word)
(* A slip: a word leaves the FIFO whether or not the child takes it.        *)
payload_dequeue_blind == session_state = "FORWARD_PAIR_DATA" /\ fifo # <<>>
payload_dequeue == session_state = "FORWARD_PAIR_DATA" /\ Handshake(core_word)
(* A slip: a pair ends with its first coefficient.                          *)
pair_output_complete_early(ready) == output_coefficient_complete(ready)
pair_output_complete(ready) == output.active /\ ready /\ m_axis_tlast

(* A slip: every pair ends the output frame.                                *)
session_tlast_each_pair == m_axis_tlast
session_tlast == m_axis_tlast /\ final_pair

session_busy == session_state # "IDLE" \/ session.active \/ accelerator_busy

-----------------------------------------------------------------------------
(* The wrapper's state machine, one action per state.                      *)
Refuse(word) ==
  /\ own_protocol_error' = TRUE
  /\ session_state' = IF word.last THEN "IDLE" ELSE "DISCARD"
  /\ UNCHANGED <<table, session, frame_counts, payload, injection,
                 session_completed>>

Enter(next) == session_state' = next /\ UNCHANGED own_protocol_error

(* A slip: a table is accepted while a session is open.                     *)
ReceiveCommand_any_time(word) ==
  /\ session_state = "IDLE" /\ Received(word)
  /\ IF word.last \/ ~(word.is = "RLPT" \/ (word.is = "RLMP" /\ table.ready))
       THEN Refuse(word)
       ELSE /\ Enter(IF word.is = "RLPT" THEN "PROFILE_COUNT" ELSE "PAIR_COUNTS")
            /\ UNCHANGED <<table, session, frame_counts, payload, injection,
                           session_completed>>

ReceiveCommand(word) ==
  /\ session_state = "IDLE" /\ Received(word)
  /\ IF \/ word.last
        \/ ~( \/ word.is = "RLPT" /\ ~session.active
              \/ word.is = "RLMP" /\ table.ready )
       THEN Refuse(word)
       ELSE /\ Enter(IF word.is = "RLPT" THEN "PROFILE_COUNT" ELSE "PAIR_COUNTS")
            /\ UNCHANGED <<table, session, frame_counts, payload, injection,
                           session_completed>>

ReceivePairCount(word) ==
  /\ session_state = "PROFILE_COUNT" /\ Received(word)
  /\ IF word.last \/ word.is # "pairs" \/ word.value.pairs \notin 1..MaxPairCount
       THEN Refuse(word)
       ELSE /\ Enter("PROFILE_Q")
            /\ table' = [table EXCEPT !.loading = word.value.pairs, !.write_index = 0,
                                      !.ready = FALSE]
            /\ UNCHANGED <<session, frame_counts, payload, injection,
                           session_completed>>

ReceiveModuli(word) ==
  /\ session_state = "PROFILE_Q" /\ Received(word)
  /\ IF word.last \/ word.is # "moduli" \/ word.value \notin Profiles
       THEN Refuse(word)
       ELSE /\ Enter("PROFILE_MU")
            /\ table' = [table EXCEPT !.modulus[table.write_index] = word.value]
            /\ UNCHANGED <<session, frame_counts, payload, injection,
                           session_completed>>

ReceiveReciprocals(word) ==
  /\ session_state = "PROFILE_MU" /\ Received(word)
  /\ IF \/ word.last # final_profile_word
        \/ word.is # "reciprocals" \/ word.value \notin Profiles
       THEN Refuse(word)
     ELSE IF final_profile_word
       THEN /\ Enter("IDLE")
            /\ table' = [table EXCEPT !.mu[table.write_index] = word.value,
                                      !.loaded = table.loading, !.ready = TRUE]
            /\ session' = [session EXCEPT !.expected = 0]
            /\ session_completed' =
                 [session_completed EXCEPT !.profiles = @ + table.loading]
            /\ UNCHANGED <<frame_counts, payload, injection>>
       ELSE /\ Enter("PROFILE_Q")
            /\ table' = [table EXCEPT !.mu[table.write_index] = word.value,
                                      !.write_index = @ + 1]
            /\ UNCHANGED <<session, frame_counts, payload, injection,
                           session_completed>>

ReceiveCounts(word) ==
  /\ session_state = "PAIR_COUNTS" /\ Received(word)
  /\ IF word.last \/ ~ValidCounts(word)
       THEN Refuse(word)
       ELSE /\ Enter("PAIR_INDEX")
            /\ frame_counts' = word.value
            /\ UNCHANGED <<table, session, payload, injection, session_completed>>

Inject(is, value, last) ==
  injection' = [valid |-> TRUE, word |-> [is |-> is, value |-> value, last |-> last]]

(* The first pair of a session fixes its counts; the injected headers      *)
(* replace the ones the pair frame carried.                                *)
ReceivePairIndex(word) ==
  /\ session_state = "PAIR_INDEX" /\ Received(word)
  /\ IF \/ word.last \/ word.is # "index"
        \/ word.value.pairs # table.loaded \/ word.value.pair # session.expected
        \/ session.active /\ frame_counts # session.counts
        \/ pair_payload_words(frame_counts) = 0
       THEN Refuse(word)
       ELSE /\ Enter("INJECT_PROFILE_COMMAND")
            /\ session' = [session EXCEPT
                             !.current = session.expected, !.active = TRUE,
                             !.counts = IF session.active THEN @ ELSE frame_counts]
            /\ payload' = [remaining |-> pair_payload_words(frame_counts),
                           complete |-> FALSE]
            /\ Inject("RLPF", ZeroWord, FALSE)
            /\ UNCHANGED <<table, frame_counts, session_completed>>

Injected(from, to) ==
  /\ session_state = from /\ Handshake(core_word)
  /\ Enter(to)
  /\ UNCHANGED <<table, session, frame_counts, payload, session_completed>>

InjectHeaders ==
  \/ /\ Injected("INJECT_PROFILE_COMMAND", "INJECT_PROFILE_Q")
     /\ Inject("moduli", table.modulus[session.current], FALSE)
  \/ /\ Injected("INJECT_PROFILE_Q", "INJECT_PROFILE_MU")
     /\ Inject("reciprocals", table.mu[session.current], TRUE)
  \/ /\ Injected("INJECT_PROFILE_MU", "INJECT_BATCH_COMMAND")
     /\ Inject("RLCM", ZeroWord, FALSE)
  \/ /\ Injected("INJECT_BATCH_COMMAND", "INJECT_BATCH_COUNT")
     /\ Inject("counts", frame_counts, FALSE)
  \/ /\ Injected("INJECT_BATCH_COUNT", "FORWARD_PAIR_DATA")
     /\ injection' = [injection EXCEPT !.valid = FALSE]

(* A slip: a TLAST in the wrong place abandons the pair.                    *)
ForwardPairData_aborts(word) ==
  /\ session_state = "FORWARD_PAIR_DATA"
  /\ payload_enqueue(word) \/ payload_dequeue
  /\ session_state' =
       IF payload_enqueue(word) /\ word.last # payload_final_word THEN "IDLE"
       ELSE IF payload_dequeue /\ Head(fifo).last
         THEN "WAIT_PAIR_OUTPUT" ELSE session_state
  /\ own_protocol_error' =
       (own_protocol_error \/ (payload_enqueue(word) /\ word.last # payload_final_word))
  /\ payload' = IF ~payload_enqueue(word) THEN payload
                ELSE IF payload_final_word
                  THEN [payload EXCEPT !.complete = TRUE]
                  ELSE [payload EXCEPT !.remaining = @ - 1]
  /\ UNCHANGED <<table, session, frame_counts, injection, session_completed>>

(* Words are counted, not framed: TLAST in the wrong place is an error and *)
(* changes nothing else.                                                   *)
ForwardPairData(word) ==
  /\ session_state = "FORWARD_PAIR_DATA"
  /\ payload_enqueue(word) \/ payload_dequeue
  /\ session_state' = IF payload_dequeue /\ Head(fifo).last
                        THEN "WAIT_PAIR_OUTPUT" ELSE session_state
  /\ own_protocol_error' =
       (own_protocol_error \/ (payload_enqueue(word) /\ word.last # payload_final_word))
  /\ payload' = IF ~payload_enqueue(word) THEN payload
                ELSE IF payload_final_word
                  THEN [payload EXCEPT !.complete = TRUE]
                  ELSE [payload EXCEPT !.remaining = @ - 1]
  /\ UNCHANGED <<table, session, frame_counts, injection, session_completed>>

WaitPairOutput(ready) ==
  /\ session_state = "WAIT_PAIR_OUTPUT" /\ pair_output_complete(ready)
  /\ Enter("IDLE")
  /\ session' = [session EXCEPT !.active = ~final_pair,
                                !.expected = IF final_pair THEN 0 ELSE @ + 1]
  /\ session_completed' =
       [session_completed EXCEPT
          !.pairs = @ + 1,
          !.ciphertexts = IF final_pair THEN @ + session.counts.count ELSE @,
          !.batches = IF final_pair THEN @ + 1 ELSE @]
  /\ UNCHANGED <<table, frame_counts, payload, injection>>

(* What is left of a refused frame is dropped, and the session with it.    *)
DiscardFrame(word) ==
  /\ session_state = "DISCARD"
  /\ injection' = [injection EXCEPT !.valid = FALSE, !.word.last = FALSE]
  /\ IF Received(word) /\ word.last
       THEN /\ Enter("IDLE")
            /\ session' = [session EXCEPT !.active = FALSE, !.expected = 0]
       ELSE UNCHANGED <<session_state, own_protocol_error, session>>
  /\ UNCHANGED <<table, frame_counts, payload, session_completed>>

Waiting(word, ready) ==
  /\ \/ session_state \in {"IDLE", "PROFILE_COUNT", "PROFILE_Q", "PROFILE_MU",
                           "PAIR_COUNTS", "PAIR_INDEX"} /\ ~Received(word)
     \/ session_state \in {"INJECT_PROFILE_COMMAND", "INJECT_PROFILE_Q",
                           "INJECT_PROFILE_MU", "INJECT_BATCH_COMMAND",
                           "INJECT_BATCH_COUNT"} /\ ~Handshake(core_word)
     \/ session_state = "FORWARD_PAIR_DATA"
          /\ ~payload_enqueue(word) /\ ~payload_dequeue
     \/ session_state = "WAIT_PAIR_OUTPUT" /\ ~pair_output_complete(ready)
  /\ UNCHANGED <<session_state, own_protocol_error, table, session, frame_counts,
                 payload, injection, session_completed>>

SessionProtocol(word, ready) ==
  \/ ReceiveCommand(word)     \/ ReceivePairCount(word)
  \/ ReceiveModuli(word)      \/ ReceiveReciprocals(word)
  \/ ReceiveCounts(word)      \/ ReceivePairIndex(word)
  \/ InjectHeaders            \/ ForwardPairData(word)
  \/ WaitPairOutput(ready)    \/ DiscardFrame(word)
  \/ Waiting(word, ready)

(* A slip: the FIFO passes on the TLAST that came in.                       *)
PayloadFifo_passes_last(word) ==
  fifo' = (IF payload_dequeue THEN Tail(fifo) ELSE fifo)
            \o (IF payload_enqueue(word)
                  THEN <<[is |-> "payload", value |-> word.value, last |-> word.last]>>
                  ELSE <<>>)

(* The FIFO keeps the count's idea of the last word, not the frame's.      *)
PayloadFifo(word) ==
  fifo' = (IF payload_dequeue THEN Tail(fifo) ELSE fifo)
            \o (IF payload_enqueue(word)
                  THEN <<[is |-> "payload", value |-> word.value,
                          last |-> payload_final_word]>>
                  ELSE <<>>)

SessionClock(word, ready) ==
  /\ SessionProtocol(word, ready)
  /\ PayloadFifo(word)
  /\ Clock(core_word, ready)

(* Every register as reset_n leaves it.                                    *)
ResetTable ==
  [loading |-> 0, loaded |-> 0, write_index |-> 0, ready |-> FALSE,
   modulus |-> [pair \in PairIndexes |-> NoProfile],
   mu |-> [pair \in PairIndexes |-> NoProfile]]
ResetSession == [active |-> FALSE, counts |-> ResetBatch, current |-> 0, expected |-> 0]
ResetPayload == [remaining |-> 0, complete |-> FALSE]
ResetInjection == [valid |-> FALSE, word |-> NoWord]
ResetSessionCompleted == [profiles |-> 0, ciphertexts |-> 0, batches |-> 0, pairs |-> 0]

SessionInit ==
  /\ CoreInit
  /\ session_state = "IDLE" /\ own_protocol_error = FALSE
  /\ table = ResetTable /\ session = ResetSession /\ frame_counts = ResetBatch
  /\ payload = ResetPayload /\ fifo = <<>> /\ injection = ResetInjection
  /\ session_completed = ResetSessionCompleted

SessionReset ==
  /\ CoreReset
  /\ session_state' = "IDLE" /\ own_protocol_error' = FALSE
  /\ table' = ResetTable /\ session' = ResetSession /\ frame_counts' = ResetBatch
  /\ payload' = ResetPayload /\ fifo' = <<>> /\ injection' = ResetInjection
  /\ session_completed' = ResetSessionCompleted
=============================================================================
