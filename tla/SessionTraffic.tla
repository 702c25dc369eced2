--------------------------- MODULE SessionTraffic ---------------------------
(***************************************************************************)
(* The session wrapper and its core between a host that sends profile      *)
(* tables and indexed pair frames and a receive channel with any           *)
(* backpressure.  A well-formed host follows the session protocol; where   *)
(* Faults allows, frames are cut short, run long, carry refused values or  *)
(* come in the wrong order.                                                *)
(***************************************************************************)
EXTENDS MultiPairSession

CONSTANTS
  Tables,    \* sequences of profiles a table frame may load
  Counts,    \* [count, digits] a session may use
  Faults,    \* subset of {"value", "short", "long"}
  MaxFrames, MaxResets

VARIABLES
  frame, sent, frames,      \* the frame being sent, its words accepted, frames begun
  resets,                   \* resets applied
  host_table, jobs, delivered

hostVars == <<frame, sent, frames, resets, host_table, jobs, delivered>>
vars == <<coreVars, wrapperVars, hostVars>>

NoFrame == [kind |-> "none", id |-> 0, value |-> <<>>, pair |-> 0, fault |-> "none"]

Length(f) ==
  IF f.kind = "table" THEN 2 + 2 * Len(f.value) ELSE 3 + PayloadWords(f.value)

TableWord(f, index) ==
  CASE index = 0 -> [is |-> "RLPT", value |-> ZeroWord]
    [] index = 1 -> [is |-> "pairs", value |-> [pairs |-> Len(f.value)]]
    [] OTHER     -> [is |-> IF index % 2 = 0 THEN "moduli" ELSE "reciprocals",
                     value |-> f.value[index \div 2]]
PairWord(f, index) ==
  CASE index = 0 -> [is |-> "RLMP", value |-> ZeroWord]
    [] index = 1 -> [is |-> "counts", value |-> f.value]
    [] index = 2 -> [is |-> "index",
                     value |-> [pairs |-> Len(host_table), pair |-> f.pair]]
    [] OTHER     -> [is |-> "payload", value |-> Payload(f.id, index - 3)]

FrameWord(f, index) ==
  LET word == IF f.kind = "table" THEN TableWord(f, index) ELSE PairWord(f, index)
  IN [is |-> word.is, value |-> word.value, last |-> index = Length(f) - 1]

(* A word its state refuses by value, whatever it is.                      *)
Refusable(word) == word.is \notin {"RLPT", "RLMP", "payload"}

FaultyWords(f, index) ==
  LET good == FrameWord(f, index) IN
  CASE f.fault = "value" /\ Refusable(good) -> {[good EXCEPT !.is = "refused"]}
    [] f.fault = "short" -> {[good EXCEPT !.last = TRUE]}
    [] f.fault = "long" /\ index = Length(f) - 1 -> {[good EXCEPT !.last = FALSE]}
    [] OTHER -> {}

(* The words a host has to offer: an overlong frame ends one word late.    *)
Offered ==
  IF frame.kind = "none" THEN {NoWord}
  ELSE IF frame.fault = "long" /\ sent = Length(frame)
    THEN {NoWord, [is |-> "payload", value |-> ZeroWord, last |-> TRUE]}
  ELSE IF frame.fault = "long" /\ sent = Length(frame) - 1
    THEN {NoWord} \union FaultyWords(frame, sent)
  ELSE {NoWord, FrameWord(frame, sent)} \union FaultyWords(frame, sent)

SessionWords == Len(host_table) * OutputWords(jobs[1].counts)
Between ==
  jobs # <<>> => Len(jobs) = Len(host_table) /\ delivered = SessionWords

(* The host chooses its next frame, without waiting for a clock.           *)
Begin(kind, value, pair, fault) ==
  /\ frame.kind = "none" /\ frames < MaxFrames
  /\ frame' = [kind |-> kind, id |-> frames + 1, value |-> value,
               pair |-> pair, fault |-> fault]
  /\ frames' = frames + 1
  /\ UNCHANGED <<coreVars, wrapperVars, sent, resets>>

(* A table or a session starts only once every word of the last session is *)
(* there; a host whose frames may be faulty may also start over.           *)
StartTable ==
  \E t \in Tables, fault \in Faults \union {"none"} :
    /\ Faults = {} => Between
    /\ Begin("table", t, 0, fault)
    /\ host_table' = t /\ jobs' = <<>> /\ delivered' = 0

Job(pair, counts) ==
  [frame |-> frames + 1, counts |-> counts, profile |-> host_table[pair + 1]]

StartSession ==
  \E counts \in Counts, fault \in Faults \union {"none"} :
    /\ host_table # <<>> /\ frames + Len(host_table) <= MaxFrames
    /\ (Faults = {} => Between)
    /\ Begin("pair", counts, 0, fault)
    /\ jobs' = <<Job(0, counts)>> /\ delivered' = 0
    /\ UNCHANGED host_table

StartPair ==
  \E fault \in Faults \union {"none"} :
    /\ jobs # <<>> /\ Len(jobs) < Len(host_table)
    /\ Begin("pair", jobs[1].counts, Len(jobs), fault)
    /\ jobs' = Append(jobs, Job(Len(jobs), jobs[1].counts))
    /\ UNCHANGED <<host_table, delivered>>

Send(word) ==
  /\ frame' = IF Received(word) /\ word.last THEN NoFrame ELSE frame
  /\ sent' = IF ~Received(word) THEN sent ELSE IF word.last THEN 0 ELSE sent + 1

Tick(word, ready) ==
  /\ SessionClock(word, ready)
  /\ Send(word)
  /\ delivered' = IF output.active /\ ready THEN delivered + 1 ELSE delivered
  /\ UNCHANGED <<frames, resets, host_table, jobs>>

(* The host starts over with an accelerator that remembers nothing.        *)
Reset ==
  /\ resets < MaxResets
  /\ resets' = resets + 1
  /\ SessionReset
  /\ frame' = NoFrame /\ sent' = 0 /\ UNCHANGED frames
  /\ host_table' = <<>> /\ jobs' = <<>> /\ delivered' = 0

Init ==
  /\ SessionInit
  /\ frame = NoFrame /\ sent = 0 /\ frames = 0 /\ resets = 0
  /\ host_table = <<>> /\ jobs = <<>> /\ delivered = 0

Next ==
  \/ StartTable \/ StartSession \/ StartPair
  \/ \E word \in Offered, ready \in BOOLEAN : Tick(word, ready)
  \/ Reset

Spec == Init /\ [][Next]_vars

(* The clock runs; a frame once begun is offered word by word; the host    *)
(* submits the pairs of a session it opened; the receive channel, armed    *)
(* before the first pair, takes what it is shown.                          *)
Runs  == \E word \in Offered, ready \in BOOLEAN : Tick(word, ready)
Sends == \E word \in Offered \ {NoWord}, ready \in BOOLEAN : Tick(word, ready)
Takes == output.active /\ \E word \in Offered : Tick(word, TRUE)

FairSpec ==
  Spec /\ WF_vars(Runs) /\ WF_vars(Sends) /\ WF_vars(Takes) /\ WF_vars(StartPair)

-----------------------------------------------------------------------------
(* Whatever the host sends, the child core is only ever given well-formed  *)
(* frames: its protocol_error never rises.  The wrapper's twelve-bit word  *)
(* count and the child's counters must agree on where a pair ends.         *)
ChildNeverErrs == ~protocol_error

(* The child's last output word of a pair never passes unseen: the wrapper *)
(* is waiting for it, in an active session (its simulation assertion).     *)
PairOutputSeen ==
  output.active /\ m_axis_tlast =>
    session.active /\ session_state = "WAIT_PAIR_OUTPUT"

(* The child has nothing in flight, on the stream or in its banks whenever *)
(* the wrapper reads commands, refuses a frame or injects a new profile:   *)
(* moduli never change under a product.                                    *)
ChildRests ==
  session_state \notin {"FORWARD_PAIR_DATA", "WAIT_PAIR_OUTPUT"} =>
    /\ eval_meta = <<>> /\ bv_meta = <<>> /\ ~bv_accum.valid /\ ~output.active
    /\ \A stage \in 1..Latency : ~eval_pipe[stage].valid /\ ~bv_pipe[stage].valid
    /\ session_state # "INJECT_BATCH_COUNT" =>
         \A bank \in Banks : ~bank_occupied[bank] /\ ~bank_ready[bank]

(* The wrapper's count of the words still to come, the words waiting in    *)
(* its FIFO and the child's own counters tell the same position in a pair. *)
ChildConsumed ==
  LET words == CoefficientWords(batch)
      keys  == (4 * batch.count) + bv_input.digit * (batch.count + 2)
  IN coefficient_index * words +
       CASE state = "COEFFICIENT_EVAL"   -> (4 * eval_input.ciphertext) + eval_input.phase
         [] state = "COEFFICIENT_KEY_B"  -> keys
         [] state = "COEFFICIENT_KEY_A"  -> keys + 1
         [] state = "COEFFICIENT_DIGITS" -> keys + 2 + bv_input.ciphertext
         [] OTHER                        -> words
WordCountsAgree ==
  session_state = "FORWARD_PAIR_DATA" =>
    ChildConsumed + Len(fifo) + (IF payload.complete THEN 0 ELSE payload.remaining)
      = PayloadWords(frame_counts)

(* An open session keeps the table it was opened on.                       *)
TableHeldInSession ==
  [][session.active /\ session'.active =>
       /\ table'.loaded = table.loaded
       /\ \A pair \in 0..(table.loaded - 1) :
            /\ table'.modulus[pair] = table.modulus[pair]
            /\ table'.mu[pair] = table.mu[pair]]_vars

(* Every pair of a session a well-behaved host opened is delivered, and    *)
(* the accelerator becomes free again.                                     *)
SessionDelivered == session.active ~> Between /\ ~session_busy

(* The wrapper and its core implement the persistent-output session.       *)
Shown ==
  IF output.active
    THEN [valid |-> TRUE, data |-> m_axis_tdata, last |-> session_tlast]
    ELSE [valid |-> FALSE]

Promise == INSTANCE RelinSession WITH table <- host_table, stream <- Shown

(* One output frame per session: in pair order, exact under each pair's    *)
(* own profile, stable under backpressure, with a single TLAST.            *)
ImplementsSession == Promise!Spec
=============================================================================
