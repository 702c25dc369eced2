--------------------------- MODULE KeyreuseProofs ---------------------------
(***************************************************************************)
(* The relinearization core under every traffic KeyreuseTraffic allows,    *)
(* well formed or not, with resets at any clock.                           *)
(***************************************************************************)
EXTENDS KeyreuseTraffic, KeyreuseCoreProofs

(* Queues and pipelines stay in step, and a bank is drained only while it  *)
(* is handed over and occupied, at every clock of every behaviour.         *)
THEOREM CoreInvariant == Spec => []CoreInv
<1>1. Init => CoreInv
  BY CoreStarts DEF Init
<1>2. CoreInv /\ [Next]_vars => CoreInv'
  <2> SUFFICES ASSUME CoreInv, [Next]_vars PROVE CoreInv'
    OBVIOUS
  <2>1. ASSUME NEW word, NEW ready, Tick(word, ready) PROVE CoreInv'
    BY <2>1, CoreStep DEF Tick
  <2>2. ASSUME UNCHANGED coreVars PROVE CoreInv'
    BY <2>2, CoreStep
  <2>3. CASE Reset
    BY <2>3, CoreStarts DEF Reset
  <2> QED BY <2>1, <2>2, <2>3 DEF Next, StartFrame, vars
<1> QED BY <1>1, <1>2, PTL DEF Spec

(* Every product in flight has its one metadata entry, whatever frames are *)
(* truncated, refused, reordered or reset away.                            *)
THEOREM MetadataLockstep == Spec => []MetadataInStep
<1>1. CoreInv => MetadataInStep
  BY DEF CoreInv, MetadataInv
<1> QED BY <1>1, CoreInvariant, PTL

(* Queues deeper than the multipliers are long, as 16 and 32 are beside 8, *)
(* never make the core hold back an input word.                            *)
THEOREM CreditsSuffice ==
  ASSUME EvalMetaDepth > Latency, BvMetaDepth > Latency
  PROVE  Spec => []CreditsNeverStall
<1>1. CoreInv => CreditsNeverStall
  BY CreditsLeft
<1> QED BY <1>1, CoreInvariant, PTL

(* A coefficient being output is never given up to another one before its  *)
(* last word is taken.                                                     *)
THEOREM BankHeld == Spec => []DrainedBankHeld
<1>1. CoreInv => DrainedBankHeld
  BY DEF CoreInv, BankInv, DrainedBankHeld
<1> QED BY <1>1, CoreInvariant, PTL

(* However a frame went wrong, its TLAST leaves the core where it reads    *)
(* the next word as a command.                                             *)
THEOREM AlignmentKept == Spec => []FramesStayAligned
<1> DEFINE Inv == sent \in Nat /\ FramesStayAligned
<1>1. Init => Inv
  BY DEF Init, CoreInit, FramesStayAligned
<1>2. Inv /\ [Next]_vars => Inv'
  <2> SUFFICES ASSUME Inv, [Next]_vars PROVE Inv'
    OBVIOUS
  <2>1. ASSUME NEW word, NEW ready, Tick(word, ready) PROVE Inv'
    <3>1. sent' = IF ~Handshake(word) THEN sent ELSE IF word.last THEN 0 ELSE sent + 1
      BY <2>1 DEF Tick, Send
    <3>2. Protocol(word, ready)
      BY <2>1 DEF Tick, Clock
    <3>3. ASSUME ~Handshake(word), state \in {"IDLE", "WAIT_BATCH_OUTPUT"}
          PROVE  state' \in {"IDLE", "WAIT_BATCH_OUTPUT"}
      BY <3>2, <3>3 DEF Protocol, WaitBank, FinishBatch, Goto, Hold, protocolVars
    <3>4. ASSUME Handshake(word), word.last
          PROVE  state' \in {"IDLE", "WAIT_BATCH_OUTPUT"}
      <4>1. state \notin {"WAIT_BANK", "WAIT_BATCH_OUTPUT"}
        BY <3>4 DEF Handshake, s_axis_tready
      <4>2. CASE AcceptDigit(word)
        BY <3>4, <4>2 DEF AcceptDigit, Reject, Goto, final_external_payload_word,
           input_coefficient_complete, final_bv_ciphertext, final_bv_digit
      <4>3. CASE AcceptCommand(word) \/ AcceptModuli(word) \/ AcceptReciprocals(word)
                 \/ AcceptCounts(word) \/ AcceptOperand(word) \/ AcceptKey(word)
                 \/ Discard(word)
        BY <3>4, <4>3 DEF AcceptCommand, AcceptModuli, AcceptReciprocals, AcceptCounts,
           AcceptOperand, AcceptKey, Discard, Reject, Truncate, Goto
      <4> QED BY <3>2, <3>4, <4>1, <4>2, <4>3 DEF Protocol, WaitBank, FinishBatch, Hold
    <3> QED BY <3>1, <3>3, <3>4 DEF FramesStayAligned
  <2>2. CASE Reset
    BY <2>2 DEF Reset, CoreReset, FramesStayAligned
  <2>3. CASE UNCHANGED <<state, sent>>
    BY <2>3 DEF FramesStayAligned
  <2> QED BY <2>1, <2>2, <2>3 DEF Next, StartFrame, vars, coreVars, protocolVars, senderVars
<1> QED BY <1>1, <1>2, PTL DEF Spec

-----------------------------------------------------------------------------
(* A sender without faults: every frame it begins is well formed and well  *)
(* ordered, whatever gaps, backpressure, back-to-back frames and resets.   *)
WellFormed ==
  Faults = {} /\ Counts \subseteq [count : MinBatch..MaxBatch, digits : 1..MaxDigits]

(* The word being sent, the state that reads it and the core's counters    *)
(* tell the same position in the frame.                                    *)
FrameInv ==
  /\ sent \in Nat /\ frame.fault = "none"
  /\ DOMAIN profile = {"q", "mu", "ready"}
  /\ frame.kind \in {"none", "profile", "batch"}
  /\ frame.kind = "none" => sent = 0
  /\ frame.kind = "profile" => frame.value \in Profiles
  /\ frame.kind = "batch" => frame.value \in Counts /\ profile.ready
  /\ state \in {"IDLE", "WAIT_BATCH_OUTPUT"} => sent = 0
  /\ state = "PROFILE_Q" => frame.kind = "profile" /\ sent = 1
  /\ state = "PROFILE_MU" => frame.kind = "profile" /\ sent = 2
  /\ state = "BATCH_HEADER" => frame.kind = "batch" /\ sent = 1
  /\ state \in Running \ {"WAIT_BATCH_OUTPUT"} =>
       frame.kind = "batch" /\ frame.value = batch /\ sent = 2 + Consumed

(* What a batch frame may announce is what the core takes.                 *)
LEMMA CountsFit ==
  ASSUME WellFormed, NEW counts \in Counts
  PROVE  /\ DOMAIN counts = {"count", "digits"}
         /\ counts.count \in MinBatch..MaxBatch /\ counts.digits \in 1..MaxDigits
         /\ PayloadWords(counts) \in Nat \ {0}
<1> DEFINE c == counts.count
           d == counts.digits
<1>1. counts \in [count : MinBatch..MaxBatch, digits : 1..MaxDigits]
  BY DEF WellFormed
<1>2. /\ DOMAIN counts = {"count", "digits"}
      /\ c \in MinBatch..MaxBatch /\ d \in 1..MaxDigits
  BY <1>1
<1>3. c \in Nat \ {0} /\ d \in Nat \ {0} /\ N \in Nat \ {0}
  BY <1>2, CoreAssumption
<1>4. PayloadWords(counts) = N * (4 * c + d * (c + 2))
  BY DEF PayloadWords, CoefficientWords
<1>5. 4 * c + d * (c + 2) \in Nat \ {0}
  <2>1. d * (c + 2) \in Nat /\ 4 * c \in Nat \ {0}
    <3> HIDE DEF c, d
    <3> QED BY <1>3
  <2> HIDE DEF c, d
  <2> QED BY <2>1
<1>6. \A x, y \in Nat \ {0} : x * y \in Nat \ {0}
  OBVIOUS
<1>7. PayloadWords(counts) \in Nat \ {0}
  <2> HIDE DEF c, d
  <2> QED BY <1>3, <1>4, <1>5, <1>6
<1> QED BY <1>2, <1>7

(* The sender offers what the core expects next, or nothing.               *)
LEMMA OfferedIsGood ==
  ASSUME WellFormed, InputInv, FrameInv, NEW word \in Offered
  PROVE  /\ GoodWord(word)
         /\ Handshake(word) =>
              /\ word = FrameWord(frame, sent) /\ frame.kind # "none"
              /\ state = "IDLE" =>
                   (word.is = "RLPF" /\ frame.kind = "profile")
                     \/ (word.is = "RLCM" /\ frame.kind = "batch")
              /\ state = "BATCH_HEADER" => word.value = frame.value
<1>1. word = NoWord \/ (frame.kind # "none" /\ word = FrameWord(frame, sent))
  BY DEF Offered, FaultyWords, FrameInv
<1>2. SUFFICES ASSUME Handshake(word)
               PROVE  /\ GoodWord(word)
                      /\ word = FrameWord(frame, sent) /\ frame.kind # "none"
                      /\ state = "IDLE" =>
                           (word.is = "RLPF" /\ frame.kind = "profile")
                             \/ (word.is = "RLCM" /\ frame.kind = "batch")
                      /\ state = "BATCH_HEADER" => word.value = frame.value
  BY DEF GoodWord
<1>3. word = FrameWord(frame, sent) /\ frame.kind \in {"profile", "batch"} /\ sent \in Nat
  BY <1>1, <1>2 DEF Handshake, NoWord, FrameInv
<1>4. word.last <=> sent = Length(frame) - 1
  BY <1>3 DEF FrameWord, Marked
<1>5. frame.kind = "profile" =>
        /\ Length(frame) = 3 /\ frame.value \in Profiles
        /\ sent = 0 => word.is = "RLPF"
        /\ sent = 1 => word.is = "moduli" /\ word.value = frame.value
        /\ sent = 2 => word.is = "reciprocals" /\ word.value = frame.value
  BY <1>3 DEF FrameWord, Marked, ProfileWord, Length, FrameInv
<1>6. frame.kind = "batch" =>
        /\ Length(frame) = 2 + PayloadWords(frame.value) /\ frame.value \in Counts
        /\ profile.ready
        /\ sent = 0 => word.is = "RLCM"
        /\ sent = 1 => word.is = "counts" /\ word.value = frame.value
  BY <1>3 DEF FrameWord, Marked, BatchWord, Length, FrameInv
<1>7. frame.kind = "batch" =>
        /\ DOMAIN frame.value = {"count", "digits"}
        /\ frame.value.count \in MinBatch..MaxBatch /\ frame.value.digits \in 1..MaxDigits
        /\ PayloadWords(frame.value) \in Nat \ {0}
  BY <1>6, CountsFit
<1>8. CASE state = "IDLE"
  <2>1. sent = 0
    BY <1>8 DEF FrameInv
  <2>2. ~word.last
    BY <1>3, <1>4, <1>5, <1>6, <1>7, <2>1
  <2> QED BY <1>3, <1>5, <1>6, <1>8, <2>1, <2>2
          DEF GoodWord, Running, Keying, InputDone
<1>9. CASE state = "PROFILE_Q" \/ state = "PROFILE_MU"
  BY <1>3, <1>4, <1>5, <1>9 DEF FrameInv, GoodWord, Running, Keying, InputDone
<1>10. CASE state = "BATCH_HEADER"
  <2>1. frame.kind = "batch" /\ sent = 1
    BY <1>10 DEF FrameInv
  <2>2. ~word.last
    BY <1>4, <1>6, <1>7, <2>1
  <2>3. ValidCounts(word)
    BY <1>6, <1>7, <2>1 DEF ValidCounts
  <2> QED BY <1>3, <1>6, <1>7, <1>10, <2>1, <2>2, <2>3
          DEF GoodWord, Running, Keying, InputDone
<1>11. CASE state \in Running
  <2>1. state \notin InputDone
    BY <1>2 DEF Handshake, s_axis_tready, InputDone
  <2>2. frame.kind = "batch" /\ frame.value = batch /\ sent = 2 + Consumed
    BY <1>11, <2>1 DEF FrameInv, InputDone
  <2>3. /\ Consumed \in Nat
        /\ Consumed + 1 = PayloadWords(batch) <=>
             state = "COEFFICIENT_DIGITS" /\ final_external_payload_word
    BY <1>11, <2>1, LastPosition
  <2>4. word.last <=> Consumed + 1 = PayloadWords(batch)
    BY <1>4, <1>6, <1>7, <2>2, <2>3
  <2> QED BY <1>3, <1>11, <2>3, <2>4 DEF GoodWord, Running, Keying, InputDone
<1> QED BY <1>8, <1>9, <1>10, <1>11 DEF InputInv, Idling

(* Sender and core advance together, word by word.                         *)
LEMMA FrameStep ==
  ASSUME WellFormed, CoreInv, FlowInv, FrameInv, NEW word \in Offered, NEW ready,
         Tick(word, ready)
  PROVE  FlowInv' /\ FrameInv'
<1>1. /\ GoodWord(word)
      /\ Handshake(word) =>
           /\ word = FrameWord(frame, sent) /\ frame.kind # "none"
           /\ state = "IDLE" =>
                (word.is = "RLPF" /\ frame.kind = "profile")
                  \/ (word.is = "RLCM" /\ frame.kind = "batch")
           /\ state = "BATCH_HEADER" => word.value = frame.value
  BY OfferedIsGood DEF FlowInv
<1>2. FlowInv' /\ InputInv /\ InputInv'
  BY <1>1, FlowStep DEF Tick, FlowInv
<1>3. Protocol(word, ready)
  BY DEF Tick, Clock
<1>4. /\ frame' = IF Handshake(word) /\ word.last THEN NoFrame(frame.fault) ELSE frame
      /\ sent' = IF ~Handshake(word) THEN sent ELSE IF word.last THEN 0 ELSE sent + 1
  BY DEF Tick, Send
<1>5. /\ DOMAIN profile' = {"q", "mu", "ready"}
      /\ profile.ready => profile'.ready
  BY <1>3 DEF Protocol, AcceptCommand, AcceptModuli, AcceptReciprocals, AcceptCounts,
     AcceptOperand, AcceptKey, AcceptDigit, Discard, WaitBank, FinishBatch, Hold,
     protocolVars, Reject, Truncate, StartNextCoefficient, FrameInv
<1>6. /\ sent' \in Nat /\ frame'.fault = "none"
      /\ frame'.kind \in {"none", "profile", "batch"}
      /\ frame'.kind = "none" => sent' = 0
      /\ frame'.kind = "profile" => frame'.value \in Profiles
      /\ frame'.kind = "batch" => frame'.value \in Counts /\ profile'.ready
  BY <1>1, <1>4, <1>5 DEF FrameInv, NoFrame
<1>7. CASE state \in Idling
  <2>1. CASE ~Handshake(word)
    <3>1. UNCHANGED <<state, frame, sent>>
      BY <1>3, <1>4, <1>7, <2>1 DEF Protocol, Idling, WaitBank, FinishBatch, Hold,
         protocolVars
    <3>2. state' \notin Running /\ state' # "WAIT_BATCH_OUTPUT"
      BY <1>7, <3>1 DEF Idling, Running, Keying, InputDone
    <3> QED BY <1>2, <1>5, <1>6, <3>1, <3>2 DEF FrameInv
  <2>2. CASE Handshake(word) /\ state = "IDLE"
    <3>1. ~word.last /\ sent = 0
      BY <1>1, <2>2 DEF GoodWord, FrameInv
    <3>2. state' = (IF word.is = "RLPF" THEN "PROFILE_Q" ELSE "BATCH_HEADER")
      BY <1>1, <1>3, <2>2 DEF Protocol, AcceptCommand, AcceptModuli, AcceptReciprocals,
         AcceptCounts, AcceptOperand, AcceptKey, AcceptDigit, Discard, WaitBank,
         FinishBatch, Hold, GoodWord, Goto
    <3> QED BY <1>1, <1>2, <1>4, <1>5, <1>6, <2>2, <3>1, <3>2
            DEF FrameInv, Running, Keying, InputDone
  <2>3. CASE Handshake(word) /\ state = "PROFILE_Q"
    <3>1. ~word.last /\ sent = 1 /\ frame.kind = "profile"
      BY <1>1, <2>3 DEF GoodWord, FrameInv
    <3>2. state' = "PROFILE_MU"
      BY <1>1, <1>3, <2>3 DEF Protocol, AcceptCommand, AcceptModuli, AcceptReciprocals,
         AcceptCounts, AcceptOperand, AcceptKey, AcceptDigit, Discard, WaitBank,
         FinishBatch, Hold, GoodWord, Goto
    <3> QED BY <1>2, <1>4, <1>5, <1>6, <2>3, <3>1, <3>2
            DEF FrameInv, Running, Keying, InputDone
  <2>4. CASE Handshake(word) /\ state = "PROFILE_MU"
    <3>1. word.last
      BY <1>1, <2>4 DEF GoodWord
    <3>2. state' = "IDLE"
      BY <1>1, <1>3, <2>4 DEF Protocol, AcceptCommand, AcceptModuli, AcceptReciprocals,
         AcceptCounts, AcceptOperand, AcceptKey, AcceptDigit, Discard, WaitBank,
         FinishBatch, Hold, GoodWord, Goto
    <3> QED BY <1>2, <1>4, <1>5, <1>6, <2>4, <3>1, <3>2
            DEF FrameInv, Running, Keying, InputDone
  <2>5. CASE Handshake(word) /\ state = "BATCH_HEADER"
    <3>1. ~word.last /\ sent = 1 /\ frame.kind = "batch" /\ word.value = frame.value
      BY <1>1, <2>5 DEF GoodWord, FrameInv
    <3>2. /\ state' = "COEFFICIENT_EVAL" /\ batch' = word.value
          /\ coefficient_index' = 0
          /\ eval_input' = [eval_input EXCEPT !.ciphertext = 0, !.phase = 0]
      BY <1>1, <1>3, <2>5 DEF Protocol, AcceptCommand, AcceptModuli, AcceptReciprocals,
         AcceptCounts, AcceptOperand, AcceptKey, AcceptDigit, Discard, WaitBank,
         FinishBatch, Hold, GoodWord, Goto, RestartInput
    <3>3. CoefficientPosition' = 0
      <4>1. eval_input'.ciphertext = 0 /\ eval_input'.phase = 0
        BY <1>2, <3>2 DEF InputInv
      <4>2. CoefficientPosition' = 4 * eval_input'.ciphertext + eval_input'.phase
        BY <3>2 DEF CoefficientPosition
      <4> QED BY <4>1, <4>2
    <3>4. Consumed' = 0
      <4>1. CoefficientWords(batch)' \in Nat
        <5>1. batch'.count \in Nat /\ batch'.digits \in Nat
          BY <1>2, <3>2, CoreAssumption DEF InputInv, Running
        <5>2. \A x, y \in Nat : 4 * x + y * (x + 2) \in Nat
          OBVIOUS
        <5> QED BY <5>1, <5>2 DEF CoefficientWords
      <4>2. Consumed' = 0 * CoefficientWords(batch)' + 0
        BY <3>2, <3>3 DEF Consumed
      <4> QED BY <4>1, <4>2
    <3>5. frame' = frame /\ sent' = 2
      BY <1>4, <2>5, <3>1
    <3> QED BY <1>2, <1>5, <1>6, <3>1, <3>2, <3>4, <3>5 DEF FrameInv
  <2> QED BY <1>7, <2>1, <2>2, <2>3, <2>4, <2>5 DEF Idling
<1>8. CASE state \in Running /\ Finishes(ready)
  <2>1. state = "WAIT_BATCH_OUTPUT" /\ ~Handshake(word)
    BY <1>8 DEF Finishes, Handshake, s_axis_tready
  <2>2. state' = "IDLE"
    BY <1>1, <1>2, <1>3, <1>8, Advance
  <2>3. sent' = 0
    BY <1>4, <2>1 DEF FrameInv
  <2> QED BY <1>2, <1>5, <1>6, <2>2, <2>3 DEF FrameInv, Running, Keying, InputDone
<1>9. CASE state \in Running /\ ~Finishes(ready)
  <2>1. Consumed' = Consumed + (IF Handshake(word) THEN 1 ELSE 0)
    BY <1>1, <1>2, <1>3, <1>9, PositionStep
  <2>2. /\ UNCHANGED batch /\ state' \in Running
    BY <1>1, <1>2, <1>3, <1>9, Advance DEF Running
  <2>3. /\ Consumed' \in Nat /\ Consumed \in Nat
        /\ state' = "WAIT_BATCH_OUTPUT" <=> Consumed' = PayloadWords(batch)
        /\ state = "WAIT_BATCH_OUTPUT" <=> Consumed = PayloadWords(batch)
        /\ Consumed <= PayloadWords(batch) /\ PayloadWords(batch) \in Nat
    <3>1. /\ Consumed \in Nat /\ Consumed <= PayloadWords(batch)
          /\ state = "WAIT_BATCH_OUTPUT" => Consumed = PayloadWords(batch)
          /\ state # "WAIT_BATCH_OUTPUT" => Consumed < PayloadWords(batch)
      BY <1>2, <1>9, LastPosition
    <3>2. /\ Consumed' \in Nat
          /\ state' = "WAIT_BATCH_OUTPUT" => Consumed' = PayloadWords(batch)'
          /\ state' # "WAIT_BATCH_OUTPUT" => Consumed' < PayloadWords(batch)'
      <4>1. (InputInv /\ state \in Running =>
               /\ Consumed \in Nat
               /\ state = "WAIT_BATCH_OUTPUT" => Consumed = PayloadWords(batch)
               /\ state # "WAIT_BATCH_OUTPUT" => Consumed < PayloadWords(batch))'
        BY LastPositionHolds, PTL
      <4> QED BY <1>2, <2>2, <4>1
    <3>3. PayloadWords(batch)' = PayloadWords(batch)
      BY <2>2
    <3>4. PayloadWords(batch) \in Nat
      <4>1. CoefficientWords(batch) \in Nat
        BY <1>2, <1>9, PositionLimits
      <4> QED BY <4>1, CoreAssumption DEF PayloadWords
    <3> QED BY <3>1, <3>2, <3>3, <3>4
  <2>4. CASE ~Handshake(word)
    <3>1. UNCHANGED <<frame, sent>>
      BY <1>4, <2>4
    <3>2. Consumed' = Consumed
      BY <2>1, <2>3, <2>4
    <3>3. state' = "WAIT_BATCH_OUTPUT" <=> state = "WAIT_BATCH_OUTPUT"
      BY <2>3, <3>2
    <3> QED BY <1>2, <1>5, <1>6, <1>9, <2>2, <3>1, <3>2, <3>3
            DEF FrameInv, Running, Keying, InputDone
  <2>5. CASE Handshake(word)
    <3>1. state \notin InputDone
      BY <2>5 DEF Handshake, s_axis_tready, InputDone
    <3>2. frame.kind = "batch" /\ frame.value = batch /\ sent = 2 + Consumed
      BY <1>9, <3>1 DEF FrameInv, InputDone
    <3>3. word.last <=> Consumed + 1 = PayloadWords(batch)
      BY <1>1, <1>2, <1>9, <2>5, <3>1, LastPosition DEF GoodWord
    <3>4. Consumed' = Consumed + 1
      BY <2>1, <2>5
    <3>5. word.last <=> state' = "WAIT_BATCH_OUTPUT"
      BY <2>3, <3>3, <3>4
    <3>6. word.last => sent' = 0
      BY <1>4, <2>5
    <3>7. ~word.last => frame' = frame /\ sent' = 2 + Consumed'
      BY <1>4, <2>3, <2>5, <3>2, <3>4
    <3> QED BY <1>2, <1>5, <1>6, <2>2, <3>2, <3>5, <3>6, <3>7
            DEF FrameInv, Running, Keying, InputDone
  <2> QED BY <2>4, <2>5
<1> QED BY <1>2, <1>7, <1>8, <1>9 DEF InputInv

(* The core, its counters and the frame being sent stay in step as long as *)
(* frames are well formed.                                                 *)
THEOREM FlowInvariant ==
  ASSUME WellFormed PROVE Spec => [](CoreInv /\ FlowInv /\ FrameInv)
<1> DEFINE Inv == CoreInv /\ FlowInv /\ FrameInv
<1>1. Init => Inv
  <2>1. "IDLE" \notin Running
    BY DEF Running, Keying, InputDone
  <2> QED BY <2>1, CoreStarts, FlowStarts DEF Init, CoreInit, FrameInv, NoFrame,
             ResetProfile
<1>2. Inv /\ [Next]_vars => Inv'
  <2> SUFFICES ASSUME Inv, [Next]_vars PROVE Inv'
    OBVIOUS
  <2>1. ASSUME NEW word \in Offered, NEW ready, Tick(word, ready) PROVE Inv'
    BY <2>1, CoreStep, FrameStep DEF Tick
  <2>2. CASE StartFrame
    <3>1. CoreInv' /\ FlowInv'
      BY <2>2, CoreStep, FlowRests DEF StartFrame
    <3>2. UNCHANGED coreVars /\ UNCHANGED sent /\ frame.kind = "none"
      BY <2>2 DEF StartFrame
    <3>3. UNCHANGED <<state, profile, batch, Consumed>>
      BY <3>2 DEF coreVars, protocolVars, Consumed, CoefficientPosition
    <3>4. frame.kind = "none" => state \in Idling \union {"WAIT_BATCH_OUTPUT"}
      BY DEF FrameInv, FlowInv, InputInv
    <3>5. /\ frame'.fault = "none" /\ frame'.kind \in {"profile", "batch"}
          /\ frame'.kind = "profile" => frame'.value \in Profiles
          /\ frame'.kind = "batch" => frame'.value \in Counts /\ profile.ready
      BY <2>2 DEF StartFrame, Begin, WellFormed
    <3> QED BY <3>1, <3>2, <3>3, <3>4, <3>5 DEF FrameInv, Running, Keying, InputDone, Idling
  <2>3. CASE Reset
    <3>1. CoreInv' /\ FlowInv'
      BY <2>3, CoreStarts, FlowStarts DEF Reset
    <3>2. /\ state' = "IDLE" /\ sent' = 0 /\ frame' = NoFrame("none")
          /\ profile' = ResetProfile
      BY <2>3 DEF Reset, CoreReset
    <3> QED BY <3>1, <3>2 DEF FrameInv, NoFrame, ResetProfile, Running, Keying, InputDone
  <2>4. CASE UNCHANGED vars
    <3>1. UNCHANGED coreVars /\ UNCHANGED <<frame, sent>>
      BY <2>4 DEF vars, senderVars
    <3>2. UNCHANGED <<state, profile, batch, Consumed>>
      BY <3>1 DEF coreVars, protocolVars, Consumed, CoefficientPosition
    <3> QED BY <3>1, <3>2, CoreStep, FlowRests DEF FrameInv
  <2> QED BY <2>1, <2>2, <2>3, <2>4 DEF Next
<1> QED BY <1>1, <1>2, PTL DEF Spec

(* No result of a well-formed batch is on its way to a bank that is free   *)
(* or already handed to the output: what the output reads is never         *)
(* overwritten under it, and nothing of one coefficient reaches another.   *)
THEOREM ResultsLandWhereTheyBelong ==
  ASSUME WellFormed PROVE Spec => []LandsOnlyInFillingBank
<1>1. CoreInv /\ FlowInv /\ FrameInv => LandsOnlyInFillingBank
  BY InFlightTargets DEF LandsOnlyInFillingBank
<1> QED BY <1>1, FlowInvariant, PTL

(* The coefficients counted at the output are N for each ciphertext the    *)
(* protocol counted, whenever the core is between batches.                 *)
THEOREM CompletionCounted ==
  ASSUME WellFormed PROVE Spec => []CountersAgree
<1>1. CoreInv /\ FlowInv /\ FrameInv => CountersAgree
  BY DEF FlowInv, RestInv, CountersAgree, Running, Keying, InputDone
<1> QED BY <1>1, FlowInvariant, PTL

(* A well-formed frame is never refused.                                   *)
THEOREM NoFalseAlarm ==
  ASSUME WellFormed PROVE Spec => []~protocol_error
<1> DEFINE Inv == CoreInv /\ FlowInv /\ FrameInv
<1>1. Init => ~protocol_error
  BY DEF Init, CoreInit
<1>2. Inv /\ ~protocol_error /\ [Next]_vars => ~protocol_error'
  <2> SUFFICES ASSUME Inv, ~protocol_error, [Next]_vars PROVE ~protocol_error'
    OBVIOUS
  <2>1. ASSUME NEW word \in Offered, NEW ready, Tick(word, ready) PROVE ~protocol_error'
    <3>1. GoodWord(word)
      BY OfferedIsGood DEF FlowInv
    <3> QED BY <2>1, <3>1, FlowStep DEF Tick
  <2>2. CASE StartFrame \/ UNCHANGED vars
    BY <2>2 DEF StartFrame, vars, coreVars, protocolVars
  <2>3. CASE Reset
    BY <2>3 DEF Reset, CoreReset
  <2> QED BY <2>1, <2>2, <2>3 DEF Next
<1> QED BY <1>1, <1>2, FlowInvariant, PTL DEF Spec

(* Every counter, queue and index of the core stays within its width while *)
(* frames are well formed.                                                 *)
THEOREM RegistersInRange == ASSUME WellFormed PROVE Spec => []TypeOK
<1> DEFINE Inv == CoreInv /\ FlowInv /\ FrameInv
<1>1. Init => RangeInv
  BY RangeStarts DEF Init
<1>2. Inv /\ RangeInv /\ [Next]_vars => RangeInv'
  <2> SUFFICES ASSUME Inv, RangeInv, [Next]_vars PROVE RangeInv'
    OBVIOUS
  <2>1. ASSUME NEW word \in Offered, NEW ready, Tick(word, ready) PROVE RangeInv'
    <3>1. GoodWord(word)
      BY OfferedIsGood DEF FlowInv
    <3> QED BY <2>1, <3>1, RangeStep DEF Tick
  <2>2. CASE UNCHANGED coreVars
    BY <2>2 DEF coreVars, protocolVars, outputVars, evalVars, bvVars, RangeInv
  <2>3. CASE Reset
    BY <2>3, RangeStarts DEF Reset
  <2> QED BY <2>1, <2>2, <2>3 DEF Next, StartFrame, vars
<1>3. Inv /\ RangeInv => TypeOK
  <2> SUFFICES ASSUME Inv, RangeInv PROVE TypeOK
    OBVIOUS
  <2>1. state \in Idling \union Running /\ BankInv
    BY DEF FlowInv, InputInv, CoreInv
  <2>2. output.bank \in Banks /\ output.component \in 0..1
    BY <2>1 DEF BankInv
  <2>3. state \in {"IDLE", "PROFILE_Q", "PROFILE_MU", "BATCH_HEADER",
                   "COEFFICIENT_EVAL", "COEFFICIENT_KEY_B", "COEFFICIENT_KEY_A",
                   "COEFFICIENT_DIGITS", "WAIT_BANK", "WAIT_BATCH_OUTPUT", "DISCARD"}
    BY <2>1 DEF Idling, Running, Keying, InputDone
  <2>4. \A bank \in Banks : eval_result_count[bank] <= batch.count
                            /\ bv_final_result_count[bank] <= batch.count
    BY DEF RangeInv
  <2> QED BY <2>2, <2>3, <2>4 DEF TypeOK, RangeInv
<1> QED BY <1>1, <1>2, <1>3, FlowInvariant, PTL DEF Spec

-----------------------------------------------------------------------------
(* What the batch under way is worth, and to whom.                         *)

(* A profile that is ready is one of the profiles sent, whole: its moduli  *)
(* and its reciprocals came in one frame.                                  *)
LoadInv ==
  /\ profile.ready /\ state # "PROFILE_MU" => profile.q = profile.mu /\ profile.q \in Profiles
  /\ state = "PROFILE_MU" => profile.q = frame.value

(* The job recorded at the header is the frame whose words are in the core *)
(* as long as the batch runs, and the words out are counted in order.      *)
JobInv ==
  /\ \A id : id = job.frame => DataInv(id)
  /\ ~output.active => output.component = 0
  /\ state \in Running =>
       /\ job.counts = batch /\ job.profile = LoadedProfile
       /\ profile.q = profile.mu /\ profile.q \in Profiles
       /\ delivered = Shipped /\ accepted = AcceptedCoefficients
       /\ state # "WAIT_BATCH_OUTPUT" => frame.id = job.frame

(* The word a running batch takes is the payload word of its frame at the  *)
(* place the core's counters tell.                                         *)
LEMMA OfferedPayload ==
  ASSUME WellFormed, InputInv, FrameInv, NEW word \in Offered
  PROVE  GoodPayload(frame.id, word)
<1> SUFFICES ASSUME Handshake(word), state \in Running
             PROVE  word.value = Payload(frame.id, Consumed)
  BY DEF GoodPayload
<1>1. word = FrameWord(frame, sent)
  BY OfferedIsGood
<1>2. state \notin InputDone
  BY DEF Handshake, s_axis_tready, InputDone
<1>3. frame.kind = "batch" /\ sent = 2 + Consumed /\ Consumed \in Nat
  BY <1>2, LastPosition DEF FrameInv, InputDone
<1>4. word.value = Payload(frame.id, sent - 2)
  BY <1>1, <1>3 DEF FrameWord, Marked, BatchWord
<1> QED BY <1>3, <1>4

(* What a batch has loaded and reads stays right at every clock, the word *)
(* taken at it being the one its frame owes.                              *)
LEMMA LoadStep ==
  ASSUME WellFormed, CoreInv, FlowInv, FrameInv, LoadInv, NEW word \in Offered, NEW ready,
         Tick(word, ready)
  PROVE  LoadInv'
<1>1. /\ GoodWord(word)
      /\ Handshake(word) => word = FrameWord(frame, sent)
  BY OfferedIsGood DEF FlowInv
<1>2. Protocol(word, ready)
  BY DEF Tick, Clock
<1>3. frame' = IF Handshake(word) /\ word.last THEN NoFrame(frame.fault) ELSE frame
  BY DEF Tick, Send
<1>4. CASE Handshake(word) /\ state = "PROFILE_Q"
  <2>1. frame.kind = "profile" /\ sent = 1 /\ frame.value \in Profiles
    BY <1>4 DEF FrameInv
  <2>2. ~word.last /\ word.is = "moduli" /\ word.value \in Profiles
    BY <1>1, <1>4 DEF GoodWord
  <2>3. word.value = frame.value
    BY <1>1, <1>4, <2>1 DEF FrameWord, Marked, ProfileWord
  <2>4. state' = "PROFILE_MU" /\ profile' = [profile EXCEPT !.q = word.value]
    BY <1>2, <1>4, <2>2 DEF Protocol, AcceptCommand, AcceptModuli, AcceptReciprocals,
       AcceptCounts, AcceptOperand, AcceptKey, AcceptDigit, Discard, WaitBank,
       FinishBatch, Hold, Goto
  <2> QED BY <1>3, <2>2, <2>3, <2>4 DEF LoadInv, FrameInv
<1>5. CASE Handshake(word) /\ state = "PROFILE_MU"
  <2>1. frame.kind = "profile" /\ sent = 2 /\ frame.value \in Profiles
    BY <1>5 DEF FrameInv
  <2>2. word.last /\ word.is = "reciprocals" /\ word.value \in Profiles
    BY <1>1, <1>5 DEF GoodWord
  <2>3. word.value = frame.value
    BY <1>1, <1>5, <2>1 DEF FrameWord, Marked, ProfileWord
  <2>4. state' = "IDLE" /\ profile' = [profile EXCEPT !.mu = word.value, !.ready = TRUE]
    BY <1>2, <1>5, <2>2 DEF Protocol, AcceptCommand, AcceptModuli, AcceptReciprocals,
       AcceptCounts, AcceptOperand, AcceptKey, AcceptDigit, Discard, WaitBank,
       FinishBatch, Hold, Goto
  <2> QED BY <1>5, <2>1, <2>3, <2>4 DEF LoadInv, FrameInv
<1>6. CASE ~(Handshake(word) /\ state \in {"PROFILE_Q", "PROFILE_MU"})
  <2>1. profile' = profile /\ (state' = "PROFILE_MU" <=> state = "PROFILE_MU")
    BY <1>1, <1>2, <1>6 DEF Protocol, AcceptCommand, AcceptModuli, AcceptReciprocals,
       AcceptCounts, AcceptOperand, AcceptKey, AcceptDigit, Discard, WaitBank,
       FinishBatch, Hold, Goto, protocolVars, Reject, Truncate, StartNextCoefficient
  <2>2. state = "PROFILE_MU" => frame' = frame
    BY <1>3, <1>6
  <2> QED BY <2>1, <2>2 DEF LoadInv
<1> QED BY <1>4, <1>5, <1>6

(* A batch begins with the counts, the profile and the frame of its header. *)
LEMMA JobBegins ==
  ASSUME WellFormed, CoreInv, FlowInv, FrameInv, LoadInv, JobInv,
         NEW word \in Offered, NEW ready, Tick(word, ready), accepted_batch_header(word)
  PROVE  /\ JobInv' /\ ~output.active /\ ~output'.active
         /\ job' = [frame |-> frame.id, counts |-> frame.value, profile |-> profile.q]
         /\ frame.kind = "batch" /\ profile.q \in Profiles
         /\ accepted' = 0 /\ delivered' = 0
<1>1. /\ GoodWord(word) /\ Handshake(word) /\ state = "BATCH_HEADER" /\ ~word.last
      /\ ValidCounts(word)
  BY OfferedIsGood DEF FlowInv, accepted_batch_header
<1>2. frame.kind = "batch" /\ profile.ready /\ word.value = frame.value
  BY <1>1, OfferedIsGood DEF FlowInv, FrameInv
<1>3. profile.q = profile.mu /\ profile.q \in Profiles /\ LoadedProfile = profile.q
  BY <1>1, <1>2 DEF LoadInv, LoadedProfile
<1>4. state \notin Running /\ RestInv
  BY <1>1 DEF FlowInv, Running, Keying, InputDone
<1>5. /\ state' = "COEFFICIENT_EVAL" /\ batch' = word.value /\ coefficient_index' = 0
      /\ UNCHANGED profile
  BY <1>1 DEF Tick, Clock, Protocol, AcceptCommand, AcceptModuli, AcceptReciprocals,
     AcceptCounts, AcceptOperand, AcceptKey, AcceptDigit, Discard, WaitBank,
     FinishBatch, Hold, Goto
<1>6. output' = IdleOutput
  BY DEF Tick, Clock, OutputScheduler
<1>7. /\ job' = [frame |-> frame.id, counts |-> word.value, profile |-> LoadedProfile]
      /\ accepted' = 0 /\ delivered' = 0 /\ frame' = frame
  BY <1>1 DEF Tick, Follow, Send
<1>8. \A id : DataInv(id)'
  <2>1. MemoryShape /\ GapInv
    BY DEF JobInv, DataInv
  <2> QED BY <1>1, <1>4, <2>1, DataBegins DEF Tick
<1>9. Shipped' = 0 /\ AcceptedCoefficients' = 0
  <2>1. batch'.count \in Nat
    BY <1>1, <1>5, CoreAssumption DEF ValidCounts
  <2>2. Shipped' = 2 * (0 * batch'.count + 0) + 0
    BY <1>6 DEF Shipped, OutputPlace, Row, IdleOutput
  <2> QED BY <1>5, <2>1, <2>2 DEF AcceptedCoefficients, InputDone
<1>10. LoadedProfile' = LoadedProfile
  BY <1>5 DEF LoadedProfile
<1>11. JobInv'
  <2>1. (\A id : id = job.frame => DataInv(id))'
    BY <1>8
  <2> QED BY <1>3, <1>5, <1>6, <1>7, <1>9, <1>10, <2>1 DEF JobInv, IdleOutput
<1> QED BY <1>2, <1>3, <1>4, <1>6, <1>7, <1>11 DEF RestInv, IdleOutput

(* Between batches nothing is shown and nothing counted.                   *)
LEMMA JobRests ==
  ASSUME WellFormed, CoreInv, FlowInv, FrameInv, JobInv,
         NEW word \in Offered, NEW ready, Tick(word, ready), state \notin Running,
         ~accepted_batch_header(word)
  PROVE  /\ JobInv' /\ ~output.active /\ ~output'.active /\ state' \notin Running
         /\ UNCHANGED <<job, accepted, delivered>>
<1>1. GoodWord(word) /\ Clock(word, ready)
  BY OfferedIsGood DEF FlowInv, Tick
<1>2. /\ InputInv /\ RestInv /\ InputInv' /\ MetadataInv /\ MetadataInv' /\ BankInv
      /\ state \in Idling
  BY <1>1, FlowStep, CoreStep DEF FlowInv, CoreInv, InputInv
<1>3. state' \in Idling /\ RestInv'
  BY <1>1, <1>2, RestStep
<1>4. state' \notin Running
  BY <1>3 DEF Idling, Running, Keying, InputDone
<1>5. output'.component = 0
  <2>1. \A bank \in Banks : ~bank_ready[bank]
    BY <1>2 DEF RestInv
  <2>2. output.coefficient_index % 2 \in Banks
    BY <1>2 DEF BankInv, Banks
  <2>3. output' = output /\ ~output.active
    BY <1>1, <1>2, <2>1, <2>2 DEF Clock, OutputScheduler, RestInv
  <2> QED BY <2>3 DEF JobInv
<1>6. UNCHANGED <<job, accepted, delivered>>
  <2>1. ~input_coefficient_complete(word) /\ ~output.active
    BY <1>2 DEF input_coefficient_complete, RestInv, Running, Idling
  <2> QED BY <2>1 DEF Tick, Follow
<1>7. \A id : DataInv(id)'
  <2>1. MemoryShape /\ GapInv
    BY DEF JobInv, DataInv
  <2> QED BY <1>1, <2>1, DataBegins
<1>8. (\A id : id = job.frame => DataInv(id))'
  BY <1>7
<1> QED BY <1>2, <1>3, <1>4, <1>5, <1>6, <1>8 DEF JobInv, RestInv

(* A batch ends with its last word taken.                                  *)
LEMMA JobEnds ==
  ASSUME WellFormed, CoreInv, FlowInv, FrameInv, JobInv,
         NEW word \in Offered, NEW ready, Tick(word, ready),
         state \in Running, Finishes(ready)
  PROVE  /\ JobInv' /\ output.active /\ ~output'.active
         /\ delivered' = delivered + 1 /\ delivered' = OutputWords(batch)
         /\ UNCHANGED <<job, accepted>>
<1>1. GoodWord(word) /\ Clock(word, ready)
  BY OfferedIsGood DEF FlowInv, Tick
<1>2. state' = "IDLE" /\ RestInv'
  BY <1>1, FinishStep, CoreStep DEF FlowInv, CoreInv
<1>3. state' \notin Running
  BY <1>2 DEF Running, Keying, InputDone
<1>4. /\ output.active /\ ready /\ Shipped \in Nat /\ Shipped + 1 = OutputWords(batch)
      /\ ~output'.active => output'.component = 0
  BY <1>1, ShippedStep DEF JobInv
<1>5. delivered' = delivered + 1 /\ UNCHANGED <<job, accepted>>
  <2>1. ~input_coefficient_complete(word) /\ ~accepted_batch_header(word)
    BY DEF input_coefficient_complete, accepted_batch_header, Finishes
  <2> QED BY <1>4, <2>1 DEF Tick, Follow
<1>6. \A id : DataInv(id)'
  <2>1. MemoryShape /\ GapInv
    BY DEF JobInv, DataInv
  <2> QED BY <1>1, <2>1, DataBegins
<1>7. (\A id : id = job.frame => DataInv(id))'
  BY <1>6
<1> QED BY <1>2, <1>3, <1>4, <1>5, <1>7 DEF JobInv, RestInv

(* While it runs, every clock keeps the batch's data and its counts.       *)
LEMMA JobGoesOn ==
  ASSUME WellFormed, CoreInv, FlowInv, FrameInv, JobInv,
         NEW word \in Offered, NEW ready, Tick(word, ready),
         state \in Running, ~Finishes(ready)
  PROVE  /\ JobInv' /\ state' \in Running /\ UNCHANGED <<job, batch, profile>>
         /\ accepted' = accepted + (IF input_coefficient_complete(word) THEN 1 ELSE 0)
         /\ delivered' = delivered + (IF output.active /\ ready THEN 1 ELSE 0)
<1>1. GoodWord(word) /\ Clock(word, ready)
  BY OfferedIsGood DEF FlowInv, Tick
<1>2. UNCHANGED <<batch, profile>> /\ state' \in Running /\ coefficient_index \in Nat
  BY <1>1, BatchStep
<1>3. /\ AcceptedCoefficients' =
           AcceptedCoefficients + (IF input_coefficient_complete(word) THEN 1 ELSE 0)
      /\ state = "WAIT_BATCH_OUTPUT" => state' = "WAIT_BATCH_OUTPUT"
  BY <1>1, AcceptedStep
<1>4. /\ Shipped \in Nat
      /\ ~output'.active => output'.component = 0
      /\ Shipped' = Shipped + (IF output.active /\ ready THEN 1 ELSE 0)
  BY <1>1, ShippedStep DEF JobInv
<1>5. /\ accepted' = IF input_coefficient_complete(word) THEN accepted + 1 ELSE accepted
      /\ delivered' = IF output.active /\ ready THEN delivered + 1 ELSE delivered
      /\ UNCHANGED job
  <2>1. ~accepted_batch_header(word)
    BY DEF accepted_batch_header, Running, Keying, InputDone
  <2> QED BY <2>1 DEF Tick, Follow
<1>6. accepted = AcceptedCoefficients /\ delivered = Shipped /\ AcceptedCoefficients \in Nat
  BY <1>2 DEF JobInv, AcceptedCoefficients
<1>7. \A id : id = job.frame => DataInv(id)'
  <2> SUFFICES ASSUME NEW id, id = job.frame PROVE DataInv(id)'
    OBVIOUS
  <2>1. GoodPayload(id, word)
    <3>1. GoodPayload(frame.id, word)
      BY OfferedPayload DEF FlowInv
    <3>2. Handshake(word) => frame.id = id
      <4>1. Handshake(word) => state # "WAIT_BATCH_OUTPUT"
        BY DEF Handshake, s_axis_tready
      <4> QED BY <4>1 DEF JobInv
    <3> QED BY <3>1, <3>2 DEF GoodPayload
  <2>2. DataInv(id)
    BY DEF JobInv
  <2> QED BY <1>1, <2>1, <2>2, DataStep
<1>8. (\A id : id = job.frame => DataInv(id))'
  BY <1>5, <1>7
<1>9. LoadedProfile' = LoadedProfile
  BY <1>2 DEF LoadedProfile
<1>10. state' # "WAIT_BATCH_OUTPUT" => frame'.id = job'.frame
  <2> SUFFICES ASSUME state' # "WAIT_BATCH_OUTPUT" PROVE frame'.id = job'.frame
    OBVIOUS
  <2>1. state # "WAIT_BATCH_OUTPUT"
    BY <1>3
  <2>2. FrameInv'
    BY FrameStep
  <2>3. frame'.kind = "batch"
    BY <1>2, <2>2 DEF FrameInv
  <2>4. frame' = frame
    BY <2>3 DEF Tick, Send, NoFrame
  <2> QED BY <1>5, <2>1, <2>4 DEF JobInv
<1> QED BY <1>2, <1>3, <1>4, <1>5, <1>6, <1>8, <1>9, <1>10 DEF JobInv

(* The stream's words are those of the layout it shares with the core.     *)
LEMMA SameWords ==
  ASSUME NEW owed, NEW n
  PROVE  /\ Stream!Relinearized(owed, n) = Relinearized(owed, n)
         /\ Stream!OutputWords(owed.counts) = OutputWords(owed.counts)
BY DEF Stream!Relinearized, Relinearized, Stream!OutputWords, OutputWords,
   Stream!Product, Product, Stream!Payload, Payload, Stream!OperandIndex, OperandIndex,
   Stream!DigitIndex, DigitIndex, Stream!KeyIndex, KeyIndex, Stream!CoefficientWords,
   CoefficientWords

(* The word shown is the one the stream promises at this point.            *)
LEMMA ShownIsOwed ==
  CoreInv /\ FlowInv /\ JobInv =>
    /\ StreamExact
    /\ Shown = IF output.active THEN Stream!Word(delivered) ELSE Stream!Silent
<1> SUFFICES ASSUME CoreInv, FlowInv, JobInv
             PROVE  /\ StreamExact
                    /\ Shown = IF output.active THEN Stream!Word(delivered) ELSE Stream!Silent
  OBVIOUS
<1>1. ASSUME output.active
      PROVE  /\ m_axis_tdata = Relinearized(job, delivered)
             /\ m_axis_tlast <=> delivered = OutputWords(job.counts) - 1
  <2>1. state \in Running
    BY <1>1 DEF FlowInv, RestInv
  <2>2. PICK owed : owed = job
    OBVIOUS
  <2>3. PICK n : n = delivered
    OBVIOUS
  <2>4. DataInv(owed.frame) /\ owed.counts = batch /\ owed.profile = LoadedProfile
    BY <2>1, <2>2 DEF JobInv
  <2>5. /\ profile.q = profile.mu
        /\ n = OutputPlace(output.coefficient_index, output.ciphertext, output.component)
    BY <2>1, <2>3 DEF JobInv, Shipped
  <2>6. /\ m_axis_tdata = Relinearized(owed, n)
        /\ m_axis_tlast <=> n = OutputWords(batch) - 1
    BY <1>1, <2>1, <2>4, <2>5, OutputExact
  <2> QED BY <2>1, <2>2, <2>3, <2>6 DEF JobInv
<1>2. CASE output.active
  <2>1. m_axis_tlast = (delivered = OutputWords(job.counts) - 1)
    BY <1>1, <1>2 DEF m_axis_tlast
  <2>2. Shown = Stream!Word(delivered)
    <3>1. Shown = [valid |-> TRUE, data |-> m_axis_tdata, last |-> m_axis_tlast]
      BY <1>2 DEF Shown
    <3>2. Stream!Word(delivered) =
            [valid |-> TRUE, data |-> Relinearized(job, delivered),
             last |-> (delivered = OutputWords(job.counts) - 1)]
      BY SameWords DEF Stream!Word
    <3> QED BY <1>1, <1>2, <2>1, <3>1, <3>2
  <2> QED BY <1>1, <1>2, <2>2 DEF StreamExact
<1>3. CASE ~output.active
  BY <1>3 DEF StreamExact, Shown, Stream!Silent
<1> QED BY <1>2, <1>3

(* The profile and the batch follow the frames, whatever happens.          *)
LEMMA StreamStep ==
  ASSUME WellFormed, CoreInv, FlowInv, FrameInv, LoadInv, JobInv, [Next]_vars
  PROVE  LoadInv' /\ JobInv'
<1>1. CASE \E word \in Offered, ready \in Readiness : Tick(word, ready)
  <2>1. PICK word \in Offered, ready \in Readiness : Tick(word, ready)
    BY <1>1
  <2>2. LoadInv'
    BY <2>1, LoadStep
  <2>3. JobInv'
    BY <2>1, JobBegins, JobRests, JobEnds, JobGoesOn
  <2> QED BY <2>2, <2>3
<1>2. CASE StartFrame \/ UNCHANGED vars
  <2>1. UNCHANGED <<coreVars, jobVars>> /\ (StartFrame \/ UNCHANGED frame)
    BY <1>2 DEF StartFrame, vars, senderVars
  <2>2. UNCHANGED <<state, profile, batch, output, Shipped, AcceptedCoefficients,
                    LoadedProfile, job, accepted, delivered>>
    BY <2>1 DEF coreVars, protocolVars, outputVars, jobVars, Shipped, OutputPlace, Row,
       AcceptedCoefficients, LoadedProfile
  <2>3. state \notin Idling \union {"WAIT_BATCH_OUTPUT"} => UNCHANGED frame
    BY <2>1 DEF StartFrame, FrameInv, FlowInv, InputInv
  <2>4. \A id : id = job.frame => DataInv(id)'
    BY <2>1, DataRests DEF JobInv
  <2>5. (\A id : id = job.frame => DataInv(id))'
    BY <2>2, <2>4
  <2>6. Idling \cap Running = {} /\ "PROFILE_MU" \in Idling
    BY DEF Idling, Running, Keying, InputDone
  <2>7. state = "PROFILE_MU" => UNCHANGED frame
    BY <1>2 DEF StartFrame, FrameInv, vars, senderVars
  <2> QED BY <2>2, <2>3, <2>5, <2>6, <2>7 DEF LoadInv, JobInv
<1>3. CASE Reset
  <2>1. CoreReset /\ job' = NoJob
    BY <1>3 DEF Reset
  <2>2. \A id : DataInv(id)'
    <3>1. MemoryShape
      BY DEF JobInv, DataInv
    <3> QED BY <2>1, <3>1, DataStarts
  <2>3. (\A id : id = job.frame => DataInv(id))'
    BY <2>2
  <2>4. state' = "IDLE" /\ output' = IdleOutput /\ profile' = ResetProfile
    BY <2>1 DEF CoreReset
  <2> QED BY <2>3, <2>4 DEF LoadInv, JobInv, ResetProfile, IdleOutput, Running, Keying,
          InputDone
<1> QED BY <1>1, <1>2, <1>3 DEF Next

(* At every clock the job, its frame and its data are in step.             *)
THEOREM StreamInvariant ==
  ASSUME WellFormed
  PROVE  Spec => [](CoreInv /\ FlowInv /\ FrameInv /\ LoadInv /\ JobInv)
<1> DEFINE Flows == CoreInv /\ FlowInv /\ FrameInv
           Streams == LoadInv /\ JobInv
<1>1. Init => Streams
  <2> SUFFICES ASSUME Init PROVE Streams
    OBVIOUS
  <2>1. CoreInit
    BY DEF Init
  <2>2. \A id : DataInv(id)
    BY <2>1, DataStarts
  <2>3. state = "IDLE" /\ output = IdleOutput /\ profile = ResetProfile
    BY <2>1 DEF CoreInit
  <2> QED BY <2>2, <2>3 DEF LoadInv, JobInv, ResetProfile, IdleOutput, Running, Keying,
          InputDone
<1>2. Flows /\ Streams /\ [Next]_vars => Streams'
  BY StreamStep
<1> QED BY <1>1, <1>2, FlowInvariant, PTL DEF Spec

(* Every word on m_axis, at every clock of every well-formed traffic with  *)
(* resets, is the exact relinearization owed at its place, and TLAST marks *)
(* exactly the batch's last word.                                          *)
THEOREM OutputIsExact == ASSUME WellFormed PROVE Spec => []StreamExact
<1>1. CoreInv /\ FlowInv /\ FrameInv /\ LoadInv /\ JobInv => StreamExact
  BY ShownIsOwed
<1> QED BY <1>1, StreamInvariant, PTL

-----------------------------------------------------------------------------
(* The core implements the stream it promises.                             *)
NumberInv ==
  /\ frames \in 0..MaxFrames
  /\ frame.kind # "none" => frame.id \in 1..MaxFrames

(* The sender numbers no more frames than the bound.                      *)
LEMMA NumberStep ==
  ASSUME MaxFrames \in Nat, NumberInv, [Next]_vars PROVE NumberInv'
<1>1. CASE \E word \in Offered, ready \in Readiness : Tick(word, ready)
  BY <1>1 DEF Tick, Send, NumberInv, NoFrame
<1>2. CASE StartFrame
  BY <1>2 DEF StartFrame, Begin, NumberInv
<1>3. CASE Reset
  BY <1>3 DEF Reset, NumberInv, NoFrame
<1>4. CASE UNCHANGED vars
  BY <1>4 DEF vars, senderVars, NumberInv
<1> QED BY <1>1, <1>2, <1>3, <1>4 DEF Next

(* A clock edge of a batch under way is one step of the stream: a          *)
(* coefficient in, a word offered, taken or held, or both.                 *)
LEMMA BatchAdvances ==
  ASSUME WellFormed, CoreInv, FlowInv, FrameInv, JobInv, CoreInv', FlowInv', JobInv',
         NEW word \in Offered, NEW ready, Tick(word, ready), state \in Running
  PROVE  Stream!Advance
<1> DEFINE width == 2 * batch.count
           k == output.coefficient_index
<1>1. GoodWord(word) /\ Clock(word, ready)
  BY OfferedIsGood DEF FlowInv, Tick
<1>2. /\ Shown = IF output.active THEN Stream!Word(delivered) ELSE Stream!Silent
      /\ Shown' = IF output'.active THEN Stream!Word(delivered)' ELSE Stream!Silent
  <2>1. (CoreInv /\ FlowInv /\ JobInv =>
           /\ StreamExact
           /\ Shown = IF output.active THEN Stream!Word(delivered) ELSE Stream!Silent)'
    BY ShownIsOwed, PTL
  <2> QED BY <2>1, ShownIsOwed DEF Stream!Silent
<1>3. job' = job
  BY JobEnds, JobGoesOn
<1>4. Stream!Word(delivered)' = Stream!Word(delivered')
  BY <1>3 DEF Stream!Word
<1>5. /\ batch.count \in Nat \ {0} /\ job.counts = batch /\ delivered = Shipped
      /\ accepted = AcceptedCoefficients
      /\ Stream!PerCoefficient = width
  BY FlowNumbers DEF JobInv, Stream!PerCoefficient
<1>6. Stream!Accept \/ UNCHANGED accepted
  <2>1. CASE input_coefficient_complete(word)
    <3>1. state = "COEFFICIENT_DIGITS" /\ ~Finishes(ready)
      BY <2>1 DEF input_coefficient_complete, Finishes
    <3>2. accepted < N /\ accepted < k + 2
      BY <1>5, <3>1, AcceptLimits DEF InputDone
    <3>3. delivered \div width = k
      BY <1>5, ShippedPosition
    <3>4. accepted' = accepted + 1
      BY <2>1, <3>1, JobGoesOn
    <3>5. job # Stream!NoJob
      BY <1>5 DEF Stream!NoJob
    <3> QED BY <1>5, <3>2, <3>3, <3>4, <3>5 DEF Stream!Accept
  <2>2. CASE ~input_coefficient_complete(word)
    <3>1. CASE Finishes(ready)
      BY <3>1, JobEnds
    <3>2. CASE ~Finishes(ready)
      <4>1. accepted' = accepted + 0
        BY <2>2, <3>2, JobGoesOn
      <4>2. accepted \in Nat
        <5>1. coefficient_index \in Nat
          BY <1>1, <3>2, BatchStep
        <5> QED BY <1>5, <5>1 DEF AcceptedCoefficients
      <4> QED BY <4>1, <4>2
    <3> QED BY <3>1, <3>2
  <2> QED BY <2>1, <2>2
<1>7. Shipped \in Nat
  BY <1>1, ShippedStep DEF JobInv
<1>8. CASE Finishes(ready)
  <2>1. /\ output.active /\ ~output'.active /\ delivered' = delivered + 1
        /\ delivered' = OutputWords(batch)
    BY <1>8, JobEnds
  <2>2. delivered' % width = 0
    BY <1>5, <2>1, WholeBatch
  <2>3. Stream!Take
    BY <1>2, <1>5, <2>1, <2>2 DEF Stream!Take, Stream!Word
  <2> QED BY <1>3, <1>6, <2>3 DEF Stream!Advance
<1>9. CASE ~Finishes(ready)
  <2>1. /\ state' \in Running /\ UNCHANGED batch
        /\ delivered' = delivered + (IF output.active /\ ready THEN 1 ELSE 0)
    BY <1>9, JobGoesOn
  <2>2. /\ ~output.active /\ output'.active => bank_ready[k % 2]
        /\ output.active /\ ~ready => output' = output
        /\ output.active /\ ready =>
             (output'.active <=> ~(output'.ciphertext = 0 /\ output'.component = 0))
    BY <1>1, OutputChoices
  <2>3. CASE ~output.active /\ ~output'.active
    <3>1. delivered' = delivered
      BY <1>5, <1>7, <2>1, <2>3
    <3> QED BY <1>2, <1>3, <1>6, <2>3, <3>1 DEF Stream!Advance
  <2>4. CASE ~output.active /\ output'.active
    <3>1. delivered' = delivered
      BY <1>5, <1>7, <2>1, <2>4
    <3>2. k + 1 <= accepted
      BY <1>5, <2>2, <2>4, AcceptLimits
    <3>3. delivered < Stream!PerCoefficient * accepted
      <4>1. output.ciphertext = 0 /\ output.component = 0 /\ k \in Nat
        BY <2>4 DEF JobInv, FlowInv, DrainInv, CoreInv, BankInv
      <4>2. PICK c \in Nat \ {0} : c = batch.count
        BY <1>5
      <4>3. PICK at \in Nat : at = k
        BY <4>1
      <4>4. coefficient_index \in Nat
        BY <1>1, <1>9, BatchStep
      <4>5. PICK a \in Nat : a = accepted
        BY <1>5, <4>4 DEF AcceptedCoefficients
      <4>6. delivered = 2 * (at * c + 0) + 0
        BY <1>5, <4>1, <4>2, <4>3 DEF Shipped, OutputPlace, Row
      <4>7. PICK m \in Nat : a = at + 1 + m
        <5>1. a - (at + 1) \in Nat /\ a = at + 1 + (a - (at + 1))
          BY <3>2, <4>3, <4>5
        <5> QED BY <5>1
      <4>8. (2 * c) * a = 2 * (at * c) + 2 * c + 2 * (m * c) /\ m * c \in Nat /\ at * c \in Nat
        BY <4>7
      <4>9. Stream!PerCoefficient * accepted = (2 * c) * a
        BY <1>5, <4>2, <4>5
      <4> QED BY <4>6, <4>8, <4>9
    <3>4. Stream!Offer
      BY <1>2, <1>4, <2>4, <3>1, <3>3 DEF Stream!Offer
    <3> QED BY <1>3, <1>6, <3>4 DEF Stream!Advance
  <2>5. CASE output.active /\ ~ready
    <3>1. delivered' = delivered /\ output' = output
      BY <1>5, <1>7, <2>1, <2>2, <2>5
    <3>2. Shown' = Shown
      BY <1>2, <1>4, <2>5, <3>1
    <3> QED BY <1>3, <1>6, <3>1, <3>2 DEF Stream!Advance
  <2>6. CASE output.active /\ ready
    <3>1. delivered' = delivered + 1
      BY <2>1, <2>6
    <3>2. delivered' % width = 0 <=> ~output'.active
      <4>1. (FlowInv /\ CoreInv /\ state \in Running =>
               /\ Shipped \div (2 * batch.count) = output.coefficient_index
               /\ Shipped % (2 * batch.count) = 0 <=>
                    output.ciphertext = 0 /\ output.component = 0)'
        BY ShippedPosition, PTL
      <4>2. delivered' = Shipped'
        BY <2>1 DEF JobInv
      <4>3. Shipped' % width = 0 <=> output'.ciphertext = 0 /\ output'.component = 0
        BY <2>1, <4>1
      <4> QED BY <2>2, <2>6, <4>2, <4>3
    <3>3. Shown.valid
      BY <1>2, <2>6 DEF Stream!Word
    <3>4. Shown' = IF delivered' % width = 0 THEN Stream!Silent ELSE Stream!Word(delivered')
      BY <1>2, <1>4, <3>2
    <3>5. Stream!Take
      BY <1>5, <3>1, <3>3, <3>4 DEF Stream!Take
    <3> QED BY <1>3, <1>6, <3>5 DEF Stream!Advance
  <2> QED BY <2>3, <2>4, <2>5, <2>6
<1> QED BY <1>8, <1>9

(* Every step is one of the abstract stream or changes nothing of it.     *)
LEMMA StreamSimulated ==
  ASSUME WellFormed, CoreInv, FlowInv, FrameInv, LoadInv, JobInv, NumberInv,
         CoreInv', FlowInv', JobInv', [Next]_vars
  PROVE  [Stream!Next]_<<job, accepted, delivered, Shown>>
<1>1. /\ ~output.active => Shown = Stream!Silent
      /\ ~output'.active => Shown' = Stream!Silent
  BY DEF Shown, Stream!Silent
<1>2. CASE \E word \in Offered, ready \in Readiness : Tick(word, ready)
  <2>1. PICK word \in Offered, ready \in Readiness : Tick(word, ready)
    BY <1>2
  <2>2. CASE accepted_batch_header(word)
    <3>1. /\ ~output.active /\ ~output'.active
          /\ job' = [frame |-> frame.id, counts |-> frame.value, profile |-> profile.q]
          /\ frame.kind = "batch" /\ profile.q \in Profiles
          /\ accepted' = 0 /\ delivered' = 0
      BY <2>1, <2>2, JobBegins
    <3>2. frame.id \in 1..MaxFrames /\ frame.value \in Counts
      BY <3>1 DEF NumberInv, FrameInv
    <3>3. job' \in [frame : 1..MaxFrames, counts : Counts, profile : Profiles]
      BY <3>1, <3>2
    <3> QED BY <1>1, <3>1, <3>3 DEF Stream!Next, Stream!Begin
  <2>3. CASE ~accepted_batch_header(word) /\ state \notin Running
    BY <1>1, <2>1, <2>3, JobRests
  <2>4. CASE state \in Running
    BY <2>1, <2>4, BatchAdvances DEF Stream!Next
  <2> QED BY <2>2, <2>3, <2>4
<1>3. CASE StartFrame \/ UNCHANGED vars
  <2>1. UNCHANGED <<coreVars, jobVars>>
    BY <1>3 DEF StartFrame, vars
  <2>2. UNCHANGED <<job, accepted, delivered, Shown>>
    BY <2>1 DEF coreVars, protocolVars, outputVars, evalVars, bvVars, jobVars, Shown,
       m_axis_tdata, m_axis_tlast, LastCoefficient
  <2> QED BY <2>2
<1>4. CASE Reset
  <2>1. job' = NoJob /\ accepted' = 0 /\ delivered' = 0 /\ ~output'.active
    BY <1>4 DEF Reset, CoreReset, IdleOutput
  <2> QED BY <1>1, <2>1 DEF Stream!Next, Stream!Restart, Stream!NoJob, NoJob
<1> QED BY <1>2, <1>3, <1>4 DEF Next

(* Under every well-formed traffic, with any backpressure and resets at    *)
(* any clock, the core refines RelinStream: ordered, exact, stable, behind *)
(* its input and at most two coefficients ahead of its output.             *)
THEOREM CoreRefinesStream ==
  ASSUME WellFormed, MaxFrames \in Nat PROVE Spec => ImplementsStream
<1> DEFINE Inv == CoreInv /\ FlowInv /\ FrameInv /\ LoadInv /\ JobInv
<1>1. Init => Stream!Init /\ NumberInv
  BY DEF Init, CoreInit, IdleOutput, Stream!Init, Stream!NoJob, NoJob, Shown, Stream!Silent,
     NumberInv, NoFrame
<1>2. NumberInv /\ [Next]_vars => NumberInv'
  BY NumberStep
<1>3. Inv /\ Inv' /\ NumberInv /\ [Next]_vars
        => [Stream!Next]_<<job, accepted, delivered, Shown>>
  BY StreamSimulated
<1>4. Spec => []Inv
  BY StreamInvariant
<1>5. Spec => []NumberInv
  BY <1>1, <1>2, PTL DEF Spec
<1> HIDE DEF Inv
<1> QED BY <1>1, <1>3, <1>4, <1>5, PTL DEF Spec, ImplementsStream, Stream!Spec

-----------------------------------------------------------------------------
(* A receiver that is always ready never costs the sender a clock between  *)
(* coefficients, whatever gaps it leaves itself, if a coefficient takes    *)
(* longer to read than the one before it to leave the multipliers and the  *)
(* bank: Latency + 3 clocks and two words for every ciphertext.            *)
THEOREM BankFreeInTime ==
  ASSUME WellFormed, Readiness = {TRUE}, \A counts \in Counts : RoomToDrain(counts)
  PROVE  Spec => []NeverWaitsForBank
<1> DEFINE Inv == CoreInv /\ FlowInv /\ FrameInv
           Timely == TimelyInv /\ NeverWaitsForBank
<1>1. Init => Timely
  BY TimelyStarts DEF Init, CoreInit, NeverWaitsForBank
<1>2. Inv /\ Timely /\ [Next]_vars => Timely'
  <2> SUFFICES ASSUME Inv, Timely, [Next]_vars PROVE Timely'
    OBVIOUS
  <2>1. ASSUME NEW word \in Offered, Tick(word, TRUE) PROVE Timely'
    <3>1. GoodWord(word) /\ Clock(word, TRUE)
      BY <2>1, OfferedIsGood DEF FlowInv, Tick
    <3>2. state = "COEFFICIENT_DIGITS" => RoomToDrain(batch)
      <4>1. state = "COEFFICIENT_DIGITS" => frame.kind = "batch" /\ frame.value = batch
        BY DEF FrameInv, Running, Keying, InputDone
      <4> QED BY <4>1 DEF FrameInv
    <3>3. TimelyInv'
      BY <3>1, <3>2, TimelyStep
    <3>4. state' \notin Running => state' # "WAIT_BANK"
      BY DEF Running, InputDone
    <3> QED BY <3>3, <3>4 DEF TimelyInv, NeverWaitsForBank
  <2>2. ASSUME UNCHANGED coreVars PROVE Timely'
    BY <2>2, TimelyRests DEF NeverWaitsForBank, coreVars, protocolVars
  <2>3. CASE Reset
    BY <2>3, TimelyStarts DEF Reset, CoreReset, NeverWaitsForBank
  <2> QED BY <2>1, <2>2, <2>3 DEF Next, StartFrame, vars
<1> QED BY <1>1, <1>2, FlowInvariant, PTL DEF Spec

(* The least batch alone decides: three words in for every ciphertext of   *)
(* it beyond the two out must outlast the multipliers.  The source's 8     *)
(* ciphertexts do so for up to 22 stages; it has 8.                        *)
THEOREM LeastBatchNeverWaits ==
  ASSUME WellFormed, Readiness = {TRUE}, 3 * MinBatch >= Latency + 2
  PROVE  Spec => []NeverWaitsForBank
<1>1. \A c, d \in Nat \ {0} : d * (c + 2) >= c + 2 /\ d * (c + 2) \in Nat
  <2> SUFFICES ASSUME NEW c \in Nat \ {0}, NEW d \in Nat \ {0}
               PROVE  d * (c + 2) >= c + 2 /\ d * (c + 2) \in Nat
    OBVIOUS
  <2>1. PICK e \in Nat : d = e + 1
    <3>1. d - 1 \in Nat /\ d = (d - 1) + 1
      OBVIOUS
    <3> QED BY <3>1
  <2>2. d * (c + 2) = (e * (c + 2)) + (c + 2) /\ e * (c + 2) \in Nat
    BY <2>1
  <2> QED BY <2>2
<1>2. ASSUME NEW counts \in Counts PROVE RoomToDrain(counts)
  <2>1. counts.count \in MinBatch..MaxBatch /\ counts.digits \in 1..MaxDigits
    BY CountsFit
  <2>2. PICK c, d : c = counts.count /\ d = counts.digits
    OBVIOUS
  <2>3. /\ c \in Nat \ {0} /\ d \in Nat \ {0} /\ c >= MinBatch
        /\ MinBatch \in Nat /\ Latency \in Nat
    BY <2>1, <2>2, CoreAssumption
  <2>4. d * (c + 2) >= c + 2 /\ d * (c + 2) \in Nat
    BY <1>1, <2>3
  <2>5. CoefficientWords(counts) = (4 * c) + (d * (c + 2))
    BY <2>2 DEF CoefficientWords
  <2>6. (4 * c) + (d * (c + 2)) > Latency + 3 + 2 * c
    <3> DEFINE rows == d * (c + 2)
    <3>1. rows >= c + 2 /\ rows \in Nat
      BY <2>4
    <3> HIDE DEF rows
    <3>2. (4 * c) + rows > Latency + 3 + 2 * c
      BY <2>3, <3>1
    <3> QED BY <3>2 DEF rows
  <2> QED BY <2>2, <2>5, <2>6 DEF RoomToDrain
<1> QED BY <1>2, BankFreeInTime
=============================================================================
