---------------------------- MODULE SessionProofs ----------------------------
(***************************************************************************)
(* The session wrapper around the core.  Its arithmetic agrees with the    *)
(* layout of a pair payload; and SessionInv, which holds whatever the host *)
(* sends, says the wrapper turns any host frame into well formed core      *)
(* traffic, so that the core's FlowInv holds inside the wrapper.  With a   *)
(* host that follows the protocol, HostTurn and PairStream tie the three   *)
(* together, and they implement RelinSession.                              *)
(***************************************************************************)
EXTENDS SessionTraffic, KeyreuseCoreProofs

(* A product register is wide enough for what it holds.                    *)
LEMMA Fits12 ==
  ASSUME NEW x \in Nat, x < 4096
  PROVE  x % 4096 = x
OBVIOUS

(* Five bits of a digit count, as the shift-add multiplier takes them.     *)
LEMMA FiveBits ==
  ASSUME NEW d \in 0..31
  PROVE  /\ d = (d % 2) + 2 * ((d \div 2) % 2) + 4 * ((d \div 4) % 2)
                + 8 * ((d \div 8) % 2) + 16 * ((d \div 16) % 2)
         /\ d % 2 \in 0..1 /\ (d \div 2) % 2 \in 0..1 /\ (d \div 4) % 2 \in 0..1
         /\ (d \div 8) % 2 \in 0..1 /\ (d \div 16) % 2 \in 0..1
OBVIOUS

(* The shift-add product is exact for every five-bit digit count and every *)
(* seven-bit factor: twelve bits hold it.                                  *)
THEOREM ShiftAddExact ==
  ASSUME NEW d \in 0..31, NEW x \in 0..127
  PROVE  multiply_small_unsigned(d, x) = d * x
<1> DEFINE b0 == d % 2
           b1 == (d \div 2) % 2
           b2 == (d \div 4) % 2
           b3 == (d \div 8) % 2
           b4 == (d \div 16) % 2
           sum == b0 * x + b1 * (2 * x) + b2 * (4 * x) + b3 * (8 * x) + b4 * (16 * x)
<1>1. /\ (x * 1) % 4096 = x /\ (x * 2) % 4096 = 2 * x /\ (x * 4) % 4096 = 4 * x
      /\ (x * 8) % 4096 = 8 * x /\ (x * 16) % 4096 = 16 * x
  BY Fits12
<1>2. d \div 1 = d
  OBVIOUS
<1>3. multiply_small_unsigned(d, x) = sum % 4096
  BY <1>1, <1>2 DEF multiply_small_unsigned
<1>4. /\ d = b0 + 2 * b1 + 4 * b2 + 8 * b3 + 16 * b4
      /\ b0 \in 0..1 /\ b1 \in 0..1 /\ b2 \in 0..1 /\ b3 \in 0..1 /\ b4 \in 0..1
  BY FiveBits
<1> HIDE DEF b0, b1, b2, b3, b4
<1>5. sum = d * x
  BY <1>4
<1>6. sum \in Nat /\ sum < 4096
  BY <1>4
<1> QED BY <1>3, <1>5, <1>6, Fits12

(* Whenever a coefficient's words fit twelve bits, the wrapper counts as   *)
(* many of them as the layout has: the child's counters and the wrapper's  *)
(* reach the end of a pair at the same word.                               *)
THEOREM WordCountExact ==
  ASSUME NEW counts, counts.count \in 1..125, counts.digits \in 1..31,
         CoefficientWords(counts) < 4096
  PROVE  /\ words_per_coefficient(counts) = CoefficientWords(counts)
         /\ pair_payload_words(counts) = PayloadWords(counts)
<1> DEFINE c == counts.count
           d == counts.digits
<1>1. /\ c \in Nat /\ d \in 0..31 /\ c % 128 = c /\ d % 32 = d
      /\ c + 2 \in 0..127 /\ (c + 2) % 128 = c + 2
  OBVIOUS
<1>2. multiply_small_unsigned(d, c + 2) = d * (c + 2)
  <2> HIDE DEF c, d
  <2> QED BY <1>1, ShiftAddExact
<1>3. CoefficientWords(counts) = 4 * c + d * (c + 2)
  BY DEF CoefficientWords
<1>4. words_per_coefficient(counts) = (4 * c + d * (c + 2)) % 4096
  BY <1>1, <1>2 DEF words_per_coefficient
<1>5. 4 * c + d * (c + 2) \in Nat
  <2> HIDE DEF c, d
  <2>1. d \in Nat
    BY <1>1
  <2> QED BY <1>1, <2>1
<1>6. words_per_coefficient(counts) = CoefficientWords(counts)
  BY <1>3, <1>4, <1>5, Fits12
<1>7. CoefficientWords(counts) \in Nat
  BY <1>3, <1>5
<1>8. pair_payload_words(counts) = PayloadWords(counts)
  BY <1>6, <1>7, CoreAssumption DEF pair_payload_words, PayloadWords
<1> QED BY <1>6, <1>8

(* The limits the source is built with, 64 ciphertexts and 16 digits, are  *)
(* within those bounds.                                                    *)
THEOREM SourceLimitsFit ==
  ASSUME NEW counts, counts.count \in 1..64, counts.digits \in 1..16
  PROVE  words_per_coefficient(counts) = CoefficientWords(counts)
<1>1. counts.digits * (counts.count + 2) <= 16 * 66
  <2> DEFINE c == counts.count + 2
             d == counts.digits
  <2>1. c \in 0..66 /\ d \in 0..16
    OBVIOUS
  <2> HIDE DEF c, d
  <2>2. d * c <= 16 * c
    BY <2>1
  <2>3. 16 * c <= 16 * 66
    BY <2>1
  <2>4. d * c \in Nat
    BY <2>1
  <2> QED BY <2>1, <2>2, <2>3, <2>4 DEF c, d
<1>2. 4 * counts.count <= 256 /\ counts.digits * (counts.count + 2) \in Nat
  OBVIOUS
<1>3. CoefficientWords(counts) < 4096
  BY <1>1, <1>2 DEF CoefficientWords
<1> QED BY <1>3, WordCountExact

-----------------------------------------------------------------------------
(* Inside the wrapper, too, the core's queues stay in step with its        *)
(* multipliers and its banks are drained only while they are handed over,  *)
(* whatever frames the host cuts short, overruns or has refused.           *)
THEOREM SessionCoreInvariant == Spec => []CoreInv
<1>1. Init => CoreInv
  BY CoreStarts DEF Init, SessionInit
<1>2. CoreInv /\ [Next]_vars => CoreInv'
  <2> SUFFICES ASSUME CoreInv, [Next]_vars PROVE CoreInv'
    OBVIOUS
  <2>1. ASSUME NEW word, NEW ready, Tick(word, ready) PROVE CoreInv'
    BY <2>1, CoreStep DEF Tick, SessionClock
  <2>2. ASSUME UNCHANGED coreVars PROVE CoreInv'
    BY <2>2, CoreStep
  <2>3. CASE Reset
    BY <2>3, CoreStarts DEF Reset, SessionReset
  <2> QED BY <2>1, <2>2, <2>3 DEF Next, StartTable, StartSession, StartPair, Begin, vars
<1> QED BY <1>1, <1>2, PTL DEF Spec

-----------------------------------------------------------------------------
(* The wrapper's protocol on its own: while a session is open no state     *)
(* that writes the profile table is entered.                               *)
Loading == {"PROFILE_COUNT", "PROFILE_Q", "PROFILE_MU"}
OpenInv ==
  /\ DOMAIN session = {"active", "counts", "current", "expected"}
  /\ session.active => session_state \notin Loading

(* The open session keeps the loaded table: its flag is off while a table   *)
(* is loading, and no word changes the table while it is on.               *)
LEMMA OpenStep ==
  ASSUME OpenInv, NEW word, NEW ready, SessionProtocol(word, ready)
  PROVE  OpenInv' /\ (session.active => UNCHANGED table)
<1> USE DEF OpenInv, Loading, Enter, Refuse
<1>1. CASE ReceiveCommand(word)
  BY <1>1 DEF ReceiveCommand
<1>2. CASE ReceivePairCount(word) \/ ReceiveModuli(word)
  BY <1>2 DEF ReceivePairCount, ReceiveModuli
<1>3. CASE ReceiveReciprocals(word)
  BY <1>3 DEF ReceiveReciprocals
<1>4. CASE ReceiveCounts(word)
  BY <1>4 DEF ReceiveCounts
<1>5. CASE ReceivePairIndex(word)
  BY <1>5 DEF ReceivePairIndex
<1>6. CASE InjectHeaders
  BY <1>6 DEF InjectHeaders, Injected
<1>7. CASE ForwardPairData(word)
  BY <1>7 DEF ForwardPairData
<1>8. CASE WaitPairOutput(ready)
  BY <1>8 DEF WaitPairOutput
<1>9. CASE DiscardFrame(word)
  BY <1>9 DEF DiscardFrame
<1>10. CASE Waiting(word, ready)
  BY <1>10 DEF Waiting
<1> QED BY <1>1, <1>2, <1>3, <1>4, <1>5, <1>6, <1>7, <1>8, <1>9, <1>10 DEF SessionProtocol

(* An open session keeps the profile table it was opened on: no frame, in  *)
(* whatever order and however broken, reloads it.                          *)
THEOREM SessionKeepsTable == Spec => TableHeldInSession
<1>1. Init => OpenInv
  BY DEF Init, SessionInit, OpenInv, ResetSession
<1>2. OpenInv /\ [Next]_vars =>
        /\ OpenInv'
        /\ session.active /\ session'.active => UNCHANGED table
  <2> SUFFICES ASSUME OpenInv, [Next]_vars
               PROVE  /\ OpenInv'
                      /\ session.active /\ session'.active => UNCHANGED table
    OBVIOUS
  <2>1. ASSUME NEW word, NEW ready, Tick(word, ready)
        PROVE  OpenInv' /\ (session.active => UNCHANGED table)
    BY <2>1, OpenStep DEF Tick, SessionClock
  <2>2. CASE Reset
    BY <2>2 DEF Reset, SessionReset, ResetSession, OpenInv
  <2>3. CASE UNCHANGED wrapperVars
    BY <2>3 DEF wrapperVars, OpenInv
  <2> QED BY <2>1, <2>2, <2>3 DEF Next, StartTable, StartSession, StartPair, Begin, vars
<1>3. OpenInv /\ [Next]_vars =>
        [session.active /\ session'.active =>
           /\ table'.loaded = table.loaded
           /\ \A pair \in 0..(table.loaded - 1) :
                /\ table'.modulus[pair] = table.modulus[pair]
                /\ table'.mu[pair] = table.mu[pair]]_vars
  BY <1>2
<1> QED BY <1>1, <1>2, <1>3, PTL DEF Spec, TableHeldInSession

-----------------------------------------------------------------------------
(* Where wrapper and core stand in each other's protocol, whatever frames  *)
(* the host sends.                                                         *)
Opening   == {"PAIR_COUNTS", "PAIR_INDEX"}
Injecting == {"INJECT_PROFILE_COMMAND", "INJECT_PROFILE_Q", "INJECT_PROFILE_MU",
              "INJECT_BATCH_COMMAND", "INJECT_BATCH_COUNT"}
Moving    == {"FORWARD_PAIR_DATA", "WAIT_PAIR_OUTPUT"}
CoreIdle  == {"IDLE", "DISCARD", "INJECT_PROFILE_COMMAND", "INJECT_BATCH_COMMAND"}
               \union Loading \union Opening
FitCounts == [count : MinBatch..MaxBatch, digits : 1..MaxDigits]

(* The profile table: a pair's entry is written before it can be used.     *)
TableInv ==
  /\ DOMAIN table = {"loading", "loaded", "write_index", "ready", "modulus", "mu"}
  /\ DOMAIN table.modulus = PairIndexes /\ DOMAIN table.mu = PairIndexes
  /\ session_state \in {"PROFILE_Q", "PROFILE_MU"} =>
       /\ table.loading \in 1..MaxPairCount
       /\ table.write_index \in 0..(table.loading - 1)
       /\ \A pair \in 0..(table.write_index - 1) :
            table.modulus[pair] \in Profiles /\ table.mu[pair] \in Profiles
  /\ session_state = "PROFILE_MU" => table.modulus[table.write_index] \in Profiles
  /\ table.ready =>
       /\ table.loaded \in 1..MaxPairCount
       /\ \A pair \in 0..(table.loaded - 1) :
            table.modulus[pair] \in Profiles /\ table.mu[pair] \in Profiles

(* A session's next pair has an entry in the table.                        *)
PairInv ==
  /\ ~session.active => session.expected = 0
  /\ session.expected \in Nat
  /\ session.active => table.ready
  /\ table.ready => session.expected < table.loaded
  /\ session_state \in Opening => table.ready
  /\ session_state \in Injecting \union Moving =>
       session.active /\ session.current = session.expected
  /\ session_state \in {"PAIR_INDEX"} \union Injecting \union {"FORWARD_PAIR_DATA"} =>
       frame_counts \in FitCounts

(* The header words injected into the core, one for each state.            *)
InjectInv ==
  /\ DOMAIN injection = {"valid", "word"}
  /\ injection.valid <=> session_state \in Injecting
  /\ session_state \in Injecting =>
       injection.word.last = (session_state = "INJECT_PROFILE_MU")
  /\ session_state = "INJECT_PROFILE_COMMAND" => injection.word.is = "RLPF"
  /\ session_state = "INJECT_PROFILE_Q" =>
       injection.word.is = "moduli" /\ injection.word.value \in Profiles
  /\ session_state = "INJECT_PROFILE_MU" =>
       injection.word.is = "reciprocals" /\ injection.word.value \in Profiles
  /\ session_state = "INJECT_BATCH_COMMAND" => injection.word.is = "RLCM"
  /\ session_state = "INJECT_BATCH_COUNT" =>
       injection.word.is = "counts" /\ injection.word.value = frame_counts

(* The payload FIFO: only the word the count calls the last has TLAST.     *)
PayloadInv ==
  /\ DOMAIN payload = {"remaining", "complete"} /\ payload.complete \in BOOLEAN
  /\ \E S : fifo \in Seq(S)
  /\ session_state # "FORWARD_PAIR_DATA" => fifo = <<>>
  /\ session_state \in Injecting =>
       ~payload.complete /\ payload.remaining = PayloadWords(frame_counts)
  /\ session_state = "FORWARD_PAIR_DATA" =>
       /\ payload.remaining \in Nat \ {0}
       /\ \A i \in 1..Len(fifo) :
            /\ fifo[i].is = "payload"
            /\ fifo[i].last <=> payload.complete /\ i = Len(fifo)

(* The core's state and counters beside the wrapper's.                     *)
ChildInv ==
  /\ DOMAIN profile = {"q", "mu", "ready"}
  /\ session_state \in CoreIdle => state = "IDLE"
  /\ session_state = "INJECT_PROFILE_Q" => state = "PROFILE_Q"
  /\ session_state = "INJECT_PROFILE_MU" => state = "PROFILE_MU"
  /\ session_state = "INJECT_BATCH_COMMAND" => profile.ready
  /\ session_state = "INJECT_BATCH_COUNT" => state = "BATCH_HEADER"
  /\ session_state = "WAIT_PAIR_OUTPUT" => state = "WAIT_BATCH_OUTPUT"
  /\ session_state = "FORWARD_PAIR_DATA" =>
       /\ state \in Running \ {"WAIT_BATCH_OUTPUT"}
       /\ batch = frame_counts
       /\ Consumed + Len(fifo) + (IF payload.complete THEN 0 ELSE payload.remaining)
            = PayloadWords(batch)

SessionInv ==
  /\ session_state \in CoreIdle \union Injecting \union Moving
  /\ OpenInv /\ TableInv /\ PairInv /\ InjectInv /\ PayloadInv /\ ChildInv

(* A counts word holds two counts.                                         *)
WellShaped(word) == word.is = "counts" => word.value \in [count : Nat, digits : Nat]

(* Every word a table frame can hold leaves the table consistent.          *)
LEMMA TableStep ==
  ASSUME TableInv, NEW word, NEW ready, SessionProtocol(word, ready)
  PROVE  TableInv'
<1> USE DEF TableInv, Enter, Refuse
<1>1. CASE ReceiveCommand(word)
  BY <1>1 DEF ReceiveCommand
<1>2. CASE ReceivePairCount(word)
  <2>1. CASE UNCHANGED table /\ session_state' \in {"IDLE", "DISCARD"}
    BY <2>1
  <2>2. CASE /\ table' = [table EXCEPT !.loading = word.value.pairs, !.write_index = 0,
                                       !.ready = FALSE]
             /\ word.value.pairs \in 1..MaxPairCount /\ session_state' = "PROFILE_Q"
    BY <2>2, MaxPairAssumption
  <2> QED BY <1>2, <2>1, <2>2 DEF ReceivePairCount
<1>3. CASE ReceiveModuli(word)
  <2>1. CASE UNCHANGED table /\ session_state' \in {"IDLE", "DISCARD"}
    BY <2>1
  <2>2. CASE /\ table' = [table EXCEPT !.modulus[table.write_index] = word.value]
             /\ word.value \in Profiles /\ session_state' = "PROFILE_MU"
    <3>1. /\ DOMAIN table' = DOMAIN table /\ DOMAIN table'.modulus = PairIndexes
          /\ \A pair \in PairIndexes :
               table'.modulus[pair] = IF pair = table.write_index THEN word.value
                                      ELSE table.modulus[pair]
          /\ table'.mu = table.mu /\ table'.loading = table.loading
          /\ table'.write_index = table.write_index /\ table'.ready = table.ready
          /\ table'.loaded = table.loaded
      BY <2>2
    <3>2. session_state = "PROFILE_Q"
      BY <1>3 DEF ReceiveModuli
    <3>3. table.write_index \in PairIndexes
      BY <3>2, MaxPairAssumption DEF PairIndexes
    <3>4. \A n \in 0..MaxPairCount : 0..(n - 1) \subseteq PairIndexes
      BY MaxPairAssumption DEF PairIndexes
    <3>5. table.ready => 0..(table.loaded - 1) \subseteq PairIndexes
      BY <3>4
    <3>6. 0..(table.write_index - 1) \subseteq PairIndexes
      BY <3>2, <3>4, MaxPairAssumption
    <3>7. table'.ready =>
            /\ table'.loaded \in 1..MaxPairCount
            /\ \A pair \in 0..(table'.loaded - 1) :
                 table'.modulus[pair] \in Profiles /\ table'.mu[pair] \in Profiles
      BY <2>2, <3>1, <3>5
    <3>8. /\ \A pair \in 0..(table'.write_index - 1) :
               table'.modulus[pair] \in Profiles /\ table'.mu[pair] \in Profiles
          /\ table'.modulus[table'.write_index] \in Profiles
      BY <2>2, <3>1, <3>2, <3>3, <3>6
    <3> QED BY <2>2, <3>1, <3>2, <3>7, <3>8
  <2> QED BY <1>3, <2>1, <2>2 DEF ReceiveModuli
<1>4. CASE ReceiveReciprocals(word)
  <2>1. CASE UNCHANGED table /\ session_state' \in {"IDLE", "DISCARD"}
    BY <2>1
  <2> DEFINE w == table.write_index
  <2>2. /\ session_state = "PROFILE_MU" /\ table.loading \in 1..MaxPairCount
        /\ w \in 0..(table.loading - 1) /\ w \in PairIndexes
        /\ \A pair \in 0..(w - 1) :
             table.modulus[pair] \in Profiles /\ table.mu[pair] \in Profiles
        /\ table.modulus[w] \in Profiles
    BY <1>4, MaxPairAssumption DEF ReceiveReciprocals, PairIndexes
  <2>3. 0..w \subseteq PairIndexes
    BY <2>2, MaxPairAssumption DEF PairIndexes
  <2>4. CASE /\ table' = [table EXCEPT !.mu[w] = word.value,
                                       !.loaded = table.loading, !.ready = TRUE]
             /\ word.value \in Profiles /\ session_state' = "IDLE"
             /\ w + 1 = table.loading
    <3>1. /\ DOMAIN table' = DOMAIN table /\ DOMAIN table'.mu = PairIndexes
          /\ \A pair \in PairIndexes :
               table'.mu[pair] = IF pair = w THEN word.value ELSE table.mu[pair]
          /\ table'.modulus = table.modulus /\ table'.loaded = w + 1
      BY <2>4
    <3>2. \A pair \in 0..w : pair = w \/ pair \in 0..(w - 1)
      BY <2>2
    <3>3. \A pair \in 0..w : table'.modulus[pair] \in Profiles /\ table'.mu[pair] \in Profiles
      BY <2>2, <2>3, <2>4, <3>1, <3>2
    <3>4. table'.loaded \in 1..MaxPairCount /\ table'.loaded - 1 = w
      BY <2>2, <2>4, <3>1
    <3> QED BY <2>4, <3>1, <3>3, <3>4
  <2>5. CASE /\ table' = [table EXCEPT !.mu[w] = word.value, !.write_index = @ + 1]
             /\ word.value \in Profiles /\ session_state' = "PROFILE_Q"
             /\ w + 1 # table.loading
    <3>1. /\ DOMAIN table' = DOMAIN table /\ DOMAIN table'.mu = PairIndexes
          /\ \A pair \in PairIndexes :
               table'.mu[pair] = IF pair = w THEN word.value ELSE table.mu[pair]
          /\ table'.modulus = table.modulus /\ table'.loaded = table.loaded
          /\ table'.loading = table.loading /\ table'.ready = table.ready
          /\ table'.write_index = w + 1
      BY <2>5
    <3>2. \A pair \in 0..w : pair = w \/ pair \in 0..(w - 1)
      BY <2>2
    <3>3. \A pair \in 0..w : table'.modulus[pair] \in Profiles /\ table'.mu[pair] \in Profiles
      BY <2>2, <2>3, <2>5, <3>1, <3>2
    <3>4. table'.write_index \in 0..(table'.loading - 1) /\ table'.write_index - 1 = w
      BY <2>2, <2>5, <3>1
    <3>5. \A n \in 0..MaxPairCount : 0..(n - 1) \subseteq PairIndexes
      BY MaxPairAssumption DEF PairIndexes
    <3>6. table.ready => 0..(table.loaded - 1) \subseteq PairIndexes
      BY <3>5
    <3>7. table'.ready =>
            /\ table'.loaded \in 1..MaxPairCount
            /\ \A pair \in 0..(table'.loaded - 1) :
                 table'.modulus[pair] \in Profiles /\ table'.mu[pair] \in Profiles
      BY <2>5, <3>1, <3>6
    <3> QED BY <2>2, <2>5, <3>1, <3>3, <3>4, <3>7
  <2> QED BY <1>4, <2>1, <2>4, <2>5 DEF ReceiveReciprocals, final_profile_word
<1>5. CASE ReceiveCounts(word)
  BY <1>5 DEF ReceiveCounts
<1>6. CASE ReceivePairIndex(word)
  BY <1>6 DEF ReceivePairIndex
<1>7. CASE InjectHeaders
  BY <1>7 DEF InjectHeaders, Injected
<1>8. CASE ForwardPairData(word)
  BY <1>8 DEF ForwardPairData
<1>9. CASE WaitPairOutput(ready)
  BY <1>9 DEF WaitPairOutput
<1>10. CASE DiscardFrame(word)
  BY <1>10 DEF DiscardFrame
<1>11. CASE Waiting(word, ready)
  BY <1>11 DEF Waiting
<1> QED BY <1>1, <1>2, <1>3, <1>4, <1>5, <1>6, <1>7, <1>8, <1>9, <1>10, <1>11
        DEF SessionProtocol

(* A pair is admitted only with its turn, its table entry and its counts.  *)
LEMMA PairStep ==
  ASSUME OpenInv, TableInv, TableInv', PairInv, NEW word, NEW ready, WellShaped(word),
         SessionProtocol(word, ready)
  PROVE  PairInv'
<1> USE DEF PairInv, Enter, Refuse, Opening, Injecting, Moving
<1>1. CASE ReceiveCommand(word)
  BY <1>1 DEF ReceiveCommand
<1>2. CASE ReceivePairCount(word)
  <2>1. ~session.active
    BY <1>2 DEF ReceivePairCount, OpenInv, Loading
  <2>2. CASE UNCHANGED table /\ session_state' \in {"IDLE", "DISCARD"}
    BY <1>2, <2>2 DEF ReceivePairCount
  <2>3. CASE ~table'.ready /\ session_state' = "PROFILE_Q"
    BY <1>2, <2>1, <2>3 DEF ReceivePairCount
  <2> QED BY <1>2, <2>2, <2>3 DEF ReceivePairCount, TableInv
<1>3. CASE ReceiveModuli(word)
  <2>1. table'.ready = table.ready /\ table'.loaded = table.loaded
    BY <1>3 DEF ReceiveModuli, TableInv
  <2> QED BY <1>3, <2>1 DEF ReceiveModuli
<1>4. CASE ReceiveReciprocals(word)
  <2>1. ~session.active
    BY <1>4 DEF ReceiveReciprocals, OpenInv, Loading
  <2>2. session'.active = session.active /\ session'.expected = session.expected
    BY <1>4, <2>1 DEF ReceiveReciprocals, OpenInv
  <2>3. table'.ready => 0 < table'.loaded
    BY DEF TableInv
  <2>4. session_state' \in {"IDLE", "DISCARD", "PROFILE_Q"}
    BY <1>4 DEF ReceiveReciprocals
  <2> QED BY <2>1, <2>2, <2>3, <2>4
<1>5. CASE ReceiveCounts(word)
  <2>1. CASE session_state' \in {"IDLE", "DISCARD"} /\ UNCHANGED <<table, session>>
    BY <2>1
  <2>2. CASE /\ session_state' = "PAIR_INDEX" /\ frame_counts' = word.value
             /\ ValidCounts(word) /\ UNCHANGED <<table, session>>
    <3>1. word.value \in FitCounts
      BY <2>2 DEF ValidCounts, WellShaped, FitCounts
    <3> QED BY <1>5, <2>2, <3>1 DEF ReceiveCounts
  <2> QED BY <1>5, <2>1, <2>2 DEF ReceiveCounts
<1>6. CASE ReceivePairIndex(word)
  <2>1. CASE session_state' \in {"IDLE", "DISCARD"} /\ UNCHANGED <<table, session>>
    BY <2>1
  <2>2. CASE /\ session_state' = "INJECT_PROFILE_COMMAND" /\ UNCHANGED <<table, frame_counts>>
             /\ session' = [session EXCEPT
                             !.current = session.expected, !.active = TRUE,
                             !.counts = IF session.active THEN @ ELSE frame_counts]
    <3>1. session'.active /\ session'.current = session.expected
          /\ session'.expected = session.expected
      BY <2>2 DEF OpenInv
    <3> QED BY <1>6, <2>2, <3>1 DEF ReceivePairIndex
  <2> QED BY <1>6, <2>1, <2>2 DEF ReceivePairIndex
<1>7. CASE InjectHeaders
  BY <1>7 DEF InjectHeaders, Injected
<1>8. CASE ForwardPairData(word)
  BY <1>8 DEF ForwardPairData
<1>9. CASE WaitPairOutput(ready)
  <2>1. /\ session_state = "WAIT_PAIR_OUTPUT" /\ session_state' = "IDLE"
        /\ session' = [session EXCEPT !.active = ~final_pair,
                                      !.expected = IF final_pair THEN 0 ELSE @ + 1]
        /\ UNCHANGED table
    BY <1>9 DEF WaitPairOutput
  <2>2. /\ session'.active = ~final_pair
        /\ session'.expected = IF final_pair THEN 0 ELSE session.expected + 1
    BY <2>1 DEF OpenInv
  <2>3. session.active /\ table.ready /\ session.current = session.expected
        /\ table.loaded \in 1..MaxPairCount
    BY <2>1 DEF TableInv
  <2>4. session'.expected \in Nat /\ session'.expected < table.loaded
    BY <2>2, <2>3, MaxPairAssumption DEF final_pair
  <2>5. ~session'.active => session'.expected = 0
    BY <2>2
  <2> QED BY <2>1, <2>3, <2>4, <2>5
<1>10. CASE DiscardFrame(word)
  <2>1. CASE session' = session
    BY <1>10, <2>1 DEF DiscardFrame
  <2>2. CASE session' = [session EXCEPT !.active = FALSE, !.expected = 0]
             /\ session_state' = "IDLE"
    <3>1. ~session'.active /\ session'.expected = 0
      BY <2>2 DEF OpenInv
    <3> QED BY <1>10, <2>2, <3>1 DEF DiscardFrame, TableInv
  <2> QED BY <1>10, <2>1, <2>2 DEF DiscardFrame
<1>11. CASE Waiting(word, ready)
  BY <1>11 DEF Waiting
<1> QED BY <1>1, <1>2, <1>3, <1>4, <1>5, <1>6, <1>7, <1>8, <1>9, <1>10, <1>11
        DEF SessionProtocol

-----------------------------------------------------------------------------
(* The core inside the wrapper.                                            *)

(* What the core is offered in each state of the wrapper is what it reads  *)
(* next: the words the wrapper makes up, and the payload words with TLAST  *)
(* on the last.                                                            *)
LEMMA CoreWordIsGood ==
  ASSUME SessionInv, InputInv
  PROVE  /\ GoodWord(core_word)
         /\ session_state \in Injecting => core_word = injection.word
         /\ session_state \notin Injecting \union {"FORWARD_PAIR_DATA"} =>
              ~Handshake(core_word)
<1> USE DEF SessionInv
<1>1. CASE session_state \in Injecting
  <2>1. core_word = injection.word
    BY <1>1 DEF core_word, InjectInv, Injecting
  <2>2. frame_counts \in FitCounts
    BY <1>1 DEF PairInv
  <2>3. session_state = "INJECT_BATCH_COUNT" =>
          ValidCounts(injection.word) /\ DOMAIN injection.word.value = {"count", "digits"}
    BY <2>2 DEF InjectInv, ValidCounts, FitCounts
  <2>4. /\ session_state \in {"INJECT_PROFILE_COMMAND", "INJECT_BATCH_COMMAND"} =>
             state = "IDLE"
        /\ state \notin Running
    BY <1>1 DEF ChildInv, CoreIdle, Injecting, Running, Keying, InputDone
  <2> QED BY <1>1, <2>1, <2>3, <2>4 DEF GoodWord, InjectInv, ChildInv, Injecting
<1>2. CASE session_state = "FORWARD_PAIR_DATA"
  <2>1. session_state \notin Injecting
    BY <1>2 DEF Injecting
  <2>2. SUFFICES ASSUME Handshake(core_word) PROVE GoodWord(core_word)
    BY <1>2, <2>1 DEF GoodWord
  <2>3. fifo # <<>> /\ core_word = Head(fifo)
    BY <1>2, <2>2 DEF core_word, Handshake, NoWord
  <2>4. Len(fifo) \in Nat \ {0} /\ core_word = fifo[1]
    BY <2>3 DEF PayloadInv
  <2>5. /\ state \in Running /\ state # "WAIT_BATCH_OUTPUT"
        /\ Consumed + Len(fifo) + (IF payload.complete THEN 0 ELSE payload.remaining)
             = PayloadWords(batch)
    BY <1>2 DEF ChildInv
  <2>6. state \notin InputDone
    BY <2>2 DEF Handshake, s_axis_tready, InputDone
  <2>7. /\ Consumed \in Nat
        /\ Consumed + 1 = PayloadWords(batch) <=>
             state = "COEFFICIENT_DIGITS" /\ final_external_payload_word
    BY <2>5, <2>6, LastPosition
  <2>8. core_word.last <=> payload.complete /\ Len(fifo) = 1
    <3>1. \A i \in 1..Len(fifo) : fifo[i].last <=> payload.complete /\ i = Len(fifo)
      BY <1>2 DEF PayloadInv
    <3>2. 1 \in 1..Len(fifo) /\ (1 = Len(fifo) <=> Len(fifo) = 1)
      BY <2>4
    <3>3. fifo[1].last <=> payload.complete /\ 1 = Len(fifo)
      BY <3>1, <3>2, Zenon
    <3> QED BY <2>4, <3>2, <3>3, Zenon
  <2>9. payload.complete \in BOOLEAN /\ payload.remaining \in Nat \ {0}
    BY <1>2 DEF PayloadInv
  <2>10. core_word.last <=> Consumed + 1 = PayloadWords(batch)
    <3>1. payload.complete /\ Len(fifo) = 1 <=> Consumed + 1 = PayloadWords(batch)
      <4>1. CASE payload.complete
        <5>1. Consumed + Len(fifo) + 0 = PayloadWords(batch)
          BY <2>5, <4>1
        <5>2. Len(fifo) = 1 <=> Consumed + 1 = PayloadWords(batch)
          <6>1. Consumed \in Nat /\ Len(fifo) \in Nat
            BY <2>4, <2>7
          <6>2. \A x, y \in Nat : y = 1 <=> x + 1 = x + y + 0
            OBVIOUS
          <6> QED BY <5>1, <6>1, <6>2
        <5> QED BY <4>1, <5>2
      <4>2. CASE ~payload.complete
        <5>1. Consumed + Len(fifo) + payload.remaining = PayloadWords(batch)
          BY <2>5, <4>2
        <5>2. Consumed + 1 # PayloadWords(batch)
          BY <2>4, <2>7, <2>9, <5>1
        <5> QED BY <4>2, <5>2
      <4> QED BY <4>1, <4>2
    <3> QED BY <2>8, <3>1, Zenon
  <2> QED BY <2>5, <2>7, <2>10 DEF GoodWord, Running, Keying, InputDone
<1>3. CASE session_state \notin Injecting \union {"FORWARD_PAIR_DATA"}
  <2>1. core_word = NoWord
    BY <1>3 DEF core_word, InjectInv
  <2> QED BY <1>3, <2>1 DEF GoodWord, Handshake, NoWord
<1> QED BY <1>1, <1>2, <1>3

(* The core between payloads, word by word.                                *)
LEMMA HeaderStep ==
  ASSUME InputInv, NEW word, NEW ready, Protocol(word, ready), GoodWord(word),
         DOMAIN profile = {"q", "mu", "ready"}
  PROVE  /\ DOMAIN profile' = {"q", "mu", "ready"}
         /\ state \in Idling /\ ~Handshake(word) => UNCHANGED <<state, profile, batch>>
         /\ state = "IDLE" /\ Handshake(word) =>
              /\ state' = (IF word.is = "RLPF" THEN "PROFILE_Q" ELSE "BATCH_HEADER")
              /\ UNCHANGED profile
         /\ state = "PROFILE_Q" /\ Handshake(word) => state' = "PROFILE_MU"
         /\ state = "PROFILE_MU" /\ Handshake(word) => state' = "IDLE" /\ profile'.ready
         /\ state = "BATCH_HEADER" /\ Handshake(word) =>
              /\ state' = "COEFFICIENT_EVAL" /\ batch' = word.value
              /\ coefficient_index' = 0
              /\ eval_input' = [eval_input EXCEPT !.ciphertext = 0, !.phase = 0]
<1>1. DOMAIN profile' = {"q", "mu", "ready"}
  BY DEF Protocol, AcceptCommand, AcceptModuli, AcceptReciprocals, AcceptCounts,
     AcceptOperand, AcceptKey, AcceptDigit, Discard, WaitBank, FinishBatch, Hold,
     protocolVars, Reject, Truncate, StartNextCoefficient
<1>2. state \in Idling /\ ~Handshake(word) => UNCHANGED <<state, profile, batch>>
  BY DEF Protocol, Idling, WaitBank, FinishBatch, Hold, protocolVars
<1>3. state = "IDLE" /\ Handshake(word) =>
        /\ state' = (IF word.is = "RLPF" THEN "PROFILE_Q" ELSE "BATCH_HEADER")
        /\ UNCHANGED profile
  BY DEF Protocol, AcceptCommand, AcceptModuli, AcceptReciprocals, AcceptCounts,
     AcceptOperand, AcceptKey, AcceptDigit, Discard, WaitBank, FinishBatch, Hold,
     GoodWord, Goto
<1>4. state = "PROFILE_Q" /\ Handshake(word) => state' = "PROFILE_MU"
  BY DEF Protocol, AcceptCommand, AcceptModuli, AcceptReciprocals, AcceptCounts,
     AcceptOperand, AcceptKey, AcceptDigit, Discard, WaitBank, FinishBatch, Hold,
     GoodWord, Goto
<1>5. state = "PROFILE_MU" /\ Handshake(word) => state' = "IDLE" /\ profile'.ready
  <2>1. state = "PROFILE_MU" /\ Handshake(word) =>
          state' = "IDLE" /\ profile' = [profile EXCEPT !.mu = word.value, !.ready = TRUE]
    BY DEF Protocol, AcceptCommand, AcceptModuli, AcceptReciprocals, AcceptCounts,
       AcceptOperand, AcceptKey, AcceptDigit, Discard, WaitBank, FinishBatch, Hold,
       GoodWord, Goto
  <2> QED BY <2>1
<1>6. state = "BATCH_HEADER" /\ Handshake(word) =>
        /\ state' = "COEFFICIENT_EVAL" /\ batch' = word.value
        /\ coefficient_index' = 0
        /\ eval_input' = [eval_input EXCEPT !.ciphertext = 0, !.phase = 0]
  BY DEF Protocol, AcceptCommand, AcceptModuli, AcceptReciprocals, AcceptCounts,
     AcceptOperand, AcceptKey, AcceptDigit, Discard, WaitBank, FinishBatch, Hold,
     GoodWord, Goto, RestartInput
<1> QED BY <1>1, <1>2, <1>3, <1>4, <1>5, <1>6

(* A payload begins at position 0.                                         *)
LEMMA PayloadBegins ==
  ASSUME InputInv, InputInv', state' = "COEFFICIENT_EVAL", coefficient_index' = 0,
         eval_input' = [eval_input EXCEPT !.ciphertext = 0, !.phase = 0]
  PROVE  Consumed' = 0
<1>1. CoefficientPosition' = 0
  <2>1. eval_input'.ciphertext = 0 /\ eval_input'.phase = 0
    BY DEF InputInv
  <2>2. CoefficientPosition' = 4 * eval_input'.ciphertext + eval_input'.phase
    BY DEF CoefficientPosition
  <2> QED BY <2>1, <2>2
<1>2. CoefficientWords(batch)' \in Nat
  <2>1. batch'.count \in Nat /\ batch'.digits \in Nat
    BY CoreAssumption DEF InputInv, Running
  <2>2. \A x, y \in Nat : 4 * x + y * (x + 2) \in Nat
    OBVIOUS
  <2> QED BY <2>1, <2>2 DEF CoefficientWords
<1>3. Consumed' = 0 * CoefficientWords(batch)' + 0
  BY <1>1 DEF Consumed
<1> QED BY <1>2, <1>3

(* One clock of a payload: a word in, a word through, or neither.          *)
LEMMA ForwardStep ==
  ASSUME SessionInv, FlowInv, FlowInv', NEW word, NEW ready,
         session_state = "FORWARD_PAIR_DATA",
         SessionClock(word, ready), GoodWord(core_word)
  PROVE  /\ session_state' \in Moving
         /\ InjectInv' /\ PayloadInv' /\ ChildInv'
<1> DEFINE pop   == payload_dequeue
           push  == payload_enqueue(word)
           final == payload_final_word
           entry == [is |-> "payload", value |-> word.value, last |-> final]
           ended == pop /\ Head(fifo).last
           left  == IF payload.complete THEN 0 ELSE payload.remaining
<1>1. /\ pop <=> Handshake(core_word)
      /\ pop => fifo # <<>> /\ core_word = Head(fifo)
      /\ push => ~payload.complete
  BY DEF payload_dequeue, payload_enqueue, Received, session_tready, core_word, Handshake,
     NoWord
<1>2. /\ session_state' = IF ended THEN "WAIT_PAIR_OUTPUT" ELSE "FORWARD_PAIR_DATA"
      /\ payload' = IF ~push THEN payload
                    ELSE IF final THEN [payload EXCEPT !.complete = TRUE]
                                  ELSE [payload EXCEPT !.remaining = @ - 1]
      /\ UNCHANGED <<frame_counts, injection>>
  <2>1. CASE ForwardPairData(word)
    BY <2>1 DEF ForwardPairData
  <2>2. CASE Waiting(word, ready)
    BY <2>2 DEF Waiting
  <2> QED BY <2>1, <2>2 DEF SessionClock, SessionProtocol, ReceiveCommand,
      ReceivePairCount, ReceiveModuli, ReceiveReciprocals, ReceiveCounts,
      ReceivePairIndex, InjectHeaders, Injected, WaitPairOutput, DiscardFrame
<1>3. fifo' = Push(fifo, pop, push, entry)
  BY DEF SessionClock, PayloadFifo, Push
<1>4. /\ DOMAIN payload = {"remaining", "complete"}
      /\ payload.complete \in BOOLEAN /\ payload.remaining \in Nat \ {0}
      /\ Len(fifo) \in Nat
      /\ \A i \in 1..Len(fifo) :
           fifo[i].is = "payload" /\ (fifo[i].last <=> payload.complete /\ i = Len(fifo))
  BY DEF SessionInv, PayloadInv
<1>5. PICK S : fifo \in Seq(S)
  BY DEF SessionInv, PayloadInv
<1>6. /\ state \in Running /\ state # "WAIT_BATCH_OUTPUT" /\ batch = frame_counts
      /\ Consumed + Len(fifo) + left = PayloadWords(batch)
      /\ DOMAIN profile = {"q", "mu", "ready"}
  BY DEF SessionInv, ChildInv
<1>7. /\ InputInv /\ InputInv' /\ Protocol(core_word, ready) /\ ~Finishes(ready)
  BY <1>6 DEF FlowInv, SessionClock, Clock, Finishes
<1>8. /\ UNCHANGED batch /\ state' \in Running
      /\ Consumed' = Consumed + (IF pop THEN 1 ELSE 0)
      /\ DOMAIN profile' = {"q", "mu", "ready"}
  <2>1. UNCHANGED batch /\ state' \in Running
    BY <1>6, <1>7, Advance DEF Running
  <2>2. Consumed' = Consumed + (IF Handshake(core_word) THEN 1 ELSE 0)
    BY <1>6, <1>7, PositionStep
  <2>3. DOMAIN profile' = {"q", "mu", "ready"}
    BY <1>6, <1>7, HeaderStep
  <2>4. Consumed' = Consumed + (IF pop THEN 1 ELSE 0)
    <3>1. CASE pop
      BY <1>1, <2>2, <3>1
    <3>2. CASE ~pop
      BY <1>1, <2>2, <3>2
    <3> QED BY <3>1, <3>2
  <2> QED BY <2>1, <2>3, <2>4
<1>9. /\ Consumed \in Nat /\ Consumed < PayloadWords(batch) /\ PayloadWords(batch) \in Nat
      /\ Consumed' \in Nat
      /\ state' = "WAIT_BATCH_OUTPUT" <=> Consumed' = PayloadWords(batch)
  <2>1. Consumed \in Nat /\ Consumed < PayloadWords(batch)
    BY <1>6, <1>7, LastPosition
  <2>2. /\ Consumed' \in Nat
        /\ state' = "WAIT_BATCH_OUTPUT" => Consumed' = PayloadWords(batch)'
        /\ state' # "WAIT_BATCH_OUTPUT" => Consumed' < PayloadWords(batch)'
    <3>1. (InputInv /\ state \in Running =>
             /\ Consumed \in Nat
             /\ state = "WAIT_BATCH_OUTPUT" => Consumed = PayloadWords(batch)
             /\ state # "WAIT_BATCH_OUTPUT" => Consumed < PayloadWords(batch))'
      BY LastPositionHolds, PTL
    <3> QED BY <1>7, <1>8, <3>1
  <2>3. PayloadWords(batch)' = PayloadWords(batch)
    BY <1>8
  <2>4. PayloadWords(batch) \in Nat
    <3>1. CoefficientWords(batch) \in Nat
      BY <1>6, <1>7, PositionLimits
    <3> QED BY <3>1, CoreAssumption DEF PayloadWords
  <2> QED BY <2>1, <2>2, <2>3, <2>4
<1>10. /\ \E T : fifo' \in Seq(T)
       /\ Len(fifo') = Len(fifo) - (IF pop THEN 1 ELSE 0) + (IF push THEN 1 ELSE 0)
       /\ pop => Len(fifo) > 0
       /\ \A i \in 1..Len(fifo') :
            fifo'[i] = IF i <= Len(fifo) - (IF pop THEN 1 ELSE 0)
                         THEN fifo[i + (IF pop THEN 1 ELSE 0)] ELSE entry
  <2>1. pop => Len(fifo) > 0
    BY <1>1, <1>5
  <2> HIDE DEF entry, pop, push
  <2>2. /\ Push(fifo, pop, push, entry) \in Seq(S \union {entry})
        /\ Len(Push(fifo, pop, push, entry)) =
             Len(fifo) - (IF pop THEN 1 ELSE 0) + (IF push THEN 1 ELSE 0)
    BY <1>5, <2>1, PushLength
  <2>3. \A i \in 1..Len(Push(fifo, pop, push, entry)) :
          Push(fifo, pop, push, entry)[i] =
            IF i <= Len(fifo) - (IF pop THEN 1 ELSE 0)
              THEN fifo[i + (IF pop THEN 1 ELSE 0)] ELSE entry
    BY <1>5, <2>1, PushElements
  <2> QED BY <1>3, <2>1, <2>2, <2>3
<1>11. /\ DOMAIN payload' = {"remaining", "complete"}
       /\ payload'.complete \in BOOLEAN /\ payload'.remaining \in Nat \ {0}
       /\ payload'.complete <=> payload.complete \/ (push /\ final)
       /\ (IF payload'.complete THEN 0 ELSE payload'.remaining)
            = left - (IF push THEN 1 ELSE 0)
  <2>1. CASE ~push
    <3>1. payload' = payload
      BY <1>2, <2>1
    <3> QED BY <1>4, <2>1, <3>1
  <2>2. CASE push /\ final
    <3>1. payload' = [payload EXCEPT !.complete = TRUE] /\ payload.remaining = 1
      BY <1>2, <2>2 DEF payload_final_word
    <3>2. payload'.complete = TRUE /\ payload'.remaining = 1
          /\ DOMAIN payload' = {"remaining", "complete"}
      BY <1>4, <3>1
    <3> QED BY <1>1, <2>2, <3>1, <3>2
  <2>3. CASE push /\ ~final
    <3>1. payload' = [payload EXCEPT !.remaining = @ - 1] /\ payload.remaining # 1
      BY <1>2, <2>3 DEF payload_final_word
    <3>2. payload'.complete = payload.complete
          /\ payload'.remaining = payload.remaining - 1
          /\ DOMAIN payload' = {"remaining", "complete"}
      BY <1>4, <3>1
    <3> QED BY <1>1, <1>4, <2>3, <3>1, <3>2
  <2> QED BY <2>1, <2>2, <2>3
<1>12. left \in Nat /\ (left = 0 <=> payload.complete)
  BY <1>4
<1>13. pop => (Head(fifo).last <=> payload.complete /\ Len(fifo) = 1)
  <2> SUFFICES ASSUME pop PROVE Head(fifo).last <=> payload.complete /\ Len(fifo) = 1
    OBVIOUS
  <2>1. Head(fifo) = fifo[1] /\ 1 \in 1..Len(fifo) /\ (1 = Len(fifo) <=> Len(fifo) = 1)
    BY <1>4, <1>5, <1>10
  <2>2. fifo[1].last <=> payload.complete /\ 1 = Len(fifo)
    BY <1>4, <2>1, Zenon
  <2> QED BY <2>1, <2>2, Zenon
<1> HIDE DEF left, pop, push, final, entry
<1>14. ended <=> state' = "WAIT_BATCH_OUTPUT"
  <2>1. CASE pop
    <3>1. payload.complete /\ Len(fifo) = 1 <=> Consumed + 1 = PayloadWords(batch)
      <4>1. \A x, l, r \in Nat : l > 0 => (r = 0 /\ l = 1 <=> x + 1 = x + l + r)
        OBVIOUS
      <4>2. left = 0 /\ Len(fifo) = 1 <=> Consumed + 1 = Consumed + Len(fifo) + left
        <5>1. Consumed \in Nat /\ Len(fifo) \in Nat /\ left \in Nat /\ Len(fifo) > 0
          BY <1>4, <1>9, <1>10, <1>12, <2>1
        <5> QED BY <4>1, <5>1
      <4> QED BY <1>6, <1>12, <4>2
    <3> QED BY <1>8, <1>9, <1>13, <2>1, <3>1
  <2>2. CASE ~pop
    <3>1. Consumed' = Consumed
      BY <1>8, <1>9, <2>2
    <3> QED BY <1>9, <2>2, <3>1
  <2> QED BY <2>1, <2>2
<1>15. Consumed' + Len(fifo') + (IF payload'.complete THEN 0 ELSE payload'.remaining)
         = PayloadWords(batch)
  <2> DEFINE p == IF pop THEN 1 ELSE 0
             q == IF push THEN 1 ELSE 0
  <2>1. p \in 0..1 /\ q \in 0..1
    OBVIOUS
  <2>2. /\ Consumed' = Consumed + p /\ Len(fifo') = Len(fifo) - p + q
        /\ (IF payload'.complete THEN 0 ELSE payload'.remaining) = left - q
    BY <1>8, <1>10, <1>11
  <2> HIDE DEF p, q
  <2>3. \A x, l, r \in Nat : \A i, j \in 0..1 :
          (x + i) + (l - i + j) + (r - j) = x + l + r
    OBVIOUS
  <2> QED BY <1>4, <1>6, <1>9, <1>12, <2>1, <2>2, <2>3
<1>16. \A i \in 1..Len(fifo') :
         fifo'[i].is = "payload" /\ (fifo'[i].last <=> payload'.complete /\ i = Len(fifo'))
  <2> SUFFICES ASSUME NEW i \in 1..Len(fifo')
               PROVE  /\ fifo'[i].is = "payload"
                      /\ fifo'[i].last <=> payload'.complete /\ i = Len(fifo')
    OBVIOUS
  <2> DEFINE popped == IF pop THEN 1 ELSE 0
  <2>1. CASE i <= Len(fifo) - popped
    <3>1. fifo'[i] = fifo[i + popped] /\ i + popped \in 1..Len(fifo)
      BY <1>4, <1>10, <2>1
    <3>2. /\ fifo[i + popped].is = "payload"
          /\ fifo[i + popped].last <=> payload.complete /\ i + popped = Len(fifo)
      BY <1>4, <3>1
    <3>3. payload.complete /\ i + popped = Len(fifo) <=> payload'.complete /\ i = Len(fifo')
      <4>1. CASE push
        <5>1. ~payload.complete /\ i # Len(fifo')
          BY <1>1, <1>4, <1>10, <2>1, <4>1 DEF push
        <5> QED BY <5>1
      <4>2. CASE ~push
        <5>1. payload'.complete <=> payload.complete
          BY <1>11, <4>2
        <5>2. i + popped = Len(fifo) <=> i = Len(fifo')
          BY <1>4, <1>10, <4>2
        <5> QED BY <5>1, <5>2
      <4> QED BY <4>1, <4>2
    <3> QED BY <3>1, <3>2, <3>3, Zenon
  <2>2. CASE ~(i <= Len(fifo) - popped)
    <3>1. fifo'[i] = entry /\ push /\ i = Len(fifo')
      BY <1>4, <1>10, <2>2
    <3>2. entry.is = "payload" /\ entry.last = final
      BY DEF entry
    <3>3. payload'.complete <=> final
      BY <1>1, <1>11, <3>1 DEF push
    <3> QED BY <3>1, <3>2, <3>3, Zenon
  <2> QED BY <2>1, <2>2
<1>17. ended => fifo' = <<>>
  <2> SUFFICES ASSUME ended PROVE fifo' = <<>>
    OBVIOUS
  <2>1. pop /\ payload.complete /\ Len(fifo) = 1
    BY <1>13
  <2>2. ~push
    BY <1>1, <2>1 DEF push
  <2>3. Len(fifo') = 0
    BY <1>10, <2>1, <2>2
  <2> QED BY <1>10, <2>3
<1>18. InjectInv'
  <2>1. session_state \notin Injecting /\ session_state' \notin Injecting
    BY <1>2 DEF Injecting
  <2> QED BY <1>2, <2>1 DEF InjectInv, SessionInv, Injecting
<1>19. PayloadInv'
  <2>1. session_state' \notin Injecting
    BY <1>2 DEF Injecting
  <2> QED BY <1>2, <1>10, <1>11, <1>16, <1>17, <2>1 DEF PayloadInv
<1>20. ChildInv'
  <2>1. CASE ended
    <3>1. session_state' = "WAIT_PAIR_OUTPUT" /\ state' = "WAIT_BATCH_OUTPUT"
      BY <1>2, <1>14, <2>1
    <3> QED BY <1>8, <3>1 DEF ChildInv, CoreIdle, Loading, Opening
  <2>2. CASE ~ended
    <3>1. session_state' = "FORWARD_PAIR_DATA" /\ state' # "WAIT_BATCH_OUTPUT"
      BY <1>2, <1>14, <2>2
    <3>2. batch' = frame_counts' /\ PayloadWords(batch)' = PayloadWords(batch)
      BY <1>2, <1>6, <1>8
    <3> QED BY <1>8, <1>15, <3>1, <3>2 DEF ChildInv, CoreIdle, Loading, Opening
  <2> QED BY <2>1, <2>2
<1> QED BY <1>2, <1>18, <1>19, <1>20 DEF Moving

(* A pair of counts the core takes announces at least one word.            *)
LEMMA PayloadNonempty ==
  ASSUME NEW counts, counts.count \in MinBatch..MaxBatch, counts.digits \in 1..MaxDigits
  PROVE  PayloadWords(counts) \in Nat \ {0}
<1> DEFINE c == counts.count
           d == counts.digits
<1>1. c \in Nat \ {0} /\ d \in Nat \ {0} /\ N \in Nat \ {0}
  BY CoreAssumption
<1>2. PayloadWords(counts) = N * (4 * c + d * (c + 2))
  BY DEF PayloadWords, CoefficientWords
<1> HIDE DEF c, d
<1>3. d * (c + 2) \in Nat /\ 4 * c \in Nat \ {0}
  BY <1>1
<1>4. 4 * c + d * (c + 2) \in Nat \ {0}
  BY <1>3
<1>5. \A x, y \in Nat \ {0} : x * y \in Nat \ {0}
  OBVIOUS
<1> QED BY <1>1, <1>2, <1>4, <1>5

(* What the wrapper's own states do to the injection, the FIFO and the     *)
(* core, while no payload moves.                                           *)
LEMMA HeaderStates ==
  ASSUME MaxBatch <= 64, MaxDigits <= 16, SessionInv, PairInv', FlowInv, FlowInv',
         NEW word, NEW ready, session_state # "FORWARD_PAIR_DATA",
         SessionClock(word, ready), GoodWord(core_word)
  PROVE  /\ session_state' \in CoreIdle \union Injecting \union Moving
         /\ InjectInv' /\ PayloadInv' /\ ChildInv'
<1>1. /\ InputInv /\ InputInv' /\ Protocol(core_word, ready)
      /\ DOMAIN profile = {"q", "mu", "ready"} /\ DOMAIN profile' = {"q", "mu", "ready"}
  <2>1. /\ InputInv /\ InputInv' /\ Protocol(core_word, ready)
        /\ DOMAIN profile = {"q", "mu", "ready"}
    BY DEF FlowInv, SessionClock, Clock, SessionInv, ChildInv
  <2> QED BY <2>1, HeaderStep
<1>2. fifo' = <<>>
  <2>1. ~payload_dequeue /\ ~payload_enqueue(word) /\ fifo = <<>>
    BY DEF payload_dequeue, payload_enqueue, SessionInv, PayloadInv
  <2> QED BY <2>1 DEF SessionClock, PayloadFifo
<1>3. SessionProtocol(word, ready)
  BY DEF SessionClock
<1>4. /\ session_state \in Injecting => core_word = injection.word
      /\ session_state \notin Injecting => ~Handshake(core_word)
  BY <1>1, CoreWordIsGood
<1>5. state \in Idling /\ ~Handshake(core_word) => UNCHANGED <<state, profile, batch>>
  BY <1>1, HeaderStep
<1> DEFINE Reads == CoreIdle \ Injecting
<1>6. ASSUME session_state \in Reads
      PROVE  state = "IDLE" /\ UNCHANGED <<state, profile>> /\ ~injection.valid
             /\ session_state \notin Injecting
  <2>1. state = "IDLE" /\ state \in Idling /\ session_state \notin Injecting
    BY <1>6 DEF SessionInv, ChildInv, Idling
  <2> QED BY <1>4, <1>5, <2>1 DEF SessionInv, InjectInv
<1>7. ASSUME session_state' \in Reads, state' = "IDLE",
             injection' = injection
               \/ injection' = [injection EXCEPT !.valid = FALSE, !.word.last = FALSE],
             ~injection.valid, payload' = payload
      PROVE  /\ session_state' \in CoreIdle \union Injecting \union Moving
             /\ InjectInv' /\ PayloadInv' /\ ChildInv'
  <2>1. session_state' \in CoreIdle /\ session_state' \notin Injecting \union Moving
    BY <1>7 DEF CoreIdle, Injecting, Moving, Loading, Opening
  <2>2. DOMAIN injection' = {"valid", "word"} /\ ~injection'.valid
    BY <1>7 DEF SessionInv, InjectInv
  <2>3. InjectInv'
    BY <2>1, <2>2 DEF InjectInv, Injecting
  <2>4. Len(fifo') \in Nat /\ \E S : fifo' \in Seq(S)
    BY <1>2
  <2>5. PayloadInv'
    BY <1>2, <1>7, <2>1, <2>4 DEF PayloadInv, SessionInv, Moving
  <2>6. ChildInv'
    BY <1>1, <1>7, <2>1 DEF ChildInv, Injecting, Moving
  <2> QED BY <2>1, <2>3, <2>5, <2>6
<1>8. CASE /\ session_state \in Reads /\ session_state' \in Reads /\ payload' = payload
           /\ \/ injection' = injection
              \/ injection' = [injection EXCEPT !.valid = FALSE, !.word.last = FALSE]
  BY <1>6, <1>7, <1>8
<1>9. CASE \/ ReceiveCommand(word) \/ ReceivePairCount(word) \/ ReceiveModuli(word)
           \/ ReceiveReciprocals(word) \/ ReceiveCounts(word) \/ DiscardFrame(word)
  <2>1. session_state \in Reads /\ session_state' \in Reads
    BY <1>9 DEF ReceiveCommand, ReceivePairCount, ReceiveModuli, ReceiveReciprocals,
       ReceiveCounts, DiscardFrame, Refuse, Enter, CoreIdle, Loading, Opening, Injecting
  <2>2. /\ payload' = payload
        /\ \/ injection' = injection
           \/ injection' = [injection EXCEPT !.valid = FALSE, !.word.last = FALSE]
    BY <1>9 DEF ReceiveCommand, ReceivePairCount, ReceiveModuli, ReceiveReciprocals,
       ReceiveCounts, DiscardFrame, Refuse
  <2> QED BY <1>8, <2>1, <2>2
<1>10. CASE Waiting(word, ready) /\ session_state \in Reads
  BY <1>8, <1>10 DEF Waiting
<1>11. CASE ReceivePairIndex(word)
  <2>1. session_state = "PAIR_INDEX" /\ session_state \in Reads
    BY <1>11 DEF ReceivePairIndex, CoreIdle, Opening, Injecting
  <2>2. CASE Refuse(word)
    <3>1. session_state' \in Reads
      BY <2>2 DEF Refuse, CoreIdle, Injecting
    <3> QED BY <1>8, <2>1, <2>2, <3>1 DEF Refuse
  <2>3. CASE ~Refuse(word)
    <3>1. /\ session_state' = "INJECT_PROFILE_COMMAND"
          /\ payload' = [remaining |-> pair_payload_words(frame_counts), complete |-> FALSE]
          /\ injection' = [valid |-> TRUE,
                           word |-> [is |-> "RLPF", value |-> ZeroWord, last |-> FALSE]]
          /\ UNCHANGED frame_counts
      BY <1>11, <2>3 DEF ReceivePairIndex, Enter, Inject
    <3>2. pair_payload_words(frame_counts) = PayloadWords(frame_counts)
      <4>1. frame_counts.count \in 1..64 /\ frame_counts.digits \in 1..16
        BY <2>1, CoreAssumption DEF SessionInv, PairInv, FitCounts
      <4>2. words_per_coefficient(frame_counts) = CoefficientWords(frame_counts)
        BY <4>1, SourceLimitsFit
      <4>3. CoefficientWords(frame_counts) \in Nat
        <5>1. \A x, y \in Nat : 4 * x + y * (x + 2) \in Nat
          OBVIOUS
        <5>2. frame_counts.count \in Nat /\ frame_counts.digits \in Nat
          BY <4>1
        <5> QED BY <5>1, <5>2 DEF CoefficientWords
      <4> QED BY <4>2, <4>3, CoreAssumption DEF pair_payload_words, PayloadWords
    <3>3. session_state' \in Injecting
      BY <3>1 DEF Injecting
    <3>4. InjectInv'
      BY <3>1, <3>3 DEF InjectInv
    <3>5. PayloadInv'
      <4>1. payload'.remaining = PayloadWords(frame_counts)' /\ payload'.complete = FALSE
            /\ DOMAIN payload' = {"remaining", "complete"}
        BY <3>1, <3>2
      <4>2. \E S : fifo' \in Seq(S)
        BY <1>2
      <4> QED BY <1>2, <3>1, <4>1, <4>2 DEF PayloadInv
    <3>6. ChildInv'
      BY <1>1, <1>6, <2>1, <3>1 DEF ChildInv, CoreIdle
    <3> QED BY <3>3, <3>4, <3>5, <3>6
  <2> QED BY <2>2, <2>3
<1>12. CASE session_state = "WAIT_PAIR_OUTPUT"
  <2>1. /\ state = "WAIT_BATCH_OUTPUT" /\ ~injection.valid /\ ~Handshake(core_word)
    BY <1>4, <1>12 DEF SessionInv, ChildInv, InjectInv, Injecting
  <2>2. Finishes(ready) <=> pair_output_complete(ready)
    BY <2>1 DEF Finishes, pair_output_complete, output_batch_complete,
       output_coefficient_complete, m_axis_tlast
  <2>3. state' = IF Finishes(ready) THEN "IDLE" ELSE "WAIT_BATCH_OUTPUT"
    BY <1>1, <2>1 DEF Protocol, WaitBank, FinishBatch, Hold, Finishes, Goto, protocolVars
  <2>4. CASE WaitPairOutput(ready)
    <3>1. /\ session_state' = "IDLE" /\ state' = "IDLE"
          /\ UNCHANGED <<injection, payload>> /\ session_state' \in Reads
      BY <2>2, <2>3, <2>4 DEF WaitPairOutput, Enter, CoreIdle, Injecting
    <3> QED BY <1>7, <2>1, <3>1
  <2>5. CASE Waiting(word, ready)
    <3>1. /\ session_state' = "WAIT_PAIR_OUTPUT" /\ state' = "WAIT_BATCH_OUTPUT"
          /\ UNCHANGED <<injection, payload>>
      BY <1>12, <2>2, <2>3, <2>5 DEF Waiting
    <3>2. \E S : fifo' \in Seq(S)
      BY <1>2
    <3>3. session_state' \notin CoreIdle \union Injecting
      BY <3>1 DEF CoreIdle, Injecting, Loading, Opening
    <3>4. InjectInv' /\ PayloadInv'
      BY <1>2, <2>1, <3>1, <3>2, <3>3 DEF SessionInv, InjectInv, PayloadInv, Injecting
    <3>5. ChildInv'
      BY <1>1, <3>1, <3>3 DEF ChildInv
    <3> QED BY <3>1, <3>4, <3>5 DEF Moving
  <2> QED BY <1>3, <1>12, <2>4, <2>5 DEF SessionProtocol, ReceiveCommand,
      ReceivePairCount, ReceiveModuli, ReceiveReciprocals, ReceiveCounts,
      ReceivePairIndex, InjectHeaders, Injected, ForwardPairData, DiscardFrame
<1>13. CASE InjectHeaders
  <2>1. /\ session_state \in Injecting /\ Handshake(core_word)
        /\ core_word = injection.word /\ session_state # "WAIT_PAIR_OUTPUT"
        /\ UNCHANGED <<table, session, frame_counts, payload>>
    BY <1>4, <1>13 DEF InjectHeaders, Injected, Injecting
  <2>2. /\ session.current \in 0..(table.loaded - 1)
        /\ table.modulus[session.current] \in Profiles
        /\ table.mu[session.current] \in Profiles
        /\ frame_counts \in FitCounts
        /\ payload.complete = FALSE /\ payload.remaining = PayloadWords(frame_counts)
        /\ DOMAIN payload = {"remaining", "complete"}
    BY <2>1, MaxPairAssumption DEF SessionInv, PairInv, TableInv, PayloadInv
  <2>3. \E S : fifo' \in Seq(S)
    BY <1>2
  <2>4. ASSUME session_state' \in Injecting PROVE PayloadInv'
    <3>1. session_state' # "FORWARD_PAIR_DATA"
      BY <2>4 DEF Injecting
    <3>2. PayloadWords(frame_counts)' = PayloadWords(frame_counts)
      BY <2>1
    <3> QED BY <1>2, <2>1, <2>2, <2>3, <3>1, <3>2 DEF PayloadInv
  <2>5. CASE /\ Injected("INJECT_PROFILE_COMMAND", "INJECT_PROFILE_Q")
             /\ Inject("moduli", table.modulus[session.current], FALSE)
    <3>1. /\ session_state = "INJECT_PROFILE_COMMAND"
          /\ session_state' = "INJECT_PROFILE_Q" /\ session_state' \in Injecting
          /\ injection' = [valid |-> TRUE,
                           word |-> [is |-> "moduli", last |-> FALSE,
                                     value |-> table.modulus[session.current]]]
      BY <2>5 DEF Injected, Enter, Inject, Injecting
    <3>2. state' = "PROFILE_Q"
      BY <1>1, <2>1, <3>1, HeaderStep DEF SessionInv, ChildInv, InjectInv, CoreIdle
    <3>3. InjectInv'
      BY <2>2, <3>1 DEF InjectInv
    <3>4. ChildInv'
      BY <1>1, <3>1, <3>2 DEF ChildInv, CoreIdle, Loading, Opening
    <3> QED BY <2>4, <3>1, <3>3, <3>4
  <2>6. CASE /\ Injected("INJECT_PROFILE_Q", "INJECT_PROFILE_MU")
             /\ Inject("reciprocals", table.mu[session.current], TRUE)
    <3>1. /\ session_state = "INJECT_PROFILE_Q"
          /\ session_state' = "INJECT_PROFILE_MU" /\ session_state' \in Injecting
          /\ injection' = [valid |-> TRUE,
                           word |-> [is |-> "reciprocals", last |-> TRUE,
                                     value |-> table.mu[session.current]]]
      BY <2>6 DEF Injected, Enter, Inject, Injecting
    <3>2. state' = "PROFILE_MU"
      BY <1>1, <2>1, <3>1, HeaderStep DEF SessionInv, ChildInv
    <3>3. InjectInv'
      BY <2>2, <3>1 DEF InjectInv
    <3>4. ChildInv'
      BY <1>1, <3>1, <3>2 DEF ChildInv, CoreIdle, Loading, Opening
    <3> QED BY <2>4, <3>1, <3>3, <3>4
  <2>7. CASE /\ Injected("INJECT_PROFILE_MU", "INJECT_BATCH_COMMAND")
             /\ Inject("RLCM", ZeroWord, FALSE)
    <3>1. /\ session_state = "INJECT_PROFILE_MU"
          /\ session_state' = "INJECT_BATCH_COMMAND" /\ session_state' \in Injecting
          /\ injection' = [valid |-> TRUE,
                           word |-> [is |-> "RLCM", last |-> FALSE, value |-> ZeroWord]]
      BY <2>7 DEF Injected, Enter, Inject, Injecting
    <3>2. state' = "IDLE" /\ profile'.ready
      BY <1>1, <2>1, <3>1, HeaderStep DEF SessionInv, ChildInv
    <3>3. InjectInv'
      BY <3>1 DEF InjectInv
    <3>4. ChildInv'
      BY <1>1, <3>1, <3>2 DEF ChildInv, CoreIdle, Loading, Opening
    <3> QED BY <2>4, <3>1, <3>3, <3>4
  <2>8. CASE /\ Injected("INJECT_BATCH_COMMAND", "INJECT_BATCH_COUNT")
             /\ Inject("counts", frame_counts, FALSE)
    <3>1. /\ session_state = "INJECT_BATCH_COMMAND"
          /\ session_state' = "INJECT_BATCH_COUNT" /\ session_state' \in Injecting
          /\ injection' = [valid |-> TRUE,
                           word |-> [is |-> "counts", last |-> FALSE,
                                     value |-> frame_counts]]
      BY <2>8 DEF Injected, Enter, Inject, Injecting
    <3>2. state' = "BATCH_HEADER"
      BY <1>1, <2>1, <3>1, HeaderStep DEF SessionInv, ChildInv, InjectInv, CoreIdle
    <3>3. InjectInv'
      BY <2>1, <3>1 DEF InjectInv
    <3>4. ChildInv'
      BY <1>1, <3>1, <3>2 DEF ChildInv, CoreIdle, Loading, Opening
    <3> QED BY <2>4, <3>1, <3>3, <3>4
  <2>9. CASE /\ Injected("INJECT_BATCH_COUNT", "FORWARD_PAIR_DATA")
             /\ injection' = [injection EXCEPT !.valid = FALSE]
    <3>1. /\ session_state = "INJECT_BATCH_COUNT"
          /\ session_state' = "FORWARD_PAIR_DATA"
          /\ session_state' \notin CoreIdle \union Injecting
      BY <2>9 DEF Injected, Enter, Injecting, CoreIdle, Loading, Opening
    <3>2. /\ state' = "COEFFICIENT_EVAL" /\ batch' = frame_counts
          /\ coefficient_index' = 0
          /\ eval_input' = [eval_input EXCEPT !.ciphertext = 0, !.phase = 0]
      BY <1>1, <2>1, <3>1, HeaderStep DEF SessionInv, ChildInv, InjectInv
    <3>3. Consumed' = 0
      BY <1>1, <3>2, PayloadBegins
    <3>4. PayloadWords(frame_counts) \in Nat \ {0}
      BY <2>2, PayloadNonempty DEF FitCounts
    <3>5. InjectInv'
      <4>1. DOMAIN injection' = {"valid", "word"} /\ ~injection'.valid
        BY <2>9 DEF SessionInv, InjectInv
      <4> QED BY <3>1, <4>1 DEF InjectInv, Injecting
    <3>6. PayloadInv'
      <4>1. Len(fifo') = 0
        BY <1>2
      <4>2. payload'.complete = FALSE
        BY <2>1, <2>2
      <4>3. payload'.remaining \in Nat \ {0} /\ DOMAIN payload' = {"remaining", "complete"}
        BY <2>1, <2>2, <3>4
      <4>4. \A i \in 1..Len(fifo') : FALSE
        BY <4>1
      <4> QED BY <1>2, <2>3, <3>1, <4>2, <4>3, <4>4 DEF PayloadInv
    <3>7. ChildInv'
      <4>1. Len(fifo') = 0 /\ ~payload'.complete
            /\ payload'.remaining = PayloadWords(frame_counts)
            /\ PayloadWords(batch)' = PayloadWords(frame_counts)
        BY <1>2, <2>1, <2>2, <3>2
      <4>2. batch' = frame_counts' /\ state' \in Running \ {"WAIT_BATCH_OUTPUT"}
        BY <2>1, <3>2 DEF Running
      <4>3. Consumed' + Len(fifo')
              + (IF payload'.complete THEN 0 ELSE payload'.remaining) = PayloadWords(batch)'
        BY <3>3, <3>4, <4>1
      <4> QED BY <1>1, <3>1, <4>2, <4>3 DEF ChildInv
    <3> QED BY <3>1, <3>5, <3>6, <3>7 DEF Moving
  <2> QED BY <1>13, <2>5, <2>6, <2>7, <2>8, <2>9 DEF InjectHeaders
<1>14. CASE Waiting(word, ready) /\ session_state \in Injecting
  <2>1. /\ UNCHANGED <<session_state, injection, frame_counts, payload>>
        /\ ~Handshake(core_word) /\ state \in Idling
    BY <1>14 DEF Waiting, Injecting, SessionInv, ChildInv, CoreIdle, Idling
  <2>2. UNCHANGED <<state, profile>>
    BY <1>5, <2>1
  <2>3. session_state # "FORWARD_PAIR_DATA" /\ session_state # "WAIT_PAIR_OUTPUT"
    BY <1>14 DEF Injecting
  <2>4. InjectInv'
    BY <2>1 DEF SessionInv, InjectInv
  <2>5. PayloadInv'
    <3>1. \E S : fifo' \in Seq(S)
      BY <1>2
    <3>2. PayloadWords(frame_counts)' = PayloadWords(frame_counts)
      BY <2>1
    <3> QED BY <1>2, <1>14, <2>1, <2>3, <3>1, <3>2 DEF SessionInv, PayloadInv
  <2>6. ChildInv'
    BY <2>1, <2>2, <2>3 DEF SessionInv, ChildInv
  <2> QED BY <1>14, <2>1, <2>4, <2>5, <2>6
<1>15. session_state \in Reads \union Injecting \union {"WAIT_PAIR_OUTPUT"}
  BY DEF SessionInv, Moving
<1> QED BY <1>3, <1>9, <1>10, <1>11, <1>12, <1>13, <1>14, <1>15
        DEF SessionProtocol, ForwardPairData, WaitPairOutput

-----------------------------------------------------------------------------
(* The limits the source is built with, or less; and Counts holds pairs of *)
(* counts, those the wrapper refuses included.                             *)
SourceSized ==
  MaxBatch <= 64 /\ MaxDigits <= 16 /\ Counts \subseteq [count : Nat, digits : Nat]

(* What the host announces as counts are two counts, right or wrong.       *)
HostInv ==
  /\ frame.kind \in {"none", "table", "pair"}
  /\ frame.kind = "pair" => frame.value \in Counts
  /\ \E S : jobs \in Seq(S)
  /\ jobs # <<>> => jobs[1].counts \in Counts

(* Every word the host offers is a field or a payload word of its frames.  *)
LEMMA OfferedShaped ==
  ASSUME SourceSized, HostInv, NEW word \in Offered
  PROVE  WellShaped(word)
<1> DEFINE good == FrameWord(frame, sent)
<1>1. /\ DOMAIN good = {"is", "value", "last"}
      /\ frame.kind # "none" => (good.is = "counts" => good.value \in Counts)
  <2>1. CASE frame.kind = "table"
    BY <2>1 DEF FrameWord, TableWord
  <2>2. CASE frame.kind # "table"
    <3>1. CASE sent = 1
      BY <2>2, <3>1 DEF FrameWord, PairWord, HostInv
    <3>2. CASE sent # 1
      BY <2>2, <3>2 DEF FrameWord, PairWord
    <3> QED BY <3>1, <3>2
  <2> QED BY <2>1, <2>2
<1>2. CASE word = NoWord \/ word = [is |-> "payload", value |-> ZeroWord, last |-> TRUE]
  BY <1>2 DEF WellShaped, NoWord
<1>3. CASE frame.kind # "none" /\ word = good
  BY <1>1, <1>3 DEF WellShaped, SourceSized
<1>4. CASE frame.kind # "none" /\ word \in FaultyWords(frame, sent)
  <2>1. \/ word = [good EXCEPT !.is = "refused"]
        \/ word = [good EXCEPT !.last = TRUE]
        \/ word = [good EXCEPT !.last = FALSE]
    BY <1>4 DEF FaultyWords
  <2>2. word.is = "refused" \/ (word.is = good.is /\ word.value = good.value)
    BY <1>1, <2>1
  <2> QED BY <1>1, <1>4, <2>2 DEF WellShaped, SourceSized
<1> QED BY <1>2, <1>3, <1>4 DEF Offered

(* One clock edge of wrapper and core together.                            *)
LEMMA SessionStep ==
  ASSUME SourceSized, CoreInv, FlowInv, SessionInv, NEW word, WellShaped(word),
         NEW ready, SessionClock(word, ready)
  PROVE  FlowInv' /\ SessionInv' /\ UNCHANGED protocol_error
<1>1. /\ OpenInv /\ TableInv /\ PairInv
      /\ SessionProtocol(word, ready) /\ Clock(core_word, ready)
  BY DEF SessionInv, SessionClock
<1>2. GoodWord(core_word)
  BY CoreWordIsGood DEF FlowInv
<1>3. FlowInv' /\ UNCHANGED protocol_error
  BY <1>1, <1>2, FlowStep
<1>4. OpenInv' /\ TableInv'
  BY <1>1, OpenStep, TableStep
<1>5. PairInv'
  BY <1>1, <1>4, PairStep
<1>6. /\ session_state' \in CoreIdle \union Injecting \union Moving
      /\ InjectInv' /\ PayloadInv' /\ ChildInv'
  <2>1. CASE session_state = "FORWARD_PAIR_DATA"
    BY <1>2, <1>3, <2>1, ForwardStep
  <2>2. CASE session_state # "FORWARD_PAIR_DATA"
    BY <1>2, <1>3, <1>5, <2>2, HeaderStates DEF SourceSized
  <2> QED BY <2>1, <2>2
<1> QED BY <1>3, <1>4, <1>5, <1>6 DEF SessionInv

(* Power-on and reset of wrapper and core together satisfy the invariant.  *)
LEMMA SessionStarts == (SessionInit => SessionInv) /\ (SessionReset => SessionInv')
<1>1. /\ "IDLE" \in CoreIdle
      /\ "IDLE" \notin Loading \union Opening \union Injecting \union Moving
  BY DEF CoreIdle, Loading, Opening, Injecting, Moving
<1>2. SessionInit => SessionInv
  <2> SUFFICES ASSUME SessionInit PROVE SessionInv
    OBVIOUS
  <2>1. /\ session_state = "IDLE" /\ state = "IDLE" /\ profile = ResetProfile
        /\ table = ResetTable /\ session = ResetSession /\ payload = ResetPayload
        /\ fifo = <<>> /\ injection = ResetInjection
    BY DEF SessionInit, CoreInit
  <2>2. \E S : fifo \in Seq(S)
    BY <2>1
  <2>3. OpenInv /\ TableInv /\ PairInv
    BY <1>1, <2>1 DEF OpenInv, TableInv, PairInv, ResetTable, ResetSession
  <2>4. InjectInv /\ PayloadInv
    BY <1>1, <2>1, <2>2 DEF InjectInv, PayloadInv, ResetInjection, ResetPayload
  <2>5. ChildInv
    BY <2>1 DEF ChildInv, ResetProfile
  <2> QED BY <1>1, <2>1, <2>3, <2>4, <2>5 DEF SessionInv
<1>3. SessionReset => SessionInv'
  <2> SUFFICES ASSUME SessionReset PROVE SessionInv'
    OBVIOUS
  <2>1. /\ session_state' = "IDLE" /\ state' = "IDLE" /\ profile' = ResetProfile
        /\ table' = ResetTable /\ session' = ResetSession /\ payload' = ResetPayload
        /\ fifo' = <<>> /\ injection' = ResetInjection
    BY DEF SessionReset, CoreReset
  <2>2. \E S : fifo' \in Seq(S)
    BY <2>1
  <2>3. OpenInv' /\ TableInv' /\ PairInv'
    BY <1>1, <2>1 DEF OpenInv, TableInv, PairInv, ResetTable, ResetSession
  <2>4. InjectInv' /\ PayloadInv'
    BY <1>1, <2>1, <2>2 DEF InjectInv, PayloadInv, ResetInjection, ResetPayload
  <2>5. ChildInv'
    BY <2>1 DEF ChildInv, ResetProfile
  <2> QED BY <1>1, <2>1, <2>3, <2>4, <2>5 DEF SessionInv
<1> QED BY <1>2, <1>3

(* A clock without a change keeps the session invariant.                   *)
LEMMA SessionRests ==
  ASSUME SessionInv, UNCHANGED <<coreVars, wrapperVars>> PROVE SessionInv'
<1>1. /\ UNCHANGED <<session_state, table, session, frame_counts, payload, fifo, injection>>
      /\ UNCHANGED <<state, profile, batch, coefficient_index, eval_input, bv_input>>
  BY DEF coreVars, protocolVars, wrapperVars
<1>2. /\ Consumed' = Consumed /\ PayloadWords(batch)' = PayloadWords(batch)
      /\ PayloadWords(frame_counts)' = PayloadWords(frame_counts)
  BY <1>1 DEF Consumed, CoefficientPosition
<1> QED BY <1>1, <1>2 DEF SessionInv, OpenInv, TableInv, PairInv, InjectInv, PayloadInv,
    ChildInv

(* Wrapper and core stay where they expect each other, whatever the host   *)
(* sends, cuts short, overruns or sends out of turn.                       *)
THEOREM SessionInvariant ==
  ASSUME SourceSized PROVE Spec => [](CoreInv /\ FlowInv /\ SessionInv /\ HostInv)
<1> DEFINE Inv == CoreInv /\ FlowInv /\ SessionInv /\ HostInv
<1>1. Init => Inv
  <2> SUFFICES ASSUME Init PROVE Inv
    OBVIOUS
  <2>1. CoreInv /\ FlowInv /\ SessionInv
    BY CoreStarts, FlowStarts, SessionStarts DEF Init, SessionInit
  <2>2. HostInv
    <3>1. jobs = <<>> /\ frame.kind = "none"
      BY DEF Init, NoFrame
    <3> QED BY <3>1 DEF HostInv
  <2> QED BY <2>1, <2>2
<1>2. Inv /\ [Next]_vars => Inv'
  <2> SUFFICES ASSUME Inv, [Next]_vars PROVE Inv'
    OBVIOUS
  <2>1. ASSUME NEW word \in Offered, NEW ready, Tick(word, ready) PROVE Inv'
    <3>1. FlowInv' /\ SessionInv'
      BY <2>1, OfferedShaped, SessionStep DEF Tick
    <3>2. CoreInv'
      BY <2>1, CoreStep DEF Tick, SessionClock
    <3>3. HostInv'
      BY <2>1 DEF Tick, Send, NoFrame, HostInv
    <3> QED BY <3>1, <3>2, <3>3
  <2>2. ASSUME UNCHANGED <<coreVars, wrapperVars>>, HostInv' PROVE Inv'
    BY <2>2, CoreStep, FlowRests, SessionRests
  <2>3. CASE StartTable
    <3>1. HostInv'
      <4>1. frame'.kind = "table" /\ jobs' = <<>>
        BY <2>3 DEF StartTable, Begin
      <4> QED BY <4>1 DEF HostInv
    <3> QED BY <2>2, <2>3, <3>1 DEF StartTable, Begin
  <2>4. CASE StartSession
    <3>1. HostInv'
      <4>1. PICK counts \in Counts :
              frame'.value = counts /\ frame'.kind = "pair" /\ jobs' = <<Job(0, counts)>>
        BY <2>4 DEF StartSession, Begin
      <4>2. jobs' \in Seq({Job(0, counts)}) /\ jobs'[1] = Job(0, counts)
        BY <4>1
      <4>3. jobs'[1].counts = counts
        BY <4>2 DEF Job
      <4> QED BY <4>1, <4>2, <4>3 DEF HostInv
    <3> QED BY <2>2, <2>4, <3>1 DEF StartSession, Begin
  <2>5. CASE StartPair
    <3>1. HostInv'
      <4> DEFINE job == Job(Len(jobs), jobs[1].counts)
      <4>1. /\ frame'.value = jobs[1].counts /\ frame'.kind = "pair" /\ jobs # <<>>
            /\ jobs' = Append(jobs, job)
        BY <2>5 DEF StartPair, Begin
      <4>2. PICK S : jobs \in Seq(S)
        BY DEF HostInv
      <4> HIDE DEF job
      <4>3. jobs \in Seq(S \union {job}) /\ Len(jobs) \in Nat \ {0}
        BY <4>1, <4>2
      <4>4. jobs' \in Seq(S \union {job}) /\ jobs'[1] = jobs[1]
        BY <4>1, <4>3
      <4> QED BY <4>1, <4>4 DEF HostInv
    <3> QED BY <2>2, <2>5, <3>1 DEF StartPair, Begin
  <2>6. CASE Reset
    <3>1. CoreInv' /\ FlowInv' /\ SessionInv'
      BY <2>6, CoreStarts, FlowStarts, SessionStarts DEF Reset, SessionReset
    <3>2. jobs' = <<>> /\ frame'.kind = "none"
      BY <2>6 DEF Reset, NoFrame
    <3>3. HostInv'
      BY <3>2 DEF HostInv
    <3> QED BY <3>1, <3>3
  <2>7. CASE UNCHANGED vars
    BY <2>2, <2>7 DEF vars, hostVars, HostInv
  <2> QED BY <2>1, <2>3, <2>4, <2>5, <2>6, <2>7 DEF Next
<1> QED BY <1>1, <1>2, PTL DEF Spec

(* No frame the host can send, however broken, makes the core inside the   *)
(* wrapper refuse anything.                                                *)
THEOREM ChildIsNeverWrong == ASSUME SourceSized PROVE Spec => []ChildNeverErrs
<1> DEFINE Inv == CoreInv /\ FlowInv /\ SessionInv /\ HostInv
<1>1. Init => ChildNeverErrs
  BY DEF Init, SessionInit, CoreInit, ChildNeverErrs
<1>2. Inv /\ ChildNeverErrs /\ [Next]_vars => ChildNeverErrs'
  <2> SUFFICES ASSUME Inv, ~protocol_error, [Next]_vars PROVE ~protocol_error'
    BY DEF ChildNeverErrs
  <2>1. ASSUME NEW word \in Offered, NEW ready, Tick(word, ready) PROVE ~protocol_error'
    BY <2>1, OfferedShaped, SessionStep DEF Tick
  <2>2. CASE Reset
    BY <2>2 DEF Reset, SessionReset, CoreReset
  <2>3. CASE UNCHANGED coreVars
    BY <2>3 DEF coreVars, protocolVars
  <2> QED BY <2>1, <2>2, <2>3 DEF Next, StartTable, StartSession, StartPair, Begin, vars
<1> QED BY <1>1, <1>2, SessionInvariant, PTL DEF Spec

(* The wrapper's count, its FIFO and the core's counters always tell the   *)
(* same place in a pair, at every gap, backpressure and misplaced TLAST.   *)
THEOREM WordsCounted == ASSUME SourceSized PROVE Spec => []WordCountsAgree
<1>1. SessionInv => WordCountsAgree
  BY DEF SessionInv, ChildInv, WordCountsAgree, ChildConsumed, Consumed, CoefficientPosition
<1> QED BY <1>1, SessionInvariant, PTL

(* The last word of a pair comes out only when the wrapper waits for it.   *)
THEOREM LastWordSeen == ASSUME SourceSized PROVE Spec => []PairOutputSeen
<1>1. CoreInv /\ FlowInv /\ SessionInv => PairOutputSeen
  <2> SUFFICES ASSUME CoreInv, FlowInv, SessionInv, output.active, m_axis_tlast
               PROVE  session.active /\ session_state = "WAIT_PAIR_OUTPUT"
    BY DEF PairOutputSeen
  <2>1. state \in Running /\ InputInv /\ DrainInv /\ BankInv
    BY DEF FlowInv, RestInv, CoreInv
  <2>2. output.coefficient_index = N - 1 /\ coefficient_index \in 0..(N - 1)
    BY <2>1 DEF m_axis_tlast, LastCoefficient, InputInv
  <2>3. output.coefficient_index = coefficient_index /\ output.bank = compute_bank
    BY <2>1, <2>2, CoreAssumption DEF DrainInv, InputInv
  <2>4. state \in InputDone
    BY <2>1, <2>3 DEF BankInv, DrainInv
  <2>5. state = "WAIT_BATCH_OUTPUT"
    BY <2>1, <2>2, <2>3, <2>4 DEF InputInv, InputDone, LastCoefficient
  <2> QED BY <2>5 DEF SessionInv, ChildInv, PairInv, CoreIdle, Injecting, Moving
<1> QED BY <1>1, SessionInvariant, PTL

(* Nothing is left in the core when its profile is about to change or a    *)
(* frame has been given up: moduli never change under a product.           *)
THEOREM RestsBetweenPairs == ASSUME SourceSized PROVE Spec => []ChildRests
<1>1. CoreInv /\ FlowInv /\ SessionInv => ChildRests
  <2> SUFFICES ASSUME CoreInv, FlowInv, SessionInv, session_state \notin Moving
               PROVE  /\ eval_meta = <<>> /\ bv_meta = <<>>
                      /\ ~bv_accum.valid /\ ~output.active
                      /\ \A stage \in 1..Latency :
                           ~eval_pipe[stage].valid /\ ~bv_pipe[stage].valid
                      /\ \A bank \in Banks : ~bank_occupied[bank] /\ ~bank_ready[bank]
    BY DEF ChildRests, Moving
  <2>1. state \notin Running
    BY DEF SessionInv, ChildInv, CoreIdle, Injecting, Moving, Running, Keying, InputDone
  <2>2. RestInv
    BY <2>1 DEF FlowInv
  <2>3. Cardinality(InFlight(eval_pipe)) = 0 /\ Cardinality(InFlight(bv_pipe)) = 0
    BY <2>2 DEF RestInv, CoreInv, MetadataInv, MetadataInStep
  <2>4. InFlight(eval_pipe) = {} /\ InFlight(bv_pipe) = {}
    BY <2>3, StagesFinite, FS_EmptySet
  <2> QED BY <2>2, <2>4 DEF RestInv, InFlight
<1> QED BY <1>1, SessionInvariant, PTL

-----------------------------------------------------------------------------
(* Wrapper, core and a host that follows the session protocol: which frame *)
(* of the host is where, and what the registers hold of it.                *)
PairWords == OutputWords(jobs[1].counts)
Owed      == jobs[session.expected + 1]

(* The wrapper is inside a pair frame of the host.                         *)
InPair ==
  \/ session_state \in Opening \union Injecting
  \/ session_state = "FORWARD_PAIR_DATA" /\ ~payload.complete

(* The pairs whose frames have been read to their end.                     *)
Behind ==
  IF session_state \in Moving /\ ~InPair THEN session.expected + 1 ELSE session.expected

JobsInv ==
  /\ host_table \in Seq(Profiles) /\ Len(host_table) <= MaxPairCount
  /\ jobs \in Seq([frame : Nat, counts : FitCounts, profile : Profiles])
  /\ frames \in Nat /\ Len(jobs) <= Len(host_table)
  /\ \A i \in 1..Len(jobs) :
       jobs[i].counts = jobs[1].counts /\ jobs[i].profile = host_table[i]

FrameInv ==
  /\ frame.kind \in {"none", "table", "pair"} /\ frame.fault = "none"
  /\ sent \in Nat
  /\ frame.kind = "none" => sent = 0
  /\ frame.kind = "table" => frame.value = host_table /\ host_table # <<>> /\ jobs = <<>>
  /\ frame.kind = "pair" =>
       /\ frame.pair + 1 = Len(jobs) /\ frame.pair \in Nat
       /\ frame.id = jobs[Len(jobs)].frame /\ frame.value = jobs[1].counts

(* Host and wrapper are in the same frame, or both between two.            *)
TurnInv ==
  /\ session_state # "DISCARD"
  /\ session_state \in Loading <=> frame.kind = "table" /\ sent > 0
  /\ InPair <=> frame.kind = "pair" /\ sent > 0
  /\ session_state = "PAIR_COUNTS" => sent = 1
  /\ session_state = "PAIR_INDEX" => sent = 2
  /\ session_state \in Injecting => sent = 3
  /\ session_state = "FORWARD_PAIR_DATA" /\ ~payload.complete =>
       sent + payload.remaining = 3 + PayloadWords(frame_counts)
  /\ session.active => jobs # <<>>
  /\ frame.kind = "pair" => frame.pair = Behind
  /\ frame.kind = "none" => IF session.active THEN Len(jobs) = Behind ELSE Between
  /\ frame.kind = "table" => ~session.active

(* The registers of the table agree with the host's.                       *)
Entry(pair) ==
  table.modulus[pair] = host_table[pair + 1] /\ table.mu[pair] = host_table[pair + 1]
TableSame ==
  /\ session_state = "PROFILE_COUNT" => sent = 1
  /\ session_state = "PROFILE_Q" => sent = 2 + 2 * table.write_index
  /\ session_state = "PROFILE_MU" =>
       /\ sent = 3 + 2 * table.write_index
       /\ table.modulus[table.write_index] = host_table[table.write_index + 1]
  /\ session_state \in {"PROFILE_Q", "PROFILE_MU"} =>
       /\ table.loading = Len(host_table)
       /\ \A pair \in 0..(table.write_index - 1) : Entry(pair)
  /\ frame.kind # "table" /\ host_table # <<>> =>
       /\ table.ready /\ table.loaded = Len(host_table)
       /\ \A pair \in 0..(Len(host_table) - 1) : Entry(pair)

(* Counts and profile in the core are those of the pair being worked on.   *)
CountsSame ==
  /\ session.active => session.counts = jobs[1].counts
  /\ session_state \in {"PAIR_INDEX"} \union Injecting \union {"FORWARD_PAIR_DATA"} =>
       frame_counts = jobs[1].counts
  /\ session_state \in Moving => batch = jobs[1].counts
ProfileSame ==
  /\ session_state = "INJECT_PROFILE_Q" => injection.word.value = Owed.profile
  /\ session_state = "INJECT_PROFILE_MU" =>
       injection.word.value = Owed.profile /\ profile.q = Owed.profile
  /\ session_state \in {"INJECT_BATCH_COMMAND", "INJECT_BATCH_COUNT"} \union Moving =>
       profile.q = Owed.profile /\ profile.mu = Owed.profile

(* What waits in the FIFO is the payload from where the core is.           *)
PayloadSame ==
  session_state = "FORWARD_PAIR_DATA" =>
    \A i \in 1..Len(fifo) : fifo[i].value = Payload(Owed.frame, Consumed + i - 1)

PairDataInv ==
  /\ MemoryShape /\ GapInv
  /\ ~output.active => output.component = 0
  /\ session_state \in Moving => \A id : id = Owed.frame => DataInv(id)

(* Words delivered: all of the pairs done and what the core has shipped.   *)
DeliveredInv ==
  session.active \/ frame.kind = "pair" =>
    delivered = session.expected * PairWords
                  + (IF session_state \in Moving THEN Shipped ELSE 0)

(* A host that follows the session protocol, with tables that fit and      *)
(* counts within the limits of the core.                                   *)
WellBehaved ==
  /\ Faults = {} /\ Counts \subseteq FitCounts
  /\ \A t \in Tables : t \in Seq(Profiles) /\ Len(t) \in 1..MaxPairCount

HostTurn == JobsInv /\ FrameInv /\ TurnInv /\ TableSame /\ CountsSame

(* A host without faults offers the next word of its frame, or none.       *)
LEMMA OfferedIsNext ==
  ASSUME WellBehaved, FrameInv, NEW word \in Offered, Received(word)
  PROVE  frame.kind \in {"table", "pair"} /\ word = FrameWord(frame, sent)
<1>1. word.is # "nothing" /\ word # NoWord
  BY DEF Received, NoWord
<1>2. FaultyWords(frame, sent) = {}
  BY DEF FaultyWords, FrameInv
<1>3. frame.kind # "none"
  BY <1>1 DEF Offered
<1>4. word = FrameWord(frame, sent)
  BY <1>1, <1>2, <1>3 DEF Offered, FrameInv
<1> QED BY <1>3, <1>4 DEF FrameInv

(* The jobs of a session, one after the other.                             *)
LEMMA JobsFit ==
  ASSUME JobsInv
  PROVE  /\ Len(jobs) \in Nat /\ Len(host_table) \in Nat
         /\ jobs # <<>> <=> Len(jobs) > 0
         /\ \A i \in 1..Len(jobs) :
              /\ jobs[i] \in [frame : Nat, counts : FitCounts, profile : Profiles]
              /\ jobs[i].counts \in FitCounts /\ jobs[i].profile \in Profiles
              /\ jobs[i].counts = jobs[1].counts /\ jobs[i].profile = host_table[i]
         /\ jobs # <<>> =>
              /\ jobs[1].counts \in FitCounts /\ host_table # <<>>
              /\ PayloadWords(jobs[1].counts) \in Nat \ {0}
<1>1. /\ Len(jobs) \in Nat /\ Len(host_table) \in Nat
      /\ jobs # <<>> <=> Len(jobs) > 0
  BY DEF JobsInv
<1>2. \A i \in 1..Len(jobs) :
        /\ jobs[i] \in [frame : Nat, counts : FitCounts, profile : Profiles]
        /\ jobs[i].counts \in FitCounts /\ jobs[i].profile \in Profiles
        /\ jobs[i].counts = jobs[1].counts /\ jobs[i].profile = host_table[i]
  <2> SUFFICES ASSUME NEW i \in 1..Len(jobs)
               PROVE  /\ jobs[i] \in [frame : Nat, counts : FitCounts, profile : Profiles]
                      /\ jobs[i].counts \in FitCounts /\ jobs[i].profile \in Profiles
                      /\ jobs[i].counts = jobs[1].counts
                      /\ jobs[i].profile = host_table[i]
    OBVIOUS
  <2>1. jobs[i] \in [frame : Nat, counts : FitCounts, profile : Profiles]
    <3>1. PICK S : S = [frame : Nat, counts : FitCounts, profile : Profiles]
      OBVIOUS
    <3>2. jobs \in Seq(S)
      BY <3>1 DEF JobsInv
    <3>3. jobs[i] \in S
      BY <3>2
    <3> QED BY <3>1, <3>3
  <2>2. jobs[i].counts = jobs[1].counts /\ jobs[i].profile = host_table[i]
    BY DEF JobsInv
  <2> QED BY <2>1, <2>2
<1>3. ASSUME jobs # <<>>
      PROVE  /\ jobs[1].counts \in FitCounts /\ host_table # <<>>
             /\ PayloadWords(jobs[1].counts) \in Nat \ {0}
  <2>1. 1 \in 1..Len(jobs)
    BY <1>1, <1>3
  <2>2. jobs[1].counts \in FitCounts
    BY <1>2, <2>1
  <2>3. PICK counts \in FitCounts : counts = jobs[1].counts
    BY <2>2
  <2>4. PayloadWords(counts) \in Nat \ {0}
    BY PayloadNonempty DEF FitCounts
  <2>5. host_table # <<>>
    BY <1>1, <1>3 DEF JobsInv
  <2> QED BY <2>2, <2>3, <2>4, <2>5
<1> QED BY <1>1, <1>2, <1>3

(* The words of a table frame, by their places.                            *)
LEMMA TableWords ==
  ASSUME NEW f, f.kind = "table", NEW n \in Nat \ {0}, Len(f.value) = n
  PROVE  /\ FrameWord(f, 0).is = "RLPT" /\ ~FrameWord(f, 0).last
         /\ FrameWord(f, 1).is = "pairs" /\ ~FrameWord(f, 1).last
         /\ FrameWord(f, 1).value.pairs = n
         /\ \A p \in 0..(n - 1) :
              LET moduli == FrameWord(f, 2 + 2 * p)
                  reciprocals == FrameWord(f, 3 + 2 * p)
              IN /\ moduli.is = "moduli" /\ ~moduli.last
                 /\ reciprocals.is = "reciprocals" /\ (reciprocals.last <=> p + 1 = n)
                 /\ moduli.value = f.value[p + 1] /\ reciprocals.value = f.value[p + 1]
<1>1. Length(f) = 2 + 2 * n
  BY DEF Length
<1>2. \A i : /\ FrameWord(f, i).is = TableWord(f, i).is
             /\ FrameWord(f, i).value = TableWord(f, i).value
             /\ FrameWord(f, i).last <=> i = Length(f) - 1
  BY DEF FrameWord
<1>3. /\ TableWord(f, 0).is = "RLPT"
      /\ TableWord(f, 1).is = "pairs" /\ TableWord(f, 1).value.pairs = n
  BY DEF TableWord
<1>4. 0 # Length(f) - 1 /\ 1 # Length(f) - 1
  BY <1>1
<1>5. ASSUME NEW p \in 0..(n - 1)
      PROVE  /\ FrameWord(f, 2 + 2 * p).is = "moduli" /\ ~FrameWord(f, 2 + 2 * p).last
             /\ FrameWord(f, 2 + 2 * p).value = f.value[p + 1]
             /\ FrameWord(f, 3 + 2 * p).is = "reciprocals"
             /\ FrameWord(f, 3 + 2 * p).last <=> p + 1 = n
             /\ FrameWord(f, 3 + 2 * p).value = f.value[p + 1]
  <2>1. /\ (2 + 2 * p) % 2 = 0 /\ (2 + 2 * p) \div 2 = p + 1
        /\ (3 + 2 * p) % 2 = 1 /\ (3 + 2 * p) \div 2 = p + 1
        /\ 2 + 2 * p \notin 0..1 /\ 3 + 2 * p \notin 0..1
    OBVIOUS
  <2>2. TableWord(f, 2 + 2 * p).is = "moduli" /\ TableWord(f, 2 + 2 * p).value = f.value[p + 1]
    BY <2>1 DEF TableWord
  <2>3. /\ TableWord(f, 3 + 2 * p).is = "reciprocals"
        /\ TableWord(f, 3 + 2 * p).value = f.value[p + 1]
    BY <2>1 DEF TableWord
  <2>4. 2 + 2 * p # Length(f) - 1 /\ (3 + 2 * p = Length(f) - 1 <=> p + 1 = n)
    BY <1>1
  <2> QED BY <1>2, <2>2, <2>3, <2>4
<1> QED BY <1>2, <1>3, <1>4, <1>5

(* The words of a pair frame: its header, then its payload.               *)
LEMMA PairFrameWords ==
  ASSUME NEW f, f.kind = "pair", NEW m \in Nat \ {0}, PayloadWords(f.value) = m
  PROVE  /\ FrameWord(f, 0).is = "RLMP" /\ ~FrameWord(f, 0).last
         /\ FrameWord(f, 1).is = "counts" /\ ~FrameWord(f, 1).last
         /\ FrameWord(f, 1).value = f.value
         /\ FrameWord(f, 2).is = "index" /\ ~FrameWord(f, 2).last
         /\ FrameWord(f, 2).value.pairs = Len(host_table)
         /\ FrameWord(f, 2).value.pair = f.pair
         /\ \A i \in Nat : /\ FrameWord(f, 3 + i).is = "payload"
                           /\ FrameWord(f, 3 + i).value = Payload(f.id, i)
                           /\ FrameWord(f, 3 + i).last <=> i + 1 = m
<1>1. Length(f) = 3 + m
  BY DEF Length
<1>2. \A i : /\ FrameWord(f, i).is = PairWord(f, i).is
             /\ FrameWord(f, i).value = PairWord(f, i).value
             /\ FrameWord(f, i).last <=> i = Length(f) - 1
  BY DEF FrameWord
<1>3. /\ PairWord(f, 0).is = "RLMP"
      /\ PairWord(f, 1).is = "counts" /\ PairWord(f, 1).value = f.value
      /\ PairWord(f, 2).is = "index"
      /\ PairWord(f, 2).value.pairs = Len(host_table) /\ PairWord(f, 2).value.pair = f.pair
  BY DEF PairWord
<1>4. 0 # Length(f) - 1 /\ 1 # Length(f) - 1 /\ 2 # Length(f) - 1
  BY <1>1
<1>5. ASSUME NEW i \in Nat
      PROVE  /\ FrameWord(f, 3 + i).is = "payload"
             /\ FrameWord(f, 3 + i).value = Payload(f.id, i)
             /\ FrameWord(f, 3 + i).last <=> i + 1 = m
  <2>1. 3 + i \notin 0..2 /\ (3 + i) - 3 = i /\ (3 + i = Length(f) - 1 <=> i + 1 = m)
    BY <1>1
  <2>2. PairWord(f, 3 + i).is = "payload" /\ PairWord(f, 3 + i).value = Payload(f.id, i)
    BY <2>1 DEF PairWord
  <2> QED BY <1>2, <2>1, <2>2
<1> QED BY <1>2, <1>3, <1>4, <1>5

(* Each state of the wrapper meets the word of the host's frame it is for. *)
LEMMA NextWord ==
  ASSUME WellBehaved, FlowInv, SessionInv, HostTurn, NEW word \in Offered, Received(word)
  PROVE  /\ session_state = "IDLE" =>
              /\ ~word.last /\ sent = 0 /\ frame.kind \in {"table", "pair"}
              /\ word.is = IF frame.kind = "table" THEN "RLPT" ELSE "RLMP"
         /\ session_state = "PROFILE_COUNT" =>
              ~word.last /\ word.is = "pairs" /\ word.value.pairs = Len(host_table)
         /\ session_state = "PROFILE_Q" =>
              /\ ~word.last /\ word.is = "moduli"
              /\ word.value = host_table[table.write_index + 1]
         /\ session_state = "PROFILE_MU" =>
              /\ word.last <=> final_profile_word
              /\ word.is = "reciprocals" /\ word.value = host_table[table.write_index + 1]
         /\ session_state = "PAIR_COUNTS" =>
              ~word.last /\ word.is = "counts" /\ word.value = jobs[1].counts
         /\ session_state = "PAIR_INDEX" =>
              /\ ~word.last /\ word.is = "index" /\ word.value.pairs = Len(host_table)
              /\ word.value.pair = session.expected
         /\ session_state = "FORWARD_PAIR_DATA" =>
              /\ payload.remaining <= PayloadWords(frame_counts)
              /\ word.value =
                   Payload(frame.id, PayloadWords(frame_counts) - payload.remaining)
              /\ word.last <=> payload_final_word
<1>1. frame.kind \in {"table", "pair"} /\ word = FrameWord(frame, sent)
  BY OfferedIsNext DEF HostTurn
<1>2. /\ JobsInv /\ FrameInv /\ TurnInv /\ TableSame /\ CountsSame
      /\ TableInv /\ PairInv /\ PayloadInv /\ ChildInv
  BY DEF HostTurn, SessionInv
<1>3. ASSUME frame.kind = "table"
      PROVE  /\ FrameWord(frame, 0).is = "RLPT" /\ ~FrameWord(frame, 0).last
             /\ FrameWord(frame, 1).is = "pairs" /\ ~FrameWord(frame, 1).last
             /\ FrameWord(frame, 1).value.pairs = Len(host_table)
             /\ \A p \in 0..(Len(host_table) - 1) :
                  /\ FrameWord(frame, 2 + 2 * p).is = "moduli"
                  /\ ~FrameWord(frame, 2 + 2 * p).last
                  /\ FrameWord(frame, 3 + 2 * p).is = "reciprocals"
                  /\ FrameWord(frame, 3 + 2 * p).last <=> p + 1 = Len(host_table)
                  /\ FrameWord(frame, 2 + 2 * p).value = host_table[p + 1]
                  /\ FrameWord(frame, 3 + 2 * p).value = host_table[p + 1]
  <2>1. frame.value = host_table /\ Len(host_table) \in Nat \ {0}
    BY <1>2, <1>3 DEF FrameInv, JobsInv
  <2>2. PICK f : f = frame
    OBVIOUS
  <2>3. PICK n \in Nat \ {0} : n = Len(host_table)
    BY <2>1
  <2>4. f.kind = "table" /\ Len(f.value) = n
    BY <1>3, <2>1, <2>2, <2>3
  <2> QED BY <2>1, <2>2, <2>3, <2>4, TableWords
<1>4. ASSUME frame.kind = "pair"
      PROVE  /\ frame.value = jobs[1].counts /\ PayloadWords(frame.value) \in Nat \ {0}
             /\ FrameWord(frame, 0).is = "RLMP" /\ ~FrameWord(frame, 0).last
             /\ FrameWord(frame, 1).is = "counts" /\ ~FrameWord(frame, 1).last
             /\ FrameWord(frame, 1).value = frame.value
             /\ FrameWord(frame, 2).is = "index" /\ ~FrameWord(frame, 2).last
             /\ FrameWord(frame, 2).value.pairs = Len(host_table)
             /\ FrameWord(frame, 2).value.pair = frame.pair
             /\ \A i \in Nat :
                  /\ FrameWord(frame, 3 + i).is = "payload"
                  /\ FrameWord(frame, 3 + i).value = Payload(frame.id, i)
                  /\ FrameWord(frame, 3 + i).last <=> i + 1 = PayloadWords(frame.value)
  <2>1. frame.value = jobs[1].counts /\ jobs # <<>>
    BY <1>2, <1>4, JobsFit DEF FrameInv
  <2>2. PayloadWords(jobs[1].counts) \in Nat \ {0}
    BY <1>2, <2>1, JobsFit
  <2>3. PICK f : f = frame
    OBVIOUS
  <2>4. PICK m \in Nat \ {0} : m = PayloadWords(frame.value)
    BY <2>1, <2>2
  <2>5. f.kind = "pair" /\ PayloadWords(f.value) = m
    BY <1>4, <2>3, <2>4
  <2>6. /\ FrameWord(f, 0).is = "RLMP" /\ ~FrameWord(f, 0).last
        /\ FrameWord(f, 1).is = "counts" /\ ~FrameWord(f, 1).last
        /\ FrameWord(f, 1).value = f.value
        /\ FrameWord(f, 2).is = "index" /\ ~FrameWord(f, 2).last
        /\ FrameWord(f, 2).value.pairs = Len(host_table)
        /\ FrameWord(f, 2).value.pair = f.pair
    BY <2>5, PairFrameWords
  <2>7. \A i \in Nat : /\ FrameWord(f, 3 + i).is = "payload"
                       /\ FrameWord(f, 3 + i).value = Payload(f.id, i)
                       /\ FrameWord(f, 3 + i).last <=> i + 1 = m
    BY <2>5, PairFrameWords
  <2> QED BY <2>1, <2>2, <2>3, <2>4, <2>6, <2>7
<1>5. ASSUME session_state = "IDLE"
      PROVE  /\ ~word.last /\ sent = 0 /\ frame.kind \in {"table", "pair"}
             /\ word.is = IF frame.kind = "table" THEN "RLPT" ELSE "RLMP"
  <2>1. session_state \notin Loading /\ ~InPair
    BY <1>5 DEF Loading, InPair, Opening, Injecting
  <2>2. sent = 0
    BY <1>1, <1>2, <2>1 DEF TurnInv, FrameInv
  <2> QED BY <1>1, <1>3, <1>4, <2>2
<1>6. ASSUME session_state \in Loading
      PROVE  frame.kind = "table"
  BY <1>2, <1>6 DEF TurnInv
<1>7. ASSUME InPair
      PROVE  frame.kind = "pair"
  BY <1>2, <1>7 DEF TurnInv
<1>8. session_state = "PROFILE_COUNT" =>
        ~word.last /\ word.is = "pairs" /\ word.value.pairs = Len(host_table)
  BY <1>1, <1>2, <1>3, <1>6 DEF TableSame, Loading
<1>9. ASSUME session_state \in {"PROFILE_Q", "PROFILE_MU"}
      PROVE  /\ frame.kind = "table" /\ table.write_index \in 0..(Len(host_table) - 1)
             /\ table.loading = Len(host_table)
  BY <1>2, <1>6, <1>9 DEF TableSame, TableInv, Loading
<1>10. session_state = "PROFILE_Q" =>
         /\ ~word.last /\ word.is = "moduli"
         /\ word.value = host_table[table.write_index + 1]
  BY <1>1, <1>2, <1>3, <1>9 DEF TableSame
<1>11. session_state = "PROFILE_MU" =>
         /\ word.last <=> final_profile_word
         /\ word.is = "reciprocals" /\ word.value = host_table[table.write_index + 1]
  BY <1>1, <1>2, <1>3, <1>9 DEF TableSame, final_profile_word
<1>12. session_state = "PAIR_COUNTS" =>
         ~word.last /\ word.is = "counts" /\ word.value = jobs[1].counts
  BY <1>1, <1>2, <1>4, <1>7 DEF TurnInv, InPair, Opening
<1>13. session_state = "PAIR_INDEX" =>
         /\ ~word.last /\ word.is = "index" /\ word.value.pairs = Len(host_table)
         /\ word.value.pair = session.expected
  <2> SUFFICES ASSUME session_state = "PAIR_INDEX"
               PROVE  /\ ~word.last /\ word.is = "index"
                      /\ word.value.pairs = Len(host_table)
                      /\ word.value.pair = session.expected
    OBVIOUS
  <2>1. InPair /\ Behind = session.expected
    BY DEF InPair, Opening, Behind
  <2> QED BY <1>1, <1>2, <1>4, <1>7, <2>1 DEF TurnInv
<1>14. session_state = "FORWARD_PAIR_DATA" =>
         /\ payload.remaining <= PayloadWords(frame_counts)
         /\ word.value = Payload(frame.id, PayloadWords(frame_counts) - payload.remaining)
         /\ word.last <=> payload_final_word
  <2> SUFFICES ASSUME session_state = "FORWARD_PAIR_DATA"
               PROVE  /\ payload.remaining <= PayloadWords(frame_counts)
                      /\ word.value =
                           Payload(frame.id, PayloadWords(frame_counts) - payload.remaining)
                      /\ word.last <=> payload_final_word
    OBVIOUS
  <2>1. ~payload.complete /\ InPair
    BY DEF Received, session_tready, InPair
  <2>2. frame.kind = "pair" /\ frame_counts = frame.value
    BY <1>2, <1>4, <1>7, <2>1 DEF CountsSame
  <2>3. PICK m \in Nat \ {0} : m = PayloadWords(frame_counts)
    BY <1>4, <2>2
  <2>4. PICK r \in Nat \ {0} : r = payload.remaining
    BY <1>2 DEF PayloadInv
  <2>5. Consumed + Len(fifo) + r = m
    BY <1>2, <2>1, <2>3, <2>4 DEF ChildInv
  <2>6. sent + r = 3 + m /\ sent \in Nat
    BY <1>2, <2>1, <2>3, <2>4 DEF TurnInv, FrameInv
  <2>7. r <= m
    <3>1. Consumed \in Nat
      <4>1. InputInv /\ state \in Running /\ state # "WAIT_BATCH_OUTPUT"
        BY <1>2 DEF ChildInv, FlowInv
      <4> QED BY <4>1, LastPositionHolds
    <3>2. Len(fifo) \in Nat
      BY <1>2 DEF PayloadInv
    <3> QED BY <2>5, <3>1, <3>2
  <2>8. PICK i \in Nat : i = m - r
    BY <2>7
  <2>9. sent = 3 + i /\ (i + 1 = m <=> r = 1)
    BY <2>6, <2>8
  <2> QED BY <1>1, <1>4, <2>2, <2>3, <2>4, <2>7, <2>8, <2>9 DEF payload_final_word
<1> QED BY <1>5, <1>8, <1>10, <1>11, <1>12, <1>13, <1>14

(* The core rests while no payload moves.                                  *)
LEMMA Quiet ==
  ASSUME FlowInv, SessionInv, session_state \notin Moving
  PROVE  state \notin Running /\ RestInv /\ ~output.active
<1>1. state \notin Running
  BY DEF SessionInv, ChildInv, CoreIdle, Injecting, Moving, Running, Keying, InputDone
<1>2. RestInv
  BY <1>1 DEF FlowInv
<1> QED BY <1>1, <1>2 DEF RestInv

(* The counts of a pair of jobs make no payload the wrapper refuses.       *)
LEMMA CountsTaken ==
  ASSUME SourceSized, NEW counts \in FitCounts
  PROVE  pair_payload_words(counts) = PayloadWords(counts) /\ PayloadWords(counts) \in Nat \ {0}
<1>1. /\ counts.count \in 1..64 /\ counts.digits \in 1..16
      /\ counts.count \in MinBatch..MaxBatch /\ counts.digits \in 1..MaxDigits
  BY CoreAssumption DEF FitCounts, SourceSized
<1>2. words_per_coefficient(counts) = CoefficientWords(counts)
  BY <1>1, SourceLimitsFit
<1>3. CoefficientWords(counts) \in Nat
  <2>1. \A x, y \in Nat : 4 * x + y * (x + 2) \in Nat
    OBVIOUS
  <2>2. counts.count \in Nat /\ counts.digits \in Nat
    BY <1>1
  <2> QED BY <2>1, <2>2 DEF CoefficientWords
<1>4. pair_payload_words(counts) = PayloadWords(counts)
  BY <1>2, <1>3, CoreAssumption DEF pair_payload_words, PayloadWords
<1> QED BY <1>1, <1>4, PayloadNonempty

(* The states that read the host's words, and what each does with its own. *)
Reading == {"IDLE"} \union Loading \union Opening

WrapperReads(word) ==
  /\ session_state = "IDLE" =>
       /\ session_state' = (IF frame.kind = "table" THEN "PROFILE_COUNT" ELSE "PAIR_COUNTS")
       /\ UNCHANGED <<table, session, frame_counts, payload>>
  /\ session_state = "PROFILE_COUNT" =>
       /\ session_state' = "PROFILE_Q"
       /\ table' = [table EXCEPT !.loading = Len(host_table), !.write_index = 0,
                                 !.ready = FALSE]
       /\ UNCHANGED <<session, frame_counts, payload>>
  /\ session_state = "PROFILE_Q" =>
       /\ session_state' = "PROFILE_MU"
       /\ table' = [table EXCEPT !.modulus[table.write_index] =
                                   host_table[table.write_index + 1]]
       /\ UNCHANGED <<session, frame_counts, payload>>
  /\ session_state = "PROFILE_MU" /\ final_profile_word =>
       /\ session_state' = "IDLE"
       /\ table' = [table EXCEPT !.mu[table.write_index] = host_table[table.write_index + 1],
                                 !.loaded = table.loading, !.ready = TRUE]
       /\ session' = [session EXCEPT !.expected = 0]
       /\ UNCHANGED <<frame_counts, payload>>
  /\ session_state = "PROFILE_MU" /\ ~final_profile_word =>
       /\ session_state' = "PROFILE_Q"
       /\ table' = [table EXCEPT !.mu[table.write_index] = host_table[table.write_index + 1],
                                 !.write_index = @ + 1]
       /\ UNCHANGED <<session, frame_counts, payload>>
  /\ session_state = "PAIR_COUNTS" =>
       /\ session_state' = "PAIR_INDEX" /\ frame_counts' = jobs[1].counts
       /\ UNCHANGED <<table, session, payload>>
  /\ session_state = "PAIR_INDEX" =>
       /\ session_state' = "INJECT_PROFILE_COMMAND"
       /\ session' = [session EXCEPT
                        !.current = session.expected, !.active = TRUE,
                        !.counts = IF session.active THEN @ ELSE frame_counts]
       /\ payload' = [remaining |-> PayloadWords(frame_counts), complete |-> FALSE]
       /\ UNCHANGED <<table, frame_counts>>

(* A well behaved host is refused nothing.                                 *)
LEMMA NothingRefused ==
  ASSUME WellBehaved, SourceSized, FlowInv, SessionInv, HostTurn,
         NEW word \in Offered, NEW ready, SessionProtocol(word, ready),
         session_state \in Reading, Received(word)
  PROVE  WrapperReads(word)
<1> USE DEF Enter
<1>1. /\ JobsInv /\ FrameInv /\ TurnInv /\ TableSame /\ CountsSame /\ TableInv /\ PairInv
  BY DEF HostTurn, SessionInv
<1>2. frame.kind = "pair" =>
        jobs # <<>> /\ host_table # <<>> /\ table.ready /\ table.loaded = Len(host_table)
  BY <1>1, JobsFit DEF FrameInv, TableSame
<1>3. CASE session_state = "IDLE"
  <2>1. ReceiveCommand(word)
    BY <1>3 DEF SessionProtocol, ReceiveCommand, ReceivePairCount, ReceiveModuli,
       ReceiveReciprocals, ReceiveCounts, ReceivePairIndex, InjectHeaders, Injected,
       ForwardPairData, WaitPairOutput, DiscardFrame, Waiting
  <2>2. /\ ~word.last /\ frame.kind \in {"table", "pair"}
        /\ word.is = IF frame.kind = "table" THEN "RLPT" ELSE "RLMP"
    BY <1>3, NextWord
  <2>3. frame.kind = "table" => ~session.active
    BY <1>1 DEF TurnInv
  <2>4. /\ session_state' = (IF word.is = "RLPT" THEN "PROFILE_COUNT" ELSE "PAIR_COUNTS")
        /\ UNCHANGED <<table, session, frame_counts, payload>>
    BY <1>2, <2>1, <2>2, <2>3 DEF ReceiveCommand
  <2> QED BY <1>3, <2>2, <2>4 DEF WrapperReads
<1>4. CASE session_state = "PROFILE_COUNT"
  <2>1. ReceivePairCount(word)
    BY <1>4 DEF SessionProtocol, ReceiveCommand, ReceivePairCount, ReceiveModuli,
       ReceiveReciprocals, ReceiveCounts, ReceivePairIndex, InjectHeaders, Injected,
       ForwardPairData, WaitPairOutput, DiscardFrame, Waiting
  <2>2. ~word.last /\ word.is = "pairs" /\ word.value.pairs = Len(host_table)
    BY <1>4, NextWord
  <2>3. Len(host_table) \in 1..MaxPairCount
    <3>1. frame.kind = "table"
      BY <1>1, <1>4 DEF TurnInv, Loading
    <3> QED BY <1>1, <3>1, MaxPairAssumption DEF FrameInv, JobsInv
  <2> QED BY <1>4, <2>1, <2>2, <2>3 DEF ReceivePairCount, WrapperReads
<1>5. ASSUME session_state \in {"PROFILE_Q", "PROFILE_MU"}
      PROVE  host_table[table.write_index + 1] \in Profiles
  <2>1. table.write_index \in 0..(Len(host_table) - 1)
    BY <1>1, <1>5 DEF TableSame, TableInv
  <2>2. PICK w \in 0..(Len(host_table) - 1) : w = table.write_index
    BY <2>1
  <2>3. host_table \in Seq(Profiles)
    BY <1>1 DEF JobsInv
  <2>4. host_table[w + 1] \in Profiles
    BY <2>3
  <2> QED BY <2>2, <2>4
<1>6. CASE session_state = "PROFILE_Q"
  <2>1. ReceiveModuli(word)
    BY <1>6 DEF SessionProtocol, ReceiveCommand, ReceivePairCount, ReceiveModuli,
       ReceiveReciprocals, ReceiveCounts, ReceivePairIndex, InjectHeaders, Injected,
       ForwardPairData, WaitPairOutput, DiscardFrame, Waiting
  <2>2. ~word.last /\ word.is = "moduli" /\ word.value = host_table[table.write_index + 1]
    BY <1>6, NextWord
  <2> QED BY <1>5, <1>6, <2>1, <2>2 DEF ReceiveModuli, WrapperReads
<1>7. CASE session_state = "PROFILE_MU"
  <2>1. ReceiveReciprocals(word)
    BY <1>7 DEF SessionProtocol, ReceiveCommand, ReceivePairCount, ReceiveModuli,
       ReceiveReciprocals, ReceiveCounts, ReceivePairIndex, InjectHeaders, Injected,
       ForwardPairData, WaitPairOutput, DiscardFrame, Waiting
  <2>2. /\ word.last <=> final_profile_word
        /\ word.is = "reciprocals" /\ word.value = host_table[table.write_index + 1]
    BY <1>7, NextWord
  <2>3. /\ word.value \in Profiles
        /\ ~(word.last # final_profile_word)
    BY <1>5, <1>7, <2>2
  <2> QED BY <1>7, <2>1, <2>2, <2>3 DEF ReceiveReciprocals, WrapperReads
<1>8. CASE session_state = "PAIR_COUNTS"
  <2>1. ReceiveCounts(word)
    BY <1>8 DEF SessionProtocol, ReceiveCommand, ReceivePairCount, ReceiveModuli,
       ReceiveReciprocals, ReceiveCounts, ReceivePairIndex, InjectHeaders, Injected,
       ForwardPairData, WaitPairOutput, DiscardFrame, Waiting
  <2>2. ~word.last /\ word.is = "counts" /\ word.value = jobs[1].counts
    BY <1>8, NextWord
  <2>3. frame.kind = "pair"
    BY <1>1, <1>8 DEF TurnInv, InPair, Opening
  <2>4. jobs[1].counts \in FitCounts
    BY <1>1, <1>2, <2>3, JobsFit
  <2>5. ValidCounts(word)
    BY <2>2, <2>4 DEF ValidCounts, FitCounts
  <2> QED BY <1>8, <2>1, <2>2, <2>5 DEF ReceiveCounts, WrapperReads
<1>9. CASE session_state = "PAIR_INDEX"
  <2>1. ReceivePairIndex(word)
    BY <1>9 DEF SessionProtocol, ReceiveCommand, ReceivePairCount, ReceiveModuli,
       ReceiveReciprocals, ReceiveCounts, ReceivePairIndex, InjectHeaders, Injected,
       ForwardPairData, WaitPairOutput, DiscardFrame, Waiting
  <2>2. /\ ~word.last /\ word.is = "index" /\ word.value.pairs = Len(host_table)
        /\ word.value.pair = session.expected
    BY <1>9, NextWord
  <2>3. frame.kind = "pair"
    BY <1>1, <1>9 DEF TurnInv, InPair, Opening
  <2>4. table.loaded = Len(host_table)
    BY <1>2, <2>3
  <2>5. frame_counts \in FitCounts /\ (session.active => frame_counts = session.counts)
    BY <1>1, <1>9 DEF PairInv, CountsSame
  <2>6. /\ pair_payload_words(frame_counts) = PayloadWords(frame_counts)
        /\ pair_payload_words(frame_counts) # 0
    BY <2>5, CountsTaken
  <2> QED BY <1>9, <2>1, <2>2, <2>4, <2>5, <2>6 DEF ReceivePairIndex, WrapperReads
<1> QED BY <1>3, <1>4, <1>6, <1>7, <1>8, <1>9 DEF Reading, Loading, Opening

(* In between, nothing of it moves.                                        *)
LEMMA NothingRead ==
  ASSUME NEW word, NEW ready, SessionProtocol(word, ready),
         session_state \in Reading, ~Received(word)
  PROVE  UNCHANGED <<session_state, table, session, frame_counts, payload, injection>>
BY DEF SessionProtocol, ReceiveCommand, ReceivePairCount, ReceiveModuli, ReceiveReciprocals,
   ReceiveCounts, ReceivePairIndex, InjectHeaders, Injected, ForwardPairData, WaitPairOutput,
   DiscardFrame, Waiting, Reading, Loading, Opening

(* What the host keeps while a clock runs.                                 *)
LEMMA HostRests ==
  ASSUME JobsInv, FrameInv, NEW word \in Offered, NEW ready, Tick(word, ready)
  PROVE  /\ UNCHANGED <<host_table, jobs, frames>> /\ JobsInv' /\ FrameInv'
         /\ ~output.active => UNCHANGED delivered /\ (Between' <=> Between)
         /\ ~Received(word) => UNCHANGED <<frame, sent>>
         /\ Received(word) /\ ~word.last => frame' = frame /\ sent' = sent + 1
         /\ Received(word) /\ word.last => frame' = NoFrame /\ sent' = 0
<1>1. UNCHANGED <<host_table, jobs, frames>> /\ JobsInv'
  BY DEF Tick, JobsInv
<1>2. /\ ~Received(word) => UNCHANGED <<frame, sent>>
      /\ Received(word) /\ ~word.last => frame' = frame /\ sent' = sent + 1
      /\ Received(word) /\ word.last => frame' = NoFrame /\ sent' = 0
  BY DEF Tick, Send
<1>3. FrameInv'
  <2>1. CASE Received(word) /\ word.last
    BY <1>2, <2>1 DEF FrameInv, NoFrame
  <2>2. CASE ~(Received(word) /\ word.last)
    <3>1. /\ frame' = frame /\ sent' \in Nat /\ (sent' = sent \/ Received(word))
      BY <1>2, <2>2 DEF FrameInv
    <3>2. sent = sent' \/ frame.kind # "none"
      <4>1. CASE frame.kind = "none"
        <5>1. sent' = sent
          BY <1>2, <4>1 DEF Offered, Received, NoWord
        <5> QED BY <5>1
      <4> QED BY <4>1
    <3> QED BY <1>1, <3>1, <3>2 DEF FrameInv
  <2> QED BY <2>1, <2>2
<1>4. ~output.active => UNCHANGED delivered /\ (Between' <=> Between)
  <2>1. ~output.active => UNCHANGED delivered
    BY DEF Tick
  <2> QED BY <1>1, <2>1 DEF Between, SessionWords, OutputWords
<1> QED BY <1>1, <1>2, <1>3, <1>4

(* The wrapper's states between payloads keep step with the host's frame.  *)
LEMMA ReadingTurn ==
  ASSUME WellBehaved, SourceSized, FlowInv, SessionInv, SessionInv', HostTurn,
         NEW word \in Offered, NEW ready, Tick(word, ready), session_state \in Reading
  PROVE  HostTurn'
<1>1. /\ JobsInv /\ FrameInv /\ TurnInv /\ TableSame /\ CountsSame /\ TableInv /\ PairInv
      /\ PairInv' /\ ChildInv'
  BY DEF HostTurn, SessionInv
<1>2. /\ session_state \notin Moving /\ session_state \notin Injecting
      /\ SessionProtocol(word, ready)
  BY DEF Reading, Loading, Opening, Moving, Injecting, Tick, SessionClock
<1>3. /\ UNCHANGED <<host_table, jobs, frames, delivered>> /\ JobsInv' /\ FrameInv'
      /\ Between' <=> Between
  BY <1>1, <1>2, HostRests, Quiet
<1>4. Behind = session.expected /\ (InPair <=> session_state \in Opening)
  BY <1>2 DEF Behind, InPair, Moving
<1>5. CASE ~Received(word)
  <2>1. /\ UNCHANGED <<session_state, table, session, frame_counts, payload, injection>>
        /\ UNCHANGED <<frame, sent>>
    BY <1>1, <1>2, <1>5, NothingRead, HostRests
  <2>2. /\ Behind' = Behind /\ InPair' = InPair
        /\ PayloadWords(frame_counts)' = PayloadWords(frame_counts)
    BY <2>1 DEF Behind, InPair, PayloadWords, CoefficientWords
  <2>3. TurnInv'
    BY <1>1, <1>3, <2>1, <2>2 DEF TurnInv
  <2>4. TableSame'
    BY <1>1, <1>3, <2>1 DEF TableSame, Entry
  <2>5. CountsSame'
    BY <1>1, <1>2, <1>3, <2>1 DEF CountsSame
  <2> QED BY <1>3, <2>3, <2>4, <2>5 DEF HostTurn
<1>6. ASSUME Received(word)
      PROVE  WrapperReads(word) /\ frame.kind \in {"table", "pair"}
  BY <1>1, <1>2, <1>6, NothingRefused, OfferedIsNext
<1>7. ASSUME Received(word), ~word.last
      PROVE  frame' = frame /\ sent' = sent + 1 /\ sent \in Nat
  BY <1>1, <1>7, HostRests DEF FrameInv
<1>8. CASE Received(word) /\ session_state = "IDLE"
  <2>1. /\ session_state' = (IF frame.kind = "table" THEN "PROFILE_COUNT" ELSE "PAIR_COUNTS")
        /\ UNCHANGED <<table, session, frame_counts, payload>>
    BY <1>6, <1>8 DEF WrapperReads
  <2>2. frame' = frame /\ sent' = 1
    <3>1. ~word.last /\ sent = 0
      BY <1>8, NextWord
    <3> QED BY <1>7, <1>8, <3>1
  <2>3. /\ session_state' \in {"PROFILE_COUNT", "PAIR_COUNTS"}
        /\ session_state' \in Loading <=> frame.kind = "table"
        /\ session_state' \in Opening <=> frame.kind = "pair"
        /\ session_state' \notin Injecting \union Moving
        /\ session_state' = "PROFILE_COUNT" => frame.kind = "table"
    BY <1>6, <1>8, <2>1 DEF Loading, Opening, Injecting, Moving
  <2>4. Behind' = Behind /\ (InPair' <=> frame.kind = "pair")
    BY <1>4, <2>1, <2>3 DEF Behind, InPair, Moving
  <2>5. TurnInv'
    BY <1>1, <1>3, <2>1, <2>2, <2>3, <2>4 DEF TurnInv, Moving
  <2>6. TableSame'
    BY <1>1, <1>3, <2>1, <2>2, <2>3 DEF TableSame, Entry
  <2>7. CountsSame'
    BY <1>1, <1>3, <2>1, <2>3 DEF CountsSame, Injecting, Moving
  <2> QED BY <1>3, <2>5, <2>6, <2>7 DEF HostTurn
<1>9. CASE Received(word) /\ session_state \in Loading
  <2>1. frame.kind = "table" /\ sent > 0 /\ sent \in Nat /\ ~session.active
        /\ frame.value = host_table /\ host_table # <<>> /\ jobs = <<>>
    BY <1>1, <1>9 DEF TurnInv, FrameInv
  <2>2. UNCHANGED <<session.active, session.counts, frame_counts, payload>>
    <3>1. DOMAIN session = {"active", "counts", "current", "expected"}
      BY DEF SessionInv, OpenInv
    <3> QED BY <1>6, <1>9, <3>1 DEF WrapperReads, Loading
  <2>3. CASE ~word.last
    <3>1. frame' = frame /\ sent' = sent + 1
      BY <1>7, <1>9, <2>3
    <3>2. session_state' \in Loading
      BY <1>6, <1>9, <2>3, NextWord DEF WrapperReads, Loading
    <3>3. session_state' \notin Opening \union Injecting \union Moving /\ ~InPair'
          /\ session_state' # "DISCARD"
      BY <3>2 DEF Loading, Opening, Injecting, Moving, InPair
    <3>4. TurnInv'
      BY <1>3, <2>1, <2>2, <3>1, <3>2, <3>3 DEF TurnInv, Opening, Moving
    <3>5. TableSame'
      <4>1. CASE session_state = "PROFILE_COUNT"
        <5>1. /\ session_state' = "PROFILE_Q" /\ DOMAIN table' = DOMAIN table
              /\ table' = [table EXCEPT !.loading = Len(host_table), !.write_index = 0,
                                        !.ready = FALSE]
          BY <1>6, <1>9, <4>1 DEF WrapperReads
        <5>2. table'.loading = Len(host_table) /\ table'.write_index = 0
          BY <1>1, <5>1 DEF TableInv
        <5>3. sent' = 2 + 2 * table'.write_index
          BY <1>1, <3>1, <4>1, <5>2 DEF TableSame
        <5>4. 0..(table'.write_index - 1) = {}
          BY <5>2
        <5> QED BY <1>3, <2>1, <3>1, <5>1, <5>2, <5>3, <5>4 DEF TableSame
      <4>2. CASE session_state = "PROFILE_Q"
        <5>1. /\ session_state' = "PROFILE_MU"
              /\ table' = [table EXCEPT !.modulus[table.write_index] =
                                          host_table[table.write_index + 1]]
          BY <1>6, <1>9, <4>2 DEF WrapperReads
        <5>2. /\ table'.loading = table.loading /\ table'.write_index = table.write_index
              /\ table'.mu = table.mu
              /\ table'.modulus = [table.modulus EXCEPT ![table.write_index] =
                                     host_table[table.write_index + 1]]
          BY <1>1, <5>1 DEF TableInv
        <5>3. /\ table.write_index \in Nat /\ table.write_index \in PairIndexes
              /\ DOMAIN table.modulus = PairIndexes
          BY <1>1, <4>2, MaxPairAssumption DEF TableInv, PairIndexes
        <5>4. table'.modulus[table'.write_index] = host_table[table'.write_index + 1]
          BY <5>2, <5>3
        <5>5. \A pair \in 0..(table'.write_index - 1) : Entry(pair)'
          <6> SUFFICES ASSUME NEW pair \in 0..(table'.write_index - 1) PROVE Entry(pair)'
            OBVIOUS
          <6>1. pair # table.write_index /\ Entry(pair)
            BY <1>1, <4>2, <5>2, <5>3 DEF TableSame
          <6> QED BY <1>3, <5>2, <5>3, <6>1 DEF Entry
        <5>6. sent' = 3 + 2 * table'.write_index
          BY <1>1, <3>1, <4>2, <5>2, <5>3 DEF TableSame
        <5>7. table'.loading = Len(host_table')
          BY <1>1, <1>3, <4>2, <5>2 DEF TableSame
        <5> QED BY <1>3, <2>1, <3>1, <5>1, <5>4, <5>5, <5>6, <5>7 DEF TableSame
      <4>3. CASE session_state = "PROFILE_MU"
        <5>1. ~final_profile_word
          BY <1>9, <2>3, <4>3, NextWord
        <5>2. /\ session_state' = "PROFILE_Q"
              /\ table' = [table EXCEPT !.mu[table.write_index] =
                                          host_table[table.write_index + 1],
                                        !.write_index = @ + 1]
          BY <1>6, <1>9, <4>3, <5>1 DEF WrapperReads
        <5>3. /\ table'.loading = table.loading /\ table'.write_index = table.write_index + 1
              /\ table'.modulus = table.modulus
              /\ table'.mu = [table.mu EXCEPT ![table.write_index] =
                                host_table[table.write_index + 1]]
          BY <1>1, <5>2 DEF TableInv
        <5>4. /\ table.write_index \in Nat /\ table.write_index \in PairIndexes
              /\ DOMAIN table.mu = PairIndexes
          BY <1>1, <4>3, MaxPairAssumption DEF TableInv, PairIndexes
        <5>5. \A pair \in 0..(table'.write_index - 1) : Entry(pair)'
          <6> SUFFICES ASSUME NEW pair \in 0..(table'.write_index - 1) PROVE Entry(pair)'
            OBVIOUS
          <6>1. CASE pair = table.write_index
            BY <1>1, <1>3, <4>3, <5>3, <5>4, <6>1 DEF TableSame, Entry
          <6>2. CASE pair # table.write_index
            <7>1. pair \in 0..(table.write_index - 1)
              BY <5>3, <5>4, <6>2
            <7>2. Entry(pair)
              BY <1>1, <4>3, <7>1 DEF TableSame
            <7> QED BY <1>3, <5>3, <5>4, <6>2, <7>2 DEF Entry
          <6> QED BY <6>1, <6>2
        <5>6. sent' = 2 + 2 * table'.write_index
          BY <1>1, <3>1, <4>3, <5>3, <5>4 DEF TableSame
        <5>7. table'.loading = Len(host_table')
          BY <1>1, <1>3, <4>3, <5>3 DEF TableSame
        <5> QED BY <1>3, <2>1, <3>1, <5>2, <5>5, <5>6, <5>7 DEF TableSame
      <4> QED BY <1>9, <4>1, <4>2, <4>3 DEF Loading
    <3>6. CountsSame'
      BY <1>3, <2>1, <2>2, <3>2, <3>3 DEF CountsSame, Loading
    <3> QED BY <1>3, <3>4, <3>5, <3>6 DEF HostTurn
  <2>4. CASE word.last
    <3>1. session_state = "PROFILE_MU" /\ final_profile_word
      BY <1>9, <2>4, NextWord DEF Loading
    <3>2. /\ session_state' = "IDLE"
          /\ table' = [table EXCEPT !.mu[table.write_index] =
                                      host_table[table.write_index + 1],
                                    !.loaded = table.loading, !.ready = TRUE]
      BY <1>6, <1>9, <3>1 DEF WrapperReads
    <3>3. frame' = NoFrame /\ sent' = 0
      BY <1>1, <1>9, <2>4, HostRests
    <3>4. ~InPair' /\ session_state' \notin Loading \union Opening \union Injecting \union Moving
      BY <3>2 DEF InPair, Loading, Opening, Injecting, Moving
    <3>5. Between'
      BY <1>3, <2>1 DEF Between
    <3>6. TurnInv'
      BY <1>3, <2>1, <2>2, <3>2, <3>3, <3>4, <3>5 DEF TurnInv, NoFrame, Opening, Moving
    <3>7. TableSame'
      <4>1. /\ table'.modulus = table.modulus /\ table'.ready
            /\ table'.mu = [table.mu EXCEPT ![table.write_index] =
                              host_table[table.write_index + 1]]
            /\ table'.loaded = table.loading
        BY <1>1, <3>2 DEF TableInv
      <4>2. /\ table.write_index \in Nat /\ table.write_index \in PairIndexes
            /\ DOMAIN table.mu = PairIndexes /\ Len(host_table) \in Nat
            /\ table.loading = Len(host_table) /\ table.write_index + 1 = Len(host_table)
        BY <1>1, <3>1, MaxPairAssumption DEF TableInv, PairIndexes, TableSame,
           final_profile_word, JobsInv
      <4>3. \A pair \in 0..(Len(host_table) - 1) : Entry(pair)'
        <5> SUFFICES ASSUME NEW pair \in 0..(Len(host_table) - 1) PROVE Entry(pair)'
          OBVIOUS
        <5>1. CASE pair = table.write_index
          BY <1>1, <1>3, <3>1, <4>1, <4>2, <5>1 DEF TableSame, Entry
        <5>2. CASE pair # table.write_index
          <6>1. pair \in 0..(table.write_index - 1)
            BY <4>2, <5>2
          <6>2. Entry(pair)
            BY <1>1, <3>1, <6>1 DEF TableSame
          <6> QED BY <1>3, <4>1, <4>2, <5>2, <6>2 DEF Entry
        <5> QED BY <5>1, <5>2
      <4> QED BY <1>3, <3>2, <4>1, <4>2, <4>3 DEF TableSame
    <3>8. CountsSame'
      BY <1>3, <2>1, <2>2, <3>2, <3>4 DEF CountsSame
    <3> QED BY <1>3, <3>6, <3>7, <3>8 DEF HostTurn
  <2> QED BY <2>3, <2>4
<1>10. CASE Received(word) /\ session_state \in Opening
  <2>1. frame.kind = "pair" /\ frame.pair = session.expected /\ sent \in Nat
    BY <1>1, <1>4, <1>10 DEF TurnInv, FrameInv
  <2>2. frame' = frame /\ sent' = sent + 1 /\ UNCHANGED table
    <3>1. ~word.last
      BY <1>10, NextWord DEF Opening
    <3> QED BY <1>6, <1>7, <1>10, <3>1 DEF WrapperReads, Opening
  <2>3. jobs # <<>> /\ host_table # <<>>
    BY <1>1, <2>1, JobsFit DEF FrameInv
  <2>4. CASE session_state = "PAIR_COUNTS"
    <3>1. /\ session_state' = "PAIR_INDEX" /\ frame_counts' = jobs[1].counts
          /\ UNCHANGED <<session, payload>>
      BY <1>6, <1>10, <2>4 DEF WrapperReads
    <3>2. InPair' /\ Behind' = Behind /\ sent' = 2
      BY <1>1, <1>4, <2>2, <2>4, <3>1 DEF InPair, Behind, Opening, Moving, TurnInv
    <3>3. session_state' \notin Loading \union Injecting \union Moving
      BY <3>1 DEF Loading, Injecting, Moving
    <3>4. TurnInv'
      BY <1>1, <1>3, <2>1, <2>2, <3>1, <3>2, <3>3 DEF TurnInv, Moving
    <3>5. TableSame'
      BY <1>1, <1>3, <2>1, <2>2, <3>1, <3>3 DEF TableSame, Entry
    <3>6. CountsSame'
      BY <1>1, <1>3, <3>1, <3>3 DEF CountsSame, Moving
    <3> QED BY <1>3, <3>4, <3>5, <3>6 DEF HostTurn
  <2>5. CASE session_state = "PAIR_INDEX"
    <3>1. /\ session_state' = "INJECT_PROFILE_COMMAND"
          /\ session' = [session EXCEPT
                           !.current = session.expected, !.active = TRUE,
                           !.counts = IF session.active THEN @ ELSE frame_counts]
          /\ payload' = [remaining |-> PayloadWords(frame_counts), complete |-> FALSE]
          /\ UNCHANGED frame_counts
      BY <1>6, <1>10, <2>5 DEF WrapperReads
    <3>2. DOMAIN session = {"active", "counts", "current", "expected"}
      BY DEF SessionInv, OpenInv
    <3>3. /\ session'.expected = session.expected /\ session'.active
          /\ session'.counts = IF session.active THEN session.counts ELSE frame_counts
      BY <3>1, <3>2
    <3>4. InPair' /\ Behind' = Behind /\ sent' = 3
      BY <1>1, <1>4, <2>2, <2>5, <3>1, <3>3 DEF InPair, Behind, Injecting, Moving, TurnInv
    <3>5. session_state' \notin Loading \union Opening \union Moving
          /\ session_state' \in Injecting
      BY <3>1 DEF Loading, Opening, Injecting, Moving
    <3>6. TurnInv'
      BY <1>1, <1>3, <2>1, <2>2, <2>3, <3>1, <3>3, <3>4, <3>5 DEF TurnInv, Opening, Moving
    <3>7. TableSame'
      BY <1>1, <1>3, <2>1, <2>2, <3>1, <3>5 DEF TableSame, Entry
    <3>8. CountsSame'
      BY <1>1, <1>3, <2>5, <3>1, <3>3, <3>5 DEF CountsSame, Moving
    <3> QED BY <1>3, <3>6, <3>7, <3>8 DEF HostTurn
  <2> QED BY <1>10, <2>4, <2>5 DEF Opening
<1> QED BY <1>5, <1>8, <1>9, <1>10 DEF Reading

(* While headers are injected the host waits inside its pair frame.        *)
LEMMA InjectingTurn ==
  ASSUME FlowInv, SessionInv, SessionInv', HostTurn,
         NEW word \in Offered, NEW ready, Tick(word, ready), session_state \in Injecting
  PROVE  /\ HostTurn' /\ session_state' \in Injecting \union {"FORWARD_PAIR_DATA"}
         /\ UNCHANGED <<table, session, frame_counts, frame, sent, delivered>>
<1>1. /\ JobsInv /\ FrameInv /\ TurnInv /\ TableSame /\ CountsSame /\ PairInv /\ PayloadInv
      /\ PairInv' /\ ChildInv'
  BY DEF HostTurn, SessionInv
<1>2. /\ session_state \notin Moving /\ session_state \notin Loading \union Opening
      /\ session_state # "IDLE" /\ session_state # "DISCARD"
      /\ SessionProtocol(word, ready) /\ ~Received(word)
  BY DEF Injecting, Loading, Opening, Moving, Tick, SessionClock, Received, session_tready
<1>3. /\ UNCHANGED <<host_table, jobs, frames, delivered, frame, sent>> /\ JobsInv' /\ FrameInv'
      /\ Between' <=> Between
  BY <1>1, <1>2, HostRests, Quiet
<1>4. /\ session_state' \in Injecting \union {"FORWARD_PAIR_DATA"}
      /\ UNCHANGED <<table, session, frame_counts, payload>>
  <2>1. InjectHeaders \/ Waiting(word, ready)
    BY <1>2 DEF SessionProtocol, ReceiveCommand, ReceivePairCount, ReceiveModuli,
       ReceiveReciprocals, ReceiveCounts, ReceivePairIndex, ForwardPairData, WaitPairOutput,
       DiscardFrame, Moving, Loading, Opening
  <2>2. CASE InjectHeaders
    BY <2>2 DEF InjectHeaders, Injected, Enter, Injecting
  <2>3. CASE Waiting(word, ready)
    BY <2>3 DEF Waiting
  <2> QED BY <2>1, <2>2, <2>3
<1>5. /\ session_state' \notin Loading \union Opening \union {"IDLE", "DISCARD"}
      /\ session_state' # "WAIT_PAIR_OUTPUT"
  BY <1>4 DEF Injecting, Loading, Opening
<1>6. /\ ~payload.complete /\ payload.remaining = PayloadWords(frame_counts) /\ sent = 3
      /\ PayloadWords(frame_counts)' = PayloadWords(frame_counts) /\ InPair
  BY <1>1, <1>4 DEF PayloadInv, TurnInv, InPair
<1>7. InPair' /\ Behind' = session.expected /\ Behind = session.expected
  BY <1>2, <1>4, <1>5, <1>6 DEF InPair, Behind, Moving
<1>8. TurnInv'
  <2>1. frame.kind = "pair" /\ session.active
    BY <1>1, <1>6 DEF TurnInv, PairInv
  <2>2. sent + payload.remaining = 3 + PayloadWords(frame_counts)
    BY <1>6
  <2> QED BY <1>1, <1>3, <1>4, <1>5, <1>6, <1>7, <2>1, <2>2 DEF TurnInv, Opening
<1>9. TableSame'
  BY <1>1, <1>3, <1>4, <1>5 DEF TableSame, Entry, Loading
<1>10. CountsSame'
  <2>1. frame_counts = jobs[1].counts /\ session_state' \notin {"PAIR_INDEX"}
    BY <1>1, <1>5 DEF CountsSame, Opening
  <2>2. session_state' \in Moving => session_state' = "FORWARD_PAIR_DATA"
    BY <1>5 DEF Moving
  <2>3. session_state' \in Moving => batch' = frame_counts
    BY <1>1, <1>4, <2>2 DEF ChildInv
  <2> QED BY <1>1, <1>3, <1>4, <2>1, <2>3 DEF CountsSame
<1> QED BY <1>3, <1>4, <1>8, <1>9, <1>10 DEF HostTurn

(* What the wrapper does while a payload moves.                            *)
LEMMA ForwardMoves ==
  ASSUME FlowInv, SessionInv, NEW word, NEW ready,
         SessionProtocol(word, ready), session_state = "FORWARD_PAIR_DATA"
  PROVE  /\ UNCHANGED <<table, session, frame_counts, injection>>
         /\ session_state' \in Moving
         /\ ~payload.complete => session_state' = "FORWARD_PAIR_DATA"
         /\ ~Received(word) => payload' = payload
         /\ Received(word) =>
              /\ ~payload.complete
              /\ payload_final_word => payload'.complete
              /\ ~payload_final_word =>
                   ~payload'.complete /\ payload'.remaining = payload.remaining - 1
<1>1. CASE ForwardPairData(word)
  <2>1. /\ UNCHANGED <<table, session, frame_counts, injection>>
        /\ session_state' = IF payload_dequeue /\ Head(fifo).last
                              THEN "WAIT_PAIR_OUTPUT" ELSE session_state
        /\ payload' = IF ~payload_enqueue(word) THEN payload
                      ELSE IF payload_final_word
                        THEN [payload EXCEPT !.complete = TRUE]
                        ELSE [payload EXCEPT !.remaining = @ - 1]
    BY <1>1 DEF ForwardPairData
  <2>2. DOMAIN payload = {"remaining", "complete"}
    BY DEF SessionInv, PayloadInv
  <2>3. payload_dequeue => (Head(fifo).last <=> payload.complete /\ Len(fifo) = 1)
    <3>1. payload_dequeue => fifo # <<>>
      BY DEF payload_dequeue, Handshake, core_word, NoWord
    <3>2. PICK S : fifo \in Seq(S)
      BY DEF SessionInv, PayloadInv
    <3>3. fifo # <<>> => Head(fifo) = fifo[1] /\ 1 \in 1..Len(fifo)
      BY <3>2
    <3> QED BY <3>1, <3>3 DEF SessionInv, PayloadInv
  <2>4. payload_enqueue(word) <=> Received(word)
    BY DEF payload_enqueue
  <2>5. Received(word) => ~payload.complete
    BY DEF Received, session_tready
  <2> QED BY <2>1, <2>2, <2>3, <2>4, <2>5 DEF Moving
<1>2. CASE Waiting(word, ready)
  BY <1>2 DEF Waiting, payload_enqueue, Moving
<1> QED BY <1>1, <1>2 DEF SessionProtocol, ReceiveCommand, ReceivePairCount, ReceiveModuli,
        ReceiveReciprocals, ReceiveCounts, ReceivePairIndex, InjectHeaders, Injected,
        WaitPairOutput, DiscardFrame

(* A payload keeps step with the host's frame word by word, to its end.    *)
LEMMA ForwardTurn ==
  ASSUME WellBehaved, CoreInv, FlowInv, SessionInv, SessionInv', HostTurn,
         NEW word \in Offered, NEW ready, Tick(word, ready),
         session_state = "FORWARD_PAIR_DATA"
  PROVE  HostTurn' /\ UNCHANGED <<batch, profile>>
<1>1. /\ JobsInv /\ FrameInv /\ TurnInv /\ TableSame /\ CountsSame /\ PairInv /\ PayloadInv
      /\ ChildInv /\ ChildInv'
  BY DEF HostTurn, SessionInv
<1>2. /\ UNCHANGED <<host_table, jobs, frames>> /\ JobsInv' /\ FrameInv'
      /\ ~Received(word) => UNCHANGED <<frame, sent>>
      /\ Received(word) /\ ~word.last => frame' = frame /\ sent' = sent + 1
      /\ Received(word) /\ word.last => frame' = NoFrame /\ sent' = 0
  BY <1>1, HostRests
<1>3. /\ UNCHANGED <<table, session, frame_counts>> /\ session_state' \in Moving
      /\ ~payload.complete => session_state' = "FORWARD_PAIR_DATA"
      /\ ~Received(word) => payload' = payload
      /\ Received(word) =>
           /\ ~payload.complete
           /\ payload_final_word => payload'.complete
           /\ ~payload_final_word =>
                ~payload'.complete /\ payload'.remaining = payload.remaining - 1
  BY ForwardMoves DEF Tick, SessionClock
<1>4. UNCHANGED <<batch, profile>>
  <2>1. GoodWord(core_word) /\ Clock(core_word, ready)
    BY CoreWordIsGood DEF FlowInv, Tick, SessionClock
  <2>2. state \in Running /\ ~Finishes(ready)
    BY <1>1 DEF ChildInv, Finishes
  <2> QED BY <2>1, <2>2, BatchStep
<1>5. /\ session_state' \notin Loading \union Opening \union Injecting \union {"DISCARD"}
      /\ session_state \notin Loading \union Opening \union Injecting
      /\ PayloadWords(frame_counts)' = PayloadWords(frame_counts)
      /\ session.active
  BY <1>1, <1>3 DEF Moving, Loading, Opening, Injecting, PairInv
<1>6. /\ InPair <=> ~payload.complete
      /\ Behind = IF payload.complete THEN session.expected + 1 ELSE session.expected
  BY <1>5 DEF InPair, Behind, Moving
<1>7. /\ InPair' <=> session_state' = "FORWARD_PAIR_DATA" /\ ~payload'.complete
      /\ Behind' = IF InPair' THEN session.expected ELSE session.expected + 1
  BY <1>3, <1>5 DEF InPair, Behind
<1>8. TurnInv'
  <2>1. CASE ~Received(word)
    <3>1. UNCHANGED <<frame, sent, payload>>
      BY <1>2, <1>3, <2>1
    <3>2. (InPair' <=> InPair) /\ Behind' = Behind
      BY <1>3, <1>6, <1>7, <3>1
    <3> QED BY <1>1, <1>2, <1>3, <1>5, <1>6, <1>7, <3>1, <3>2 DEF TurnInv, Opening, Loading
  <2>2. CASE Received(word) /\ ~word.last
    <3>1. frame' = frame /\ sent' = sent + 1 /\ sent \in Nat
      BY <1>1, <1>2, <2>2 DEF FrameInv
    <3>2. ~payload_final_word /\ ~payload.complete
      BY <1>3, <2>2, NextWord
    <3>3. /\ session_state' = "FORWARD_PAIR_DATA" /\ ~payload'.complete
          /\ payload'.remaining = payload.remaining - 1
      BY <1>3, <2>2, <3>2
    <3>4. InPair' /\ InPair /\ Behind' = Behind
      BY <1>6, <1>7, <3>2, <3>3
    <3>5. frame.kind = "pair" /\ frame.pair = Behind /\ jobs # <<>>
      BY <1>1, <1>5, <3>4 DEF TurnInv
    <3>6. sent' + payload'.remaining = 3 + PayloadWords(frame_counts)'
      <4>1. sent + payload.remaining = 3 + PayloadWords(frame_counts)
        BY <1>1, <3>2 DEF TurnInv
      <4>2. payload.remaining \in Nat
        BY <1>1 DEF PayloadInv
      <4>3. PICK r \in Nat : r = payload.remaining
        BY <4>2
      <4>4. payload'.remaining = r - 1
        BY <3>3, <4>3
      <4>5. (sent + 1) + (r - 1) = sent + r
        BY <3>1, <4>3
      <4> QED BY <1>5, <3>1, <4>1, <4>3, <4>4, <4>5
    <3> QED BY <1>2, <1>3, <1>5, <3>1, <3>3, <3>4, <3>5, <3>6 DEF TurnInv, Opening, Loading
  <2>3. CASE Received(word) /\ word.last
    <3>1. frame' = NoFrame /\ sent' = 0
      BY <1>2, <2>3
    <3>2. payload_final_word /\ ~payload.complete
      BY <1>3, <2>3, NextWord
    <3>3. ~InPair' /\ Behind' = session.expected + 1 /\ payload'.complete
          /\ session_state' = "FORWARD_PAIR_DATA"
      BY <1>3, <1>7, <2>3, <3>2
    <3>4. frame.kind = "pair" /\ frame.pair = session.expected /\ jobs # <<>>
      BY <1>1, <1>5, <1>6, <3>2 DEF TurnInv
    <3>5. Len(jobs) = session.expected + 1
      BY <1>1, <3>4 DEF FrameInv
    <3>6. frame'.kind = "none"
      BY <3>1 DEF NoFrame
    <3> QED BY <1>2, <1>3, <1>5, <3>1, <3>3, <3>4, <3>5, <3>6 DEF TurnInv, Opening, Loading
  <2> QED BY <2>1, <2>2, <2>3
<1>9. TableSame'
  <2>1. host_table # <<>> /\ frame.kind # "table" /\ frame'.kind # "table"
    <3>1. jobs # <<>> /\ frame.kind # "table"
      BY <1>1, <1>5 DEF TurnInv
    <3>2. frame' = frame \/ frame' = NoFrame
      BY <1>2
    <3> QED BY <1>1, <3>1, <3>2, JobsFit DEF NoFrame
  <2> QED BY <1>1, <1>2, <1>3, <1>5, <2>1 DEF TableSame, Entry, Loading
<1>10. CountsSame'
  BY <1>1, <1>2, <1>3, <1>4, <1>5 DEF CountsSame, Moving
<1> QED BY <1>2, <1>4, <1>8, <1>9, <1>10 DEF HostTurn

(* The last word of a pair leaves the wrapper where the host expects it:   *)
(* at the next pair, or with the session done and every word delivered.    *)
LEMMA WaitTurn ==
  ASSUME WellBehaved, CoreInv, FlowInv, SessionInv, SessionInv', HostTurn,
         PairDataInv, DeliveredInv,
         NEW word \in Offered, NEW ready, Tick(word, ready),
         session_state = "WAIT_PAIR_OUTPUT"
  PROVE  /\ HostTurn'
         /\ ~Finishes(ready) => UNCHANGED <<session_state, session, batch, profile>>
         /\ Finishes(ready) =>
              /\ session_state' = "IDLE"
              /\ delivered' = (session.expected + 1) * PairWords
              /\ session'.active => session'.expected = session.expected + 1
              /\ ~session'.active => Between' /\ frame'.kind = "none"
<1>1. /\ JobsInv /\ FrameInv /\ TurnInv /\ TableSame /\ CountsSame /\ PairInv /\ PayloadInv
      /\ ChildInv /\ ChildInv' /\ OpenInv
  BY DEF HostTurn, SessionInv
<1>2. /\ session_state \notin Loading \union Opening \union Injecting
      /\ SessionProtocol(word, ready) /\ ~Received(word) /\ state = "WAIT_BATCH_OUTPUT"
      /\ session_state \in Moving
  BY <1>1 DEF Injecting, Loading, Opening, Moving, Tick, SessionClock, Received,
     session_tready, ChildInv
<1>3. /\ UNCHANGED <<host_table, jobs, frames, frame, sent>> /\ JobsInv' /\ FrameInv'
  BY <1>1, <1>2, HostRests
<1>4. /\ session.active /\ session.current = session.expected /\ session.expected \in Nat
      /\ jobs # <<>> /\ host_table # <<>> /\ frame.kind # "table"
      /\ batch = jobs[1].counts
      /\ table.loaded = Len(host_table)
  <2>1. session.active /\ session.current = session.expected /\ session.expected \in Nat
    BY <1>1, <1>2 DEF PairInv
  <2>2. jobs # <<>> /\ frame.kind # "table" /\ host_table # <<>>
    BY <1>1, <2>1, JobsFit DEF TurnInv
  <2> QED BY <1>1, <1>2, <2>1, <2>2 DEF TableSame, CountsSame
<1>5. ~InPair /\ Behind = session.expected + 1
  BY <1>2 DEF InPair, Behind
<1>6. Finishes(ready) <=> pair_output_complete(ready)
  BY <1>2 DEF Finishes, pair_output_complete, output_batch_complete,
     output_coefficient_complete, m_axis_tlast
<1>7. /\ UNCHANGED <<table, frame_counts, payload>>
      /\ ~Finishes(ready) => UNCHANGED <<session_state, session>>
      /\ Finishes(ready) =>
           /\ session_state' = "IDLE"
           /\ session' = [session EXCEPT !.active = ~final_pair,
                                         !.expected = IF final_pair THEN 0 ELSE @ + 1]
  <2>1. WaitPairOutput(ready) \/ Waiting(word, ready)
    BY <1>2 DEF SessionProtocol, ReceiveCommand, ReceivePairCount, ReceiveModuli,
       ReceiveReciprocals, ReceiveCounts, ReceivePairIndex, InjectHeaders, Injected,
       ForwardPairData, DiscardFrame
  <2> QED BY <1>2, <1>6, <2>1 DEF WaitPairOutput, Waiting, Enter
<1>8. PayloadWords(frame_counts)' = PayloadWords(frame_counts)
  BY <1>7
<1>9. GoodWord(core_word) /\ Clock(core_word, ready) /\ state \in Running
  BY <1>2, CoreWordIsGood DEF FlowInv, Tick, SessionClock, Running, InputDone
<1>10. CASE ~Finishes(ready)
  <2>1. UNCHANGED <<session_state, session>> /\ UNCHANGED <<batch, profile>>
    BY <1>7, <1>9, <1>10, BatchStep
  <2>2. (InPair' <=> InPair) /\ Behind' = Behind
    BY <1>7, <2>1 DEF InPair, Behind
  <2>3. TurnInv'
    BY <1>1, <1>2, <1>3, <1>4, <1>7, <1>8, <2>1, <2>2 DEF TurnInv, Opening
  <2>4. TableSame'
    BY <1>1, <1>3, <1>7, <2>1 DEF TableSame, Entry
  <2>5. CountsSame'
    BY <1>1, <1>3, <1>7, <2>1 DEF CountsSame
  <2> QED BY <1>3, <1>10, <2>1, <2>3, <2>4, <2>5 DEF HostTurn
<1>11. CASE Finishes(ready)
  <2>1. output.active /\ ready /\ Shipped \in Nat /\ Shipped + 1 = OutputWords(batch)
    BY <1>9, <1>11, ShippedStep DEF PairDataInv
  <2>2. delivered' = delivered + 1
    BY <2>1 DEF Tick
  <2>3. delivered' = (session.expected + 1) * PairWords
    <3>1. PICK e \in Nat : e = session.expected
      BY <1>4
    <3>2. PICK s \in Nat : s = Shipped
      BY <2>1
    <3>3. PairWords = s + 1
      BY <1>4, <2>1, <3>2 DEF PairWords
    <3>4. delivered = e * (s + 1) + s
      BY <1>2, <1>4, <3>1, <3>2, <3>3 DEF DeliveredInv
    <3>5. \A x, y \in Nat : (x * (y + 1) + y) + 1 = (x + 1) * (y + 1)
      OBVIOUS
    <3>6. delivered' = (e + 1) * (s + 1)
      BY <2>2, <3>4, <3>5
    <3> QED BY <3>1, <3>3, <3>6
  <2>4. DOMAIN session = {"active", "counts", "current", "expected"}
    BY <1>1 DEF OpenInv
  <2>5. /\ session_state' = "IDLE" /\ session'.counts = session.counts
        /\ session'.active = ~final_pair
        /\ session'.expected = IF final_pair THEN 0 ELSE session.expected + 1
    BY <1>7, <1>11, <2>4
  <2>6. /\ session_state' \notin Loading \union Opening \union Injecting \union Moving
        /\ ~InPair'
    BY <2>5 DEF InPair, Loading, Opening, Injecting, Moving
  <2>7. Behind' = session'.expected
    BY <2>6 DEF Behind
  <2>8. final_pair <=> session.expected + 1 = Len(host_table)
    BY <1>4 DEF final_pair
  <2>9. /\ frame.kind = "pair" => session.expected + 1 + 1 <= Len(host_table)
        /\ Len(host_table) \in Nat
        /\ frame.kind = "none" => Len(jobs) = session.expected + 1
    BY <1>1, <1>4, <1>5, JobsFit DEF TurnInv, FrameInv, JobsInv
  <2>10. final_pair => frame.kind = "none" /\ Between'
    <3>1. final_pair => frame.kind = "none"
      BY <1>1, <1>4, <2>8, <2>9 DEF FrameInv
    <3>2. final_pair => delivered' = Len(host_table) * PairWords
      BY <2>3, <2>8
    <3> QED BY <1>3, <2>8, <2>9, <3>1, <3>2 DEF Between, SessionWords, PairWords
  <2>11. TurnInv'
    <3>1. frame.kind = "pair" => frame.pair = session.expected + 1 /\ ~final_pair
      BY <1>1, <1>5, <2>10 DEF TurnInv
    <3>2. sent = 0 \/ frame.kind \notin {"table", "pair"}
      BY <1>1, <1>2, <1>4, <1>5 DEF TurnInv, FrameInv
    <3>3. sent \in Nat
      BY <1>1 DEF FrameInv
    <3>4. /\ session'.active => session'.expected = session.expected + 1
          /\ ~session'.active => final_pair
      BY <2>5
    <3>5. frame'.kind = "none" => IF session'.active THEN Len(jobs') = Behind' ELSE Between'
      BY <1>3, <2>7, <2>9, <2>10, <3>4
    <3>6. frame'.kind = "pair" => frame'.pair = Behind'
      BY <1>3, <2>5, <2>7, <3>1
    <3>7. ~(sent > 0 /\ frame.kind \in {"table", "pair"})
      BY <3>2, <3>3
    <3>8. jobs' # <<>> /\ frame'.kind # "table"
      BY <1>3, <1>4
    <3> QED BY <1>3, <2>5, <2>6, <3>5, <3>6, <3>7, <3>8 DEF TurnInv, Opening
  <2>12. TableSame'
    BY <1>1, <1>3, <1>4, <1>7, <2>5, <2>6 DEF TableSame, Entry, Loading
  <2>13. CountsSame'
    BY <1>1, <1>3, <1>4, <2>5, <2>6 DEF CountsSame
  <2>14. HostTurn'
    BY <1>3, <2>11, <2>12, <2>13 DEF HostTurn
  <2>15. session'.active => session'.expected = session.expected + 1
    BY <2>5
  <2>16. ~session'.active => Between' /\ frame'.kind = "none"
    BY <1>3, <2>5, <2>10
  <2> QED BY <1>11, <2>3, <2>5, <2>14, <2>15, <2>16
<1> QED BY <1>10, <1>11

(* Every clock keeps host and wrapper in step.                             *)
LEMMA TurnStep ==
  ASSUME WellBehaved, SourceSized, CoreInv, FlowInv, SessionInv, SessionInv', HostTurn,
         PairDataInv, DeliveredInv, NEW word \in Offered, NEW ready, Tick(word, ready)
  PROVE  HostTurn'
<1>1. CASE session_state \in Reading
  BY <1>1, ReadingTurn
<1>2. CASE session_state \in Injecting
  BY <1>2, InjectingTurn
<1>3. CASE session_state = "FORWARD_PAIR_DATA"
  BY <1>3, ForwardTurn
<1>4. CASE session_state = "WAIT_PAIR_OUTPUT"
  BY <1>4, WaitTurn
<1>5. session_state \in Reading \union Injecting \union Moving
  BY DEF SessionInv, CoreIdle, HostTurn, TurnInv, Reading, Injecting, Loading, Opening
<1> QED BY <1>1, <1>2, <1>3, <1>4, <1>5 DEF Moving

(* What is worked on is the pair the host is owed.                         *)
PairStream == ProfileSame /\ PayloadSame /\ PairDataInv /\ DeliveredInv

(* A pair under way is never wholly shipped.                               *)
LEMMA ShippedLimit ==
  ASSUME FlowInv, CoreInv, state \in Running
  PROVE  Shipped \in Nat /\ OutputWords(batch) \in Nat /\ Shipped < OutputWords(batch)
<1>1. /\ output.coefficient_index \in 0..LastCoefficient /\ output.ciphertext \in Nat
      /\ output.component \in 0..1 /\ output.ciphertext < batch.count
  <2>1. /\ output.coefficient_index \in Nat /\ output.ciphertext \in Nat
        /\ output.component \in 0..1
    BY DEF CoreInv, BankInv
  <2>2. /\ coefficient_index \in 0..LastCoefficient /\ output.ciphertext < batch.count
        /\ output.coefficient_index \in {coefficient_index - 1, coefficient_index}
    BY DEF FlowInv, DrainInv, InputInv
  <2> QED BY <2>1, <2>2, CoreAssumption DEF LastCoefficient
<1>2. batch.count \in Nat \ {0}
  BY FlowNumbers
<1>3. PICK c \in Nat \ {0}, size \in Nat \ {0} : c = batch.count /\ size = N
  BY <1>2, CoreAssumption
<1>4. PICK k \in Nat, x \in Nat, e \in 0..1 :
        k = output.coefficient_index /\ x = output.ciphertext /\ e = output.component
  BY <1>1
<1>5. x + 1 <= c /\ k + 1 <= size
  BY <1>1, <1>3, <1>4 DEF LastCoefficient
<1>6. PICK m \in Nat : size = k + 1 + m
  <2>1. size - (k + 1) \in Nat /\ size = k + 1 + (size - (k + 1))
    BY <1>5
  <2> QED BY <2>1
<1>7. size * c = k * c + c + m * c /\ m * c \in Nat /\ k * c \in Nat /\ size * c \in Nat
  BY <1>6
<1>8. Shipped = 2 * (k * c + x) + e
  BY <1>3, <1>4 DEF Shipped, OutputPlace, Row
<1>9. OutputWords(batch) = 2 * (size * c)
  <2>1. OutputWords(batch) = (2 * size) * c
    BY <1>3 DEF OutputWords
  <2> QED BY <2>1, <1>3
<1> QED BY <1>5, <1>7, <1>8, <1>9

(* When the host has every word of a session, the wrapper has closed it.   *)
LEMMA BetweenIsClosed ==
  ASSUME FlowInv, CoreInv, SessionInv, HostTurn, DeliveredInv, Between, frame.kind = "none"
  PROVE  ~session.active /\ session.expected = 0 /\ session_state = "IDLE"
<1>1. /\ JobsInv /\ FrameInv /\ TurnInv /\ TableSame /\ CountsSame /\ PairInv /\ ChildInv
  BY DEF HostTurn, SessionInv
<1>2. ~session.active
  <2> SUFFICES ASSUME session.active PROVE FALSE
    OBVIOUS
  <2>1. /\ jobs # <<>> /\ jobs[1].counts \in FitCounts /\ host_table # <<>>
        /\ Len(host_table) \in Nat
    BY <1>1, JobsFit DEF TurnInv
  <2>2. PICK words \in Nat \ {0} : words = PairWords
    <3>1. jobs[1].counts.count \in Nat \ {0}
      BY <2>1, CoreAssumption DEF FitCounts
    <3>2. PICK c \in Nat \ {0}, size \in Nat \ {0} : c = jobs[1].counts.count /\ size = N
      BY <3>1, CoreAssumption
    <3>3. PairWords = (2 * size) * c
      BY <3>2 DEF PairWords, OutputWords
    <3>4. \A x, y \in Nat \ {0} : (2 * x) * y \in Nat \ {0}
      OBVIOUS
    <3> QED BY <3>2, <3>3, <3>4
  <2>3. PICK e \in Nat, n \in Nat : e = session.expected /\ n = Len(host_table)
    BY <1>1, <2>1 DEF PairInv
  <2>4. e + 1 <= n
    <3>1. table.ready /\ table.loaded = Len(host_table)
      BY <1>1, <2>1 DEF TableSame
    <3> QED BY <1>1, <2>3, <3>1 DEF PairInv
  <2>5. PICK s \in Nat : s < words /\ delivered = e * words + s
    <3>1. CASE session_state \in Moving
      <4>1. state \in Running /\ batch = jobs[1].counts
        BY <1>1, <3>1 DEF ChildInv, CountsSame, Moving, Running, InputDone
      <4>2. Shipped \in Nat /\ Shipped < words
        BY <2>2, <4>1, ShippedLimit DEF PairWords
      <4> QED BY <2>2, <2>3, <3>1, <4>2 DEF DeliveredInv
    <3>2. CASE session_state \notin Moving
      BY <2>2, <2>3, <3>2 DEF DeliveredInv
    <3> QED BY <3>1, <3>2
  <2>6. delivered = n * words
    BY <2>1, <2>2, <2>3 DEF Between, SessionWords, PairWords
  <2>7. PICK m \in Nat : n = e + 1 + m
    <3>1. n - (e + 1) \in Nat /\ n = e + 1 + (n - (e + 1))
      BY <2>4
    <3> QED BY <3>1
  <2>8. n * words = e * words + words + m * words /\ m * words \in Nat /\ e * words \in Nat
    BY <2>7
  <2> QED BY <2>5, <2>6, <2>8
<1>3. session_state \notin Loading \union Opening \union Injecting \union Moving
  BY <1>1, <1>2 DEF TurnInv, InPair, PairInv
<1>4. session_state = "IDLE"
  BY <1>1, <1>3 DEF SessionInv, CoreIdle, TurnInv, Injecting, Opening, Loading
<1> QED BY <1>1, <1>2, <1>4 DEF PairInv

(* What the host chooses between frames is what the wrapper is ready for.  *)
LEMMA TableChosen ==
  ASSUME WellBehaved, FlowInv, CoreInv, SessionInv, HostTurn, PairStream, StartTable
  PROVE  HostTurn' /\ PairStream' /\ Between /\ session_state = "IDLE"
<1>1. /\ frame.kind = "none" /\ Between
      /\ UNCHANGED <<coreVars, wrapperVars, sent>>
      /\ jobs' = <<>> /\ frames' = frames + 1
  BY DEF StartTable, Begin, WellBehaved
<1>2. PICK t \in Tables :
        /\ host_table' = t /\ frame'.kind = "table" /\ frame'.value = t
        /\ frame'.fault = "none"
  BY DEF StartTable, Begin, WellBehaved
<1>3. t \in Seq(Profiles) /\ Len(t) \in 1..MaxPairCount /\ t # <<>>
  BY DEF WellBehaved
<1>4. ~session.active /\ session_state = "IDLE"
  BY <1>1, BetweenIsClosed DEF PairStream
<1>5. /\ UNCHANGED <<session_state, table, session, frame_counts, payload, fifo, injection>>
      /\ JobsInv /\ FrameInv
  BY <1>1 DEF wrapperVars, HostTurn
<1>6. session_state \notin Loading \union Opening \union Injecting \union Moving
  BY <1>4 DEF Loading, Opening, Injecting, Moving
<1>7. JobsInv'
  <2>1. frames' \in Nat
    BY <1>1, <1>5 DEF JobsInv
  <2>2. jobs' \in Seq([frame : Nat, counts : FitCounts, profile : Profiles]) /\ Len(jobs') = 0
    BY <1>1
  <2> QED BY <1>2, <1>3, <2>1, <2>2, MaxPairAssumption DEF JobsInv
<1>8. FrameInv' /\ sent' = 0
  BY <1>1, <1>2, <1>3, <1>5 DEF FrameInv
<1>9. TurnInv'
  <2>1. ~InPair'
    BY <1>4, <1>5, <1>6 DEF InPair
  <2> QED BY <1>1, <1>2, <1>4, <1>5, <1>6, <1>8, <2>1 DEF TurnInv, Opening, Moving
<1>10. TableSame' /\ CountsSame'
  BY <1>1, <1>2, <1>4, <1>5, <1>6 DEF TableSame, CountsSame, Loading, Opening
<1>11. ProfileSame' /\ PayloadSame' /\ DeliveredInv'
  BY <1>2, <1>4, <1>5, <1>6 DEF ProfileSame, PayloadSame, DeliveredInv, Injecting, Moving
<1>12. PairDataInv'
  <2>1. MemoryShape' /\ GapInv' /\ output' = output
    BY <1>1 DEF coreVars, protocolVars, outputVars, evalVars, bvVars, MemoryShape, GapInv,
       PairStream, PairDataInv
  <2> QED BY <1>5, <1>6, <2>1 DEF PairStream, PairDataInv
<1> QED BY <1>1, <1>4, <1>7, <1>8, <1>9, <1>10, <1>11, <1>12 DEF HostTurn, PairStream

(* A session opens on a wrapper that expects its first pair.               *)
LEMMA SessionChosen ==
  ASSUME WellBehaved, FlowInv, CoreInv, SessionInv, HostTurn, PairStream, StartSession
  PROVE  /\ HostTurn' /\ PairStream' /\ Between /\ session_state = "IDLE"
         /\ host_table # <<>> /\ UNCHANGED host_table
         /\ Len(jobs') = 1 /\ jobs'[1].profile = host_table[1] /\ delivered' = 0
<1>1. /\ frame.kind = "none" /\ Between /\ host_table # <<>>
      /\ UNCHANGED <<coreVars, wrapperVars, sent, host_table>>
      /\ delivered' = 0 /\ frames' = frames + 1
  BY DEF StartSession, Begin, WellBehaved
<1>2. PICK counts \in Counts :
        /\ jobs' = <<Job(0, counts)>> /\ frame'.kind = "pair" /\ frame'.value = counts
        /\ frame'.fault = "none" /\ frame'.pair = 0 /\ frame'.id = frames + 1
  BY DEF StartSession, Begin, WellBehaved
<1>3. ~session.active /\ session_state = "IDLE" /\ session.expected = 0
  BY <1>1, BetweenIsClosed DEF PairStream
<1>4. /\ UNCHANGED <<session_state, table, session, frame_counts, payload, fifo, injection>>
      /\ JobsInv /\ FrameInv /\ TurnInv /\ TableSame /\ CountsSame
  BY <1>1 DEF wrapperVars, HostTurn
<1>5. session_state \notin Loading \union Opening \union Injecting \union Moving
  BY <1>3 DEF Loading, Opening, Injecting, Moving
<1>6. /\ Len(jobs') = 1 /\ jobs'[1].frame = frames + 1 /\ jobs'[1].counts = counts
      /\ jobs'[1].profile = host_table[1] /\ counts \in FitCounts
      /\ jobs' \in Seq([frame : Nat, counts : FitCounts, profile : Profiles])
  <2>1. counts \in FitCounts /\ frames + 1 \in Nat /\ host_table[1] \in Profiles
    BY <1>1, <1>4 DEF WellBehaved, JobsInv
  <2>2. PICK job : job = Job(0, counts)
    OBVIOUS
  <2>3. /\ job.frame = frames + 1 /\ job.counts = counts /\ job.profile = host_table[1]
        /\ job \in [frame : Nat, counts : FitCounts, profile : Profiles]
    BY <2>1, <2>2 DEF Job
  <2>4. PICK S : S = [frame : Nat, counts : FitCounts, profile : Profiles]
    OBVIOUS
  <2>5. jobs' = <<job>> /\ job \in S
    BY <1>2, <2>2, <2>3, <2>4
  <2>6. Len(jobs') = 1 /\ jobs'[1] = job /\ jobs' \in Seq(S)
    BY <2>5
  <2> QED BY <2>1, <2>3, <2>4, <2>6
<1>7. JobsInv'
  <2>1. frames' \in Nat /\ Len(host_table) >= 1
    BY <1>1, <1>4 DEF JobsInv
  <2>2. \A i \in 1..Len(jobs') :
          jobs'[i].counts = jobs'[1].counts /\ jobs'[i].profile = host_table'[i]
    BY <1>1, <1>6
  <2> QED BY <1>1, <1>4, <1>6, <2>1, <2>2 DEF JobsInv
<1>8. FrameInv' /\ sent' = 0
  BY <1>1, <1>2, <1>4, <1>6 DEF FrameInv
<1>9. TurnInv'
  <2>1. ~InPair' /\ Behind' = 0
    BY <1>3, <1>4, <1>5 DEF InPair, Behind
  <2> QED BY <1>1, <1>2, <1>3, <1>4, <1>5, <1>8, <2>1 DEF TurnInv, Opening, Moving
<1>10. TableSame' /\ CountsSame'
  BY <1>1, <1>2, <1>3, <1>4, <1>5 DEF TableSame, CountsSame, Loading, Opening, Entry
<1>11. ProfileSame' /\ PayloadSame'
  BY <1>4, <1>5 DEF ProfileSame, PayloadSame, Injecting, Moving
<1>12. DeliveredInv'
  <2>1. PairWords' \in Nat
    <3>1. PICK c \in Nat, size \in Nat : c = jobs'[1].counts.count /\ size = N
      BY <1>6, CoreAssumption DEF FitCounts
    <3>2. PairWords' = (2 * size) * c
      BY <3>1 DEF PairWords, OutputWords
    <3> QED BY <3>2
  <2> QED BY <1>1, <1>3, <1>4, <1>5, <2>1 DEF DeliveredInv
<1>13. PairDataInv'
  <2>1. MemoryShape' /\ GapInv' /\ output' = output
    BY <1>1 DEF coreVars, protocolVars, outputVars, evalVars, bvVars, MemoryShape, GapInv,
       PairStream, PairDataInv
  <2> QED BY <1>4, <1>5, <2>1 DEF PairStream, PairDataInv
<1> QED BY <1>1, <1>3, <1>6, <1>7, <1>8, <1>9, <1>10, <1>11, <1>12, <1>13
        DEF HostTurn, PairStream

(* The next pair of a session follows the one whose frame has been read.   *)
LEMMA PairChosen ==
  ASSUME WellBehaved, FlowInv, CoreInv, SessionInv, HostTurn, PairStream, StartPair
  PROVE  /\ HostTurn' /\ PairStream' /\ session.active
         /\ session_state \notin Injecting /\ ~InPair
         /\ Len(jobs') = Len(jobs) + 1 /\ Len(jobs) < Len(host_table)
         /\ \A i \in 1..Len(jobs) : jobs'[i] = jobs[i]
         /\ jobs'[Len(jobs')].profile = host_table[Len(jobs')]
         /\ jobs'[Len(jobs')].counts = jobs[1].counts
         /\ UNCHANGED <<host_table, delivered>>
<1> DEFINE job == Job(Len(jobs), jobs[1].counts)
<1>1. /\ frame.kind = "none" /\ jobs # <<>> /\ Len(jobs) < Len(host_table)
      /\ UNCHANGED <<coreVars, wrapperVars, sent, host_table, delivered>>
      /\ frames' = frames + 1 /\ jobs' = Append(jobs, job)
  BY DEF StartPair, Begin
<1>2. /\ frame'.kind = "pair" /\ frame'.value = jobs[1].counts /\ frame'.fault = "none"
      /\ frame'.pair = Len(jobs) /\ frame'.id = frames + 1
  BY DEF StartPair, Begin, WellBehaved
<1>3. /\ UNCHANGED <<session_state, table, session, frame_counts, payload, fifo, injection>>
      /\ UNCHANGED <<profile, batch>>
      /\ JobsInv /\ FrameInv /\ TurnInv /\ TableSame /\ CountsSame /\ PairInv
  BY <1>1 DEF wrapperVars, coreVars, protocolVars, HostTurn, SessionInv
<1>4. /\ job.frame = frames + 1 /\ job.counts = jobs[1].counts
      /\ job.profile = host_table[Len(jobs) + 1]
  BY DEF Job
<1>5. /\ Len(jobs) \in Nat \ {0} /\ Len(host_table) \in Nat /\ jobs[1].counts \in FitCounts
      /\ \A i \in 1..Len(jobs) :
           jobs[i].counts = jobs[1].counts /\ jobs[i].profile = host_table[i]
  BY <1>1, <1>3, JobsFit
<1>6. job \in [frame : Nat, counts : FitCounts, profile : Profiles]
  <2>1. frames + 1 \in Nat
    BY <1>3 DEF JobsInv
  <2>2. host_table[Len(jobs) + 1] \in Profiles
    <3>1. PICK i \in 1..Len(host_table) : i = Len(jobs) + 1
      BY <1>1, <1>5
    <3>2. host_table \in Seq(Profiles)
      BY <1>3 DEF JobsInv
    <3>3. host_table[i] \in Profiles
      BY <3>1, <3>2
    <3> QED BY <3>1, <3>3
  <2> QED BY <1>5, <2>1, <2>2 DEF Job
<1>7. /\ Len(jobs') = Len(jobs) + 1 /\ jobs'[Len(jobs) + 1] = job
      /\ \A i \in 1..Len(jobs) : jobs'[i] = jobs[i]
      /\ jobs' \in Seq([frame : Nat, counts : FitCounts, profile : Profiles])
  <2>1. PICK S : S = [frame : Nat, counts : FitCounts, profile : Profiles]
    OBVIOUS
  <2>2. jobs \in Seq(S) /\ job \in S
    BY <1>3, <1>6, <2>1 DEF JobsInv
  <2> HIDE DEF job
  <2>3. /\ Len(jobs') = Len(jobs) + 1 /\ jobs'[Len(jobs) + 1] = job
        /\ \A i \in 1..Len(jobs) : jobs'[i] = jobs[i]
        /\ jobs' \in Seq(S)
    BY <1>1, <2>2
  <2> QED BY <2>1, <2>3
<1>8. jobs'[1] = jobs[1] /\ jobs' # <<>>
  BY <1>1, <1>5, <1>7
<1> HIDE DEF job
<1>9. session.active
  BY <1>1, <1>3, <1>5 DEF TurnInv, Between
<1>10. Len(jobs) = Behind /\ ~InPair /\ session_state \notin Loading
  BY <1>1, <1>3, <1>9 DEF TurnInv
<1>11. session_state \notin Opening \union Injecting
  BY <1>10 DEF InPair
<1>12. /\ Len(jobs) = IF session_state \in Moving THEN session.expected + 1 ELSE session.expected
       /\ session.expected \in Nat
  BY <1>3, <1>10 DEF Behind, PairInv
<1>13. JobsInv'
  <2>1. frames' \in Nat /\ Len(jobs') <= Len(host_table)
    BY <1>1, <1>3, <1>5, <1>7 DEF JobsInv
  <2>2. \A i \in 1..Len(jobs') :
          jobs'[i].counts = jobs'[1].counts /\ jobs'[i].profile = host_table'[i]
    <3> SUFFICES ASSUME NEW i \in 1..Len(jobs')
                 PROVE  jobs'[i].counts = jobs'[1].counts
                        /\ jobs'[i].profile = host_table'[i]
      OBVIOUS
    <3>1. CASE i \in 1..Len(jobs)
      BY <1>1, <1>5, <1>7, <1>8, <3>1
    <3>2. CASE i = Len(jobs) + 1
      BY <1>1, <1>4, <1>7, <1>8, <3>2
    <3> QED BY <1>5, <1>7, <3>1, <3>2
  <2> QED BY <1>1, <1>3, <1>7, <2>1, <2>2 DEF JobsInv
<1>14. FrameInv' /\ sent' = 0
  BY <1>1, <1>2, <1>3, <1>4, <1>5, <1>7, <1>8 DEF FrameInv
<1>15. TurnInv'
  <2>1. ~InPair' /\ Behind' = Behind
    BY <1>3, <1>10 DEF InPair, Behind
  <2>2. session_state = "FORWARD_PAIR_DATA" => payload.complete
    BY <1>10 DEF InPair
  <2> QED BY <1>2, <1>3, <1>8, <1>10, <1>11, <1>14, <2>1, <2>2 DEF TurnInv, Opening
<1>16. TableSame'
  BY <1>1, <1>2, <1>3, <1>10 DEF TableSame, Loading, Entry
<1>17. CountsSame'
  BY <1>3, <1>8 DEF CountsSame
<1>18. session_state \in Moving => Owed' = Owed
  <2>1. PICK i : i = Len(jobs)
    OBVIOUS
  <2>2. i \in 1..Len(jobs) /\ jobs'[i] = jobs[i]
    BY <1>5, <1>7, <2>1
  <2>3. session_state \in Moving => session.expected + 1 = i
    BY <1>12, <2>1
  <2> QED BY <1>3, <2>2, <2>3 DEF Owed
<1>19. ProfileSame'
  BY <1>3, <1>11, <1>18 DEF ProfileSame, PairStream, Injecting
<1>20. Consumed' = Consumed
  BY <1>1 DEF coreVars, protocolVars, Consumed, CoefficientPosition
<1>21. PayloadSame'
  BY <1>3, <1>18, <1>20 DEF PayloadSame, PairStream, Moving
<1>22. PairDataInv'
  <2>1. MemoryShape' /\ GapInv' /\ output' = output
    BY <1>1 DEF coreVars, protocolVars, outputVars, evalVars, bvVars, MemoryShape, GapInv,
       PairStream, PairDataInv
  <2>2. session_state \in Moving => \A id : id = Owed.frame => DataInv(id)'
    BY <1>1, DataRests DEF PairStream, PairDataInv
  <2>3. session_state \in Moving => (\A id : id = Owed.frame => DataInv(id))'
    BY <1>18, <2>2
  <2> QED BY <1>3, <2>1, <2>3 DEF PairStream, PairDataInv
<1>23. DeliveredInv'
  <2>1. Shipped' = Shipped /\ PairWords' = PairWords
    BY <1>1, <1>8 DEF coreVars, protocolVars, outputVars, Shipped, OutputPlace, Row,
       PairWords, OutputWords
  <2> QED BY <1>1, <1>3, <1>9, <2>1 DEF DeliveredInv, PairStream
<1> QED BY <1>1, <1>4, <1>7, <1>9, <1>10, <1>11, <1>13, <1>14, <1>15, <1>16, <1>17, <1>19,
           <1>21, <1>22, <1>23 DEF HostTurn, PairStream

(* At power-on, and at every reset, both begin anew.                       *)
LEMMA TurnStarts ==
  /\ Init => HostTurn /\ PairStream
  /\ MemoryShape /\ frames \in Nat /\ Reset => HostTurn' /\ PairStream'
<1>1. /\ "IDLE" \notin Loading \union Opening \union Injecting \union Moving
      /\ Len(<<>>) = 0
      /\ <<>> \in Seq(Profiles)
      /\ <<>> \in Seq([frame : Nat, counts : FitCounts, profile : Profiles])
  BY DEF Loading, Opening, Injecting, Moving
<1>2. ASSUME Init PROVE HostTurn /\ PairStream
  <2>1. /\ session_state = "IDLE" /\ session = ResetSession /\ CoreInit
        /\ output = IdleOutput /\ frame = NoFrame /\ sent = 0 /\ frames = 0
        /\ host_table = <<>> /\ jobs = <<>>
    BY <1>2 DEF Init, SessionInit, CoreInit
  <2>2. ~InPair
    BY <1>1, <2>1 DEF InPair
  <2>3. JobsInv /\ FrameInv
    BY <1>1, <2>1, MaxPairAssumption DEF JobsInv, FrameInv, NoFrame
  <2>4. TurnInv
    BY <1>1, <2>1, <2>2 DEF TurnInv, NoFrame, ResetSession, Between, Opening, Moving
  <2>5. TableSame /\ CountsSame
    BY <1>1, <2>1 DEF TableSame, CountsSame, ResetSession
  <2>6. ProfileSame /\ PayloadSame /\ DeliveredInv
    BY <1>1, <2>1 DEF ProfileSame, PayloadSame, DeliveredInv, ResetSession, NoFrame, Injecting,
       Moving
  <2>7. PairDataInv
    <3>1. MemoryShape /\ GapInv
      <4>1. PICK id : id = 0
        OBVIOUS
      <4>2. DataInv(id)
        BY <2>1, DataStarts
      <4> QED BY <4>2 DEF DataInv
    <3> QED BY <1>1, <2>1, <3>1 DEF PairDataInv, IdleOutput
  <2> QED BY <2>3, <2>4, <2>5, <2>6, <2>7 DEF HostTurn, PairStream
<1>3. ASSUME MemoryShape, frames \in Nat, Reset PROVE HostTurn' /\ PairStream'
  <2>1. /\ session_state' = "IDLE" /\ session' = ResetSession /\ CoreReset
        /\ output' = IdleOutput /\ frame' = NoFrame /\ sent' = 0 /\ frames' = frames
        /\ host_table' = <<>> /\ jobs' = <<>>
    BY <1>3 DEF Reset, SessionReset, CoreReset
  <2>2. ~InPair'
    BY <1>1, <2>1 DEF InPair
  <2>3. JobsInv' /\ FrameInv'
    BY <1>1, <1>3, <2>1, MaxPairAssumption DEF JobsInv, FrameInv, NoFrame
  <2>4. TurnInv'
    BY <1>1, <2>1, <2>2 DEF TurnInv, NoFrame, ResetSession, Between, Opening, Moving
  <2>5. TableSame' /\ CountsSame'
    BY <1>1, <2>1 DEF TableSame, CountsSame, ResetSession
  <2>6. ProfileSame' /\ PayloadSame' /\ DeliveredInv'
    BY <1>1, <2>1 DEF ProfileSame, PayloadSame, DeliveredInv, ResetSession, NoFrame, Injecting,
       Moving
  <2>7. PairDataInv'
    <3>1. MemoryShape' /\ GapInv'
      <4>1. PICK id : id = 0
        OBVIOUS
      <4>2. DataInv(id)'
        BY <1>3, <2>1, DataStarts
      <4> QED BY <4>2 DEF DataInv
    <3> QED BY <1>1, <2>1, <3>1 DEF PairDataInv, IdleOutput
  <2> QED BY <2>3, <2>4, <2>5, <2>6, <2>7 DEF HostTurn, PairStream
<1> QED BY <1>2, <1>3

-----------------------------------------------------------------------------
(* The data of a pair, clock by clock.                                     *)

(* A frame read up to its index makes the wrapper inject, no sooner.       *)
LEMMA ReadingNext ==
  ASSUME WellBehaved, SourceSized, FlowInv, SessionInv, HostTurn,
         NEW word \in Offered, NEW ready, Tick(word, ready), session_state \in Reading
  PROVE  session_state' \in Reading \union {"INJECT_PROFILE_COMMAND"}
<1>1. SessionProtocol(word, ready)
  BY DEF Tick, SessionClock
<1>2. CASE ~Received(word)
  BY <1>1, <1>2, NothingRead
<1>3. CASE Received(word)
  BY <1>1, <1>3, NothingRefused DEF WrapperReads, Reading, Loading, Opening
<1> QED BY <1>2, <1>3

(* The pair being worked on is one of the host's, under its own profile.   *)
LEMMA OwedIsJob ==
  ASSUME SessionInv, HostTurn, session_state \in Injecting \union Moving
  PROVE  /\ session.active /\ session.current = session.expected
         /\ session.expected \in Nat /\ session.expected + 1 \in 1..Len(jobs)
         /\ Owed \in [frame : Nat, counts : FitCounts, profile : Profiles]
         /\ Owed.counts = jobs[1].counts
         /\ Owed.profile = host_table[session.expected + 1]
         /\ table.modulus[session.expected] = Owed.profile
         /\ table.mu[session.expected] = Owed.profile
         /\ InPair => frame.id = Owed.frame
         /\ jobs # <<>> /\ Len(jobs) \in Nat
<1>1. JobsInv /\ FrameInv /\ TurnInv /\ TableSame /\ PairInv
  BY DEF HostTurn, SessionInv
<1>2. session.active /\ session.current = session.expected /\ session.expected \in Nat
  BY <1>1 DEF PairInv
<1>3. jobs # <<>> /\ frame.kind # "table"
  BY <1>1, <1>2 DEF TurnInv
<1>4. /\ Len(jobs) \in Nat /\ Len(host_table) \in Nat /\ host_table # <<>>
      /\ Len(jobs) <= Len(host_table)
      /\ \A i \in 1..Len(jobs) :
           /\ jobs[i] \in [frame : Nat, counts : FitCounts, profile : Profiles]
           /\ jobs[i].counts = jobs[1].counts /\ jobs[i].profile = host_table[i]
  BY <1>1, <1>3, JobsFit DEF JobsInv
<1>5. Behind \in {session.expected, session.expected + 1} /\ (InPair => Behind = session.expected)
  BY DEF Behind
<1>6. ~InPair => Behind = session.expected + 1
  BY DEF Behind, InPair
<1>7. frame.kind = "pair" => Len(jobs) = Behind + 1 /\ frame.id = jobs[Len(jobs)].frame
  BY <1>1, <1>4 DEF TurnInv, FrameInv
<1>8. frame.kind = "none" => Len(jobs) = Behind
  BY <1>1, <1>2 DEF TurnInv
<1>9. InPair => frame.kind = "pair"
  BY <1>1 DEF TurnInv
<1>10. frame.kind \in {"none", "pair"}
  BY <1>1, <1>3 DEF FrameInv
<1>11. session.expected + 1 \in 1..Len(jobs) /\ (InPair => Len(jobs) = session.expected + 1)
  BY <1>2, <1>4, <1>5, <1>6, <1>7, <1>8, <1>9, <1>10
<1>12. PICK i \in 1..Len(jobs) : i = session.expected + 1
  BY <1>11
<1>13. Owed = jobs[i] /\ (InPair => i = Len(jobs))
  BY <1>11, <1>12 DEF Owed
<1>14. Entry(session.expected)
  <2>1. PICK pair \in 0..(Len(host_table) - 1) : pair = session.expected
    BY <1>2, <1>4, <1>11
  <2>2. Entry(pair)
    BY <1>1, <1>3, <1>4, <2>1 DEF TableSame
  <2> QED BY <2>1, <2>2
<1>15. host_table[session.expected + 1] = Owed.profile
  BY <1>4, <1>12, <1>13
<1> QED BY <1>2, <1>3, <1>4, <1>7, <1>9, <1>11, <1>13, <1>14, <1>15 DEF Entry

(* What a header word leaves in the core's profile registers.              *)
LEMMA ProfileLoads ==
  ASSUME NEW word, NEW ready, Protocol(word, ready), GoodWord(word), Handshake(word),
         DOMAIN profile = {"q", "mu", "ready"}
  PROVE  /\ state = "PROFILE_Q" => profile'.q = word.value
         /\ state = "PROFILE_MU" => profile'.q = profile.q /\ profile'.mu = word.value
         /\ state = "BATCH_HEADER" => profile' = profile
<1>1. state = "PROFILE_Q" => profile' = [profile EXCEPT !.q = word.value]
  BY DEF Protocol, AcceptCommand, AcceptModuli, AcceptReciprocals, AcceptCounts,
     AcceptOperand, AcceptKey, AcceptDigit, Discard, WaitBank, FinishBatch, Hold, GoodWord
<1>2. state = "PROFILE_MU" => profile' = [profile EXCEPT !.mu = word.value, !.ready = TRUE]
  BY DEF Protocol, AcceptCommand, AcceptModuli, AcceptReciprocals, AcceptCounts,
     AcceptOperand, AcceptKey, AcceptDigit, Discard, WaitBank, FinishBatch, Hold, GoodWord
<1>3. state = "BATCH_HEADER" => profile' = profile
  BY DEF Protocol, AcceptCommand, AcceptModuli, AcceptReciprocals, AcceptCounts,
     AcceptOperand, AcceptKey, AcceptDigit, Discard, WaitBank, FinishBatch, Hold, GoodWord
<1> QED BY <1>1, <1>2, <1>3

(* The header words injected load the profile of the pair's own entry.     *)
LEMMA InjectedProfile ==
  ASSUME FlowInv, SessionInv, HostTurn, ProfileSame,
         NEW word \in Offered, NEW ready, Tick(word, ready), session_state \in Injecting
  PROVE  /\ ProfileSame'
         /\ session_state' = "FORWARD_PAIR_DATA" => accepted_batch_header(core_word)
<1>1. /\ InputInv /\ Protocol(core_word, ready) /\ GoodWord(core_word)
      /\ core_word = injection.word /\ DOMAIN profile = {"q", "mu", "ready"}
      /\ SessionProtocol(word, ready)
  BY CoreWordIsGood DEF FlowInv, Tick, SessionClock, Clock, SessionInv, ChildInv
<1>2. PICK p : p = Owed.profile
  OBVIOUS
<1>3. table.modulus[session.current] = p /\ table.mu[session.current] = p
  BY <1>2, OwedIsJob
<1>4. InjectHeaders \/ Waiting(word, ready)
  BY <1>1 DEF SessionProtocol, ReceiveCommand, ReceivePairCount, ReceiveModuli,
     ReceiveReciprocals, ReceiveCounts, ReceivePairIndex, ForwardPairData, WaitPairOutput,
     DiscardFrame, Injecting
<1>5. UNCHANGED session /\ Owed' = Owed
  BY <1>4 DEF InjectHeaders, Injected, Waiting, Tick, Owed
<1>6. SUFFICES /\ session_state' = "INJECT_PROFILE_Q" => injection'.word.value = p
               /\ session_state' = "INJECT_PROFILE_MU" =>
                    injection'.word.value = p /\ profile'.q = p
               /\ session_state' \in {"INJECT_BATCH_COMMAND", "INJECT_BATCH_COUNT"}
                                       \union Moving =>
                    profile'.q = p /\ profile'.mu = p
               /\ session_state' = "FORWARD_PAIR_DATA" => accepted_batch_header(core_word)
  BY <1>2, <1>5 DEF ProfileSame
<1>7. CASE Injected("INJECT_PROFILE_COMMAND", "INJECT_PROFILE_Q") /\ InjectHeaders
  <2>1. session_state = "INJECT_PROFILE_COMMAND" /\ session_state' = "INJECT_PROFILE_Q"
    BY <1>7 DEF Injected, Enter
  <2>2. Inject("moduli", table.modulus[session.current], FALSE)
    BY <2>1 , <1>7 DEF InjectHeaders, Injected
  <2>3. injection'.word.value = p
    BY <1>3, <2>2 DEF Inject
  <2> QED BY <2>1, <2>3 DEF Moving
<1>8. CASE Injected("INJECT_PROFILE_Q", "INJECT_PROFILE_MU") /\ InjectHeaders
  <2>1. /\ session_state = "INJECT_PROFILE_Q" /\ session_state' = "INJECT_PROFILE_MU"
        /\ Handshake(core_word)
    BY <1>8 DEF Injected, Enter
  <2>2. Inject("reciprocals", table.mu[session.current], TRUE)
    BY <2>1, <1>8 DEF InjectHeaders, Injected
  <2>3. injection'.word.value = p
    BY <1>3, <2>2 DEF Inject
  <2>4. state = "PROFILE_Q" /\ core_word.value = p
    BY <1>1, <1>2, <2>1 DEF SessionInv, ChildInv, ProfileSame
  <2>5. profile'.q = p
    BY <1>1, <2>1, <2>4, ProfileLoads
  <2> QED BY <2>1, <2>3, <2>5 DEF Moving
<1>9. CASE Injected("INJECT_PROFILE_MU", "INJECT_BATCH_COMMAND")
  <2>1. /\ session_state = "INJECT_PROFILE_MU" /\ session_state' = "INJECT_BATCH_COMMAND"
        /\ Handshake(core_word)
    BY <1>9 DEF Injected, Enter
  <2>2. state = "PROFILE_MU" /\ core_word.value = p /\ profile.q = p
    BY <1>1, <1>2, <2>1 DEF SessionInv, ChildInv, ProfileSame
  <2>3. profile'.q = p /\ profile'.mu = p
    BY <1>1, <2>1, <2>2, ProfileLoads
  <2> QED BY <2>1, <2>3
<1>10. CASE Injected("INJECT_BATCH_COMMAND", "INJECT_BATCH_COUNT")
  <2>1. /\ session_state = "INJECT_BATCH_COMMAND" /\ session_state' = "INJECT_BATCH_COUNT"
        /\ Handshake(core_word)
    BY <1>10 DEF Injected, Enter
  <2>2. state = "IDLE"
    BY <2>1 DEF SessionInv, ChildInv, CoreIdle
  <2>3. profile.q = p /\ profile.mu = p /\ UNCHANGED profile
    BY <1>1, <1>2, <2>1, <2>2, HeaderStep DEF ProfileSame
  <2> QED BY <2>1, <2>3
<1>11. CASE Injected("INJECT_BATCH_COUNT", "FORWARD_PAIR_DATA")
  <2>1. /\ session_state = "INJECT_BATCH_COUNT" /\ session_state' = "FORWARD_PAIR_DATA"
        /\ Handshake(core_word)
    BY <1>11 DEF Injected, Enter
  <2>2. state = "BATCH_HEADER"
    BY <2>1 DEF SessionInv, ChildInv
  <2>3. profile.q = p /\ profile.mu = p /\ profile' = profile
    BY <1>1, <1>2, <2>1, <2>2, ProfileLoads DEF ProfileSame
  <2>4. accepted_batch_header(core_word)
    BY <1>1, <2>1, <2>2 DEF GoodWord, accepted_batch_header
  <2> QED BY <2>1, <2>3, <2>4
<1>12. CASE Waiting(word, ready)
  <2>1. /\ UNCHANGED <<session_state, injection>> /\ ~Handshake(core_word) /\ state \in Idling
        /\ session_state \notin Moving
    BY <1>12 DEF Waiting, Injecting, Moving, SessionInv, ChildInv, CoreIdle, Idling
  <2>2. UNCHANGED profile
    BY <1>1, <2>1, HeaderStep
  <2> QED BY <1>2, <2>1, <2>2 DEF ProfileSame, Moving
<1> QED BY <1>4, <1>7, <1>8, <1>9, <1>10, <1>11, <1>12 DEF InjectHeaders

(* While no payload moves the core shows nothing; a header it takes resets *)
(* its output.                                                             *)
LEMMA OutputRests ==
  ASSUME FlowInv, CoreInv, SessionInv, session_state \notin Moving, output.component = 0,
         NEW word, NEW ready, OutputScheduler(word, ready)
  PROVE  /\ ~output'.active /\ output'.component = 0
         /\ accepted_batch_header(word) => output' = IdleOutput
<1>1. ~output.active /\ RestInv /\ BankInv
  BY Quiet DEF CoreInv
<1>2. CASE accepted_batch_header(word)
  BY <1>2 DEF OutputScheduler, IdleOutput
<1>3. CASE ~accepted_batch_header(word)
  <2>1. \A bank \in Banks : ~bank_ready[bank]
    BY <1>1 DEF RestInv
  <2>2. output.coefficient_index % 2 \in Banks
    BY <1>1 DEF BankInv, Banks
  <2>3. output' = output
    BY <1>1, <1>3, <2>1, <2>2 DEF OutputScheduler
  <2> QED BY <1>1, <1>3, <2>3
<1> QED BY <1>2, <1>3

(* The pair that is owed stays the same while its payload moves.           *)
LEMMA OwedStays ==
  ASSUME WellBehaved, SourceSized, CoreInv, FlowInv, SessionInv, SessionInv', HostTurn,
         PairDataInv, DeliveredInv,
         NEW word \in Offered, NEW ready, Tick(word, ready), session_state' \in Moving
  PROVE  /\ Owed' = Owed /\ UNCHANGED session /\ jobs' = jobs
         /\ session_state \in Injecting \union Moving
         /\ session_state = "WAIT_PAIR_OUTPUT" => ~Finishes(ready)
<1>1. jobs' = jobs
  BY DEF Tick
<1>2. session_state \in Reading \union Injecting \union Moving
  BY DEF SessionInv, CoreIdle, HostTurn, TurnInv, Reading, Injecting, Loading, Opening
<1>3. CASE session_state \in Reading
  BY <1>3, ReadingNext DEF Reading, Loading, Opening, Moving
<1>4. CASE session_state \in Injecting
  <2>1. UNCHANGED session
    BY <1>4, InjectingTurn
  <2> QED BY <1>1, <1>4, <2>1 DEF Owed, Injecting
<1>5. CASE session_state = "FORWARD_PAIR_DATA"
  <2>1. UNCHANGED session
    BY <1>5, ForwardMoves DEF Tick, SessionClock
  <2> QED BY <1>1, <1>5, <2>1 DEF Owed, Moving
<1>6. CASE session_state = "WAIT_PAIR_OUTPUT"
  <2>1. ~Finishes(ready) /\ UNCHANGED session
    BY <1>6, WaitTurn DEF Moving
  <2> QED BY <1>1, <1>6, <2>1 DEF Owed, Moving
<1> QED BY <1>2, <1>3, <1>4, <1>5, <1>6 DEF Moving

(* What the core reads of a payload is what the host's frame has there,    *)
(* so its data stays that of the pair owed.                                *)
LEMMA PairDataStep ==
  ASSUME WellBehaved, SourceSized, CoreInv, FlowInv, SessionInv, SessionInv', HostTurn,
         PairDataInv, PayloadSame, DeliveredInv,
         NEW word \in Offered, NEW ready, Tick(word, ready)
  PROVE  PairDataInv'
<1>1. /\ GoodWord(core_word) /\ Clock(core_word, ready) /\ MemoryShape /\ GapInv
      /\ ChildInv /\ PayloadInv
  BY CoreWordIsGood DEF FlowInv, Tick, SessionClock, PairDataInv, SessionInv
<1>2. MemoryShape' /\ GapInv'
  BY <1>1, ShapeStep, GapStep DEF Clock
<1>3. ~output'.active => output'.component = 0
  <2>1. CASE session_state \in Moving
    <3>1. state \in Running
      BY <1>1, <2>1 DEF ChildInv, Moving, Running, InputDone
    <3> QED BY <1>1, <3>1, ShippedStep DEF PairDataInv
  <2>2. CASE session_state \notin Moving
    <3>1. output.component = 0
      BY <2>2, Quiet DEF PairDataInv
    <3> QED BY <1>1, <2>2, <3>1, OutputRests DEF Clock
  <2> QED BY <2>1, <2>2
<1>4. session_state' \in Moving => \A id : id = Owed.frame => DataInv(id)'
  <2> SUFFICES ASSUME session_state' \in Moving, NEW id, id = Owed.frame PROVE DataInv(id)'
    OBVIOUS
  <2>1. CASE state \notin Running \/ Finishes(ready)
    BY <1>1, <2>1, DataBegins
  <2>2. CASE state \in Running /\ ~Finishes(ready)
    <3>1. session_state \in Moving
      BY <2>2, Quiet
    <3>2. DataInv(id)
      BY <3>1 DEF PairDataInv
    <3>3. GoodPayload(id, core_word)
      <4> SUFFICES ASSUME Handshake(core_word) PROVE core_word.value = Payload(id, Consumed)
        BY DEF GoodPayload
      <4>1. state # "WAIT_BATCH_OUTPUT"
        BY DEF Handshake, s_axis_tready
      <4>2. session_state = "FORWARD_PAIR_DATA"
        BY <1>1, <3>1, <4>1 DEF ChildInv, Moving
      <4>3. fifo # <<>> /\ core_word = Head(fifo)
        BY <4>2 DEF core_word, Handshake, NoWord
      <4>4. PICK S : fifo \in Seq(S)
        BY <1>1 DEF PayloadInv
      <4>5. core_word = fifo[1] /\ 1 \in 1..Len(fifo)
        BY <4>3, <4>4
      <4>6. fifo[1].value = Payload(Owed.frame, Consumed + 1 - 1)
        BY <4>2, <4>5 DEF PayloadSame
      <4>7. Consumed \in Nat
        BY <2>2, LastPositionHolds DEF FlowInv
      <4>8. Consumed + 1 - 1 = Consumed
        BY <4>7
      <4> QED BY <4>5, <4>6, <4>8
    <3> QED BY <1>1, <2>2, <3>2, <3>3, DataStep
  <2> QED BY <2>1, <2>2
<1>5. session_state' \in Moving => (\A id : id = Owed.frame => DataInv(id))'
  BY <1>4, OwedStays
<1> QED BY <1>2, <1>3, <1>5 DEF PairDataInv

(* The words waiting in the FIFO stay the ones the core reads next.        *)
LEMMA PayloadSameStep ==
  ASSUME WellBehaved, SourceSized, CoreInv, FlowInv, FlowInv', SessionInv, SessionInv',
         HostTurn, PairDataInv, PayloadSame, DeliveredInv,
         NEW word \in Offered, NEW ready, Tick(word, ready)
  PROVE  PayloadSame'
<1> DEFINE pop   == payload_dequeue
           push  == payload_enqueue(word)
           entry == [is |-> "payload", value |-> word.value, last |-> payload_final_word]
<1> SUFFICES ASSUME session_state' = "FORWARD_PAIR_DATA", NEW i \in 1..Len(fifo')
             PROVE  fifo'[i].value = Payload(Owed.frame, Consumed' + i - 1)
  <2>1. session_state' = "FORWARD_PAIR_DATA" => Owed' = Owed
    BY OwedStays DEF Moving
  <2> QED BY <2>1 DEF PayloadSame
<1>1. /\ PayloadInv /\ ChildInv /\ InputInv /\ Protocol(core_word, ready) /\ GoodWord(core_word)
      /\ fifo' = Push(fifo, pop, push, entry)
  BY CoreWordIsGood DEF FlowInv, Tick, SessionClock, Clock, SessionInv, PayloadFifo, Push
<1>2. PICK S : fifo \in Seq(S)
  BY <1>1 DEF PayloadInv
<1>3. CASE session_state # "FORWARD_PAIR_DATA"
  <2>1. fifo = <<>> /\ ~pop /\ ~push
    BY <1>1, <1>3 DEF PayloadInv, payload_dequeue, payload_enqueue
  <2>2. fifo' = <<>>
    BY <1>1, <2>1 DEF Push
  <2> QED BY <2>2
<1>4. CASE session_state = "FORWARD_PAIR_DATA"
  <2>1. /\ pop <=> Handshake(core_word)
        /\ pop => fifo # <<>>
        /\ push <=> Received(word)
    BY <1>4 DEF payload_dequeue, payload_enqueue, core_word, Handshake, NoWord
  <2>2. /\ state \in Running /\ state # "WAIT_BATCH_OUTPUT" /\ batch = frame_counts
        /\ Consumed + Len(fifo) + (IF payload.complete THEN 0 ELSE payload.remaining)
             = PayloadWords(batch)
    BY <1>1, <1>4 DEF ChildInv
  <2>3. ~Finishes(ready) /\ Consumed \in Nat
    BY <1>1, <2>2, LastPositionHolds DEF Finishes
  <2>4. Consumed' = Consumed + (IF Handshake(core_word) THEN 1 ELSE 0)
    BY <1>1, <2>2, <2>3, PositionStep
  <2>5. PICK c \in Nat, l \in Nat : c = Consumed /\ l = Len(fifo)
    BY <1>2, <2>3
  <2>6. pop => l > 0
    BY <1>2, <2>1, <2>5
  <2>7. PICK id : id = Owed.frame
    OBVIOUS
  <2>8. \A j \in 1..l : fifo[j].value = Payload(id, c + j - 1)
    BY <1>4, <2>5, <2>7 DEF PayloadSame
  <2>9. PICK p \in 0..1 : p = (IF pop THEN 1 ELSE 0)
    OBVIOUS
  <2>10. Consumed' = c + p
    <3>1. CASE pop
      BY <2>1, <2>4, <2>5, <2>9, <3>1
    <3>2. CASE ~pop
      BY <2>1, <2>4, <2>5, <2>9, <3>2
    <3> QED BY <3>1, <3>2
  <2>11. entry.value = word.value
    OBVIOUS
  <2>12. push => word.value = Payload(id, c + l)
    <3> SUFFICES ASSUME push PROVE word.value = Payload(id, c + l)
      OBVIOUS
    <3>1. Received(word) /\ ~payload.complete
      BY <2>1 DEF Received, session_tready, payload_enqueue
    <3>2. PICK r \in Nat : r = payload.remaining
      BY <1>1, <1>4 DEF PayloadInv
    <3>3. word.value = Payload(frame.id, PayloadWords(frame_counts) - r)
      BY <1>4, <3>1, <3>2, NextWord
    <3>4. c + l + r = PayloadWords(frame_counts)
      BY <2>2, <2>5, <3>1, <3>2
    <3>5. PayloadWords(frame_counts) - r = c + l
      BY <3>4
    <3>6. frame.id = id
      <4>1. InPair
        BY <1>4, <3>1 DEF InPair
      <4> QED BY <1>4, <2>7, <4>1, OwedIsJob DEF Moving
    <3> QED BY <3>3, <3>5, <3>6
  <2> HIDE DEF pop, push, entry
  <2>13. /\ Len(fifo') = l - p + (IF push THEN 1 ELSE 0)
         /\ fifo'[i] = IF i <= l - p THEN fifo[i + p] ELSE entry
    <3>1. Len(Push(fifo, pop, push, entry)) = l - p + (IF push THEN 1 ELSE 0)
      <4>1. pop => Len(fifo) > 0
        BY <2>5, <2>6
      <4>2. /\ Push(fifo, pop, push, entry) \in Seq(S \union {entry})
            /\ Len(Push(fifo, pop, push, entry)) =
                 Len(fifo) - (IF pop THEN 1 ELSE 0) + (IF push THEN 1 ELSE 0)
        BY <1>2, <4>1, PushLength
      <4> QED BY <2>5, <2>9, <4>2
    <3>2. \A j \in 1..Len(Push(fifo, pop, push, entry)) :
            Push(fifo, pop, push, entry)[j] = IF j <= l - p THEN fifo[j + p] ELSE entry
      BY <1>2, <2>5, <2>6, <2>9, PushElements
    <3> QED BY <1>1, <3>1, <3>2
  <2>14. p <= l
    BY <2>6, <2>9
  <2>15. i \in Nat \ {0} /\ i <= Len(fifo')
    BY <2>5, <2>9, <2>13, <2>14
  <2>16. CASE i <= l - p
    <3>1. PICK j \in 1..l : j = i + p
      BY <2>14, <2>15, <2>16
    <3>2. fifo'[i].value = Payload(id, c + j - 1)
      BY <2>8, <2>13, <2>16, <3>1
    <3>3. c + j - 1 = Consumed' + i - 1
      BY <2>10, <2>15, <3>1
    <3> QED BY <2>7, <3>2, <3>3
  <2>17. CASE ~(i <= l - p)
    <3>1. push /\ i = l - p + 1
      BY <2>13, <2>14, <2>15, <2>17
    <3>2. Consumed' + i - 1 = c + l
      BY <2>10, <2>14, <3>1
    <3> QED BY <2>7, <2>11, <2>12, <2>13, <2>17, <3>1, <3>2
  <2> QED BY <2>16, <2>17
<1> QED BY <1>3, <1>4

(* While the wrapper reads, a session that is open stays at its pair.      *)
LEMMA ReadingKeeps ==
  ASSUME WellBehaved, SourceSized, FlowInv, SessionInv, HostTurn,
         NEW word \in Offered, NEW ready, Tick(word, ready), session_state \in Reading,
         session'.active \/ frame'.kind = "pair"
  PROVE  /\ session.active \/ frame.kind = "pair"
         /\ session'.expected = session.expected
<1>1. SessionProtocol(word, ready) /\ JobsInv /\ FrameInv /\ TurnInv
  BY DEF Tick, SessionClock, HostTurn
<1>2. frame'.kind = "pair" => frame.kind = "pair"
  <2>1. frame' = frame \/ frame' = NoFrame
    BY <1>1, HostRests
  <2> QED BY <2>1 DEF NoFrame
<1>3. CASE ~Received(word)
  BY <1>1, <1>2, <1>3, NothingRead
<1>4. CASE Received(word)
  <2>1. WrapperReads(word) /\ DOMAIN session = {"active", "counts", "current", "expected"}
    BY <1>1, <1>4, NothingRefused DEF SessionInv, OpenInv
  <2>2. CASE session_state \in Loading
    <3>1. frame.kind = "table" /\ ~session.active
      BY <1>1, <2>2 DEF TurnInv
    <3>2. session'.active = session.active
      BY <2>1, <2>2 DEF WrapperReads, Loading
    <3> QED BY <1>2, <3>1, <3>2
  <2>3. CASE session_state = "IDLE" \/ session_state = "PAIR_COUNTS"
    BY <1>2, <2>1, <2>3 DEF WrapperReads
  <2>4. CASE session_state = "PAIR_INDEX"
    <3>1. frame.kind = "pair"
      BY <1>1, <2>4 DEF TurnInv, InPair, Opening
    <3>2. session'.expected = session.expected
      BY <2>1, <2>4 DEF WrapperReads
    <3> QED BY <3>1, <3>2
  <2> QED BY <2>2, <2>3, <2>4 DEF Reading, Opening
<1> QED BY <1>3, <1>4

(* Every word taken is counted, and a pair's words end at its share.       *)
LEMMA DeliveredStep ==
  ASSUME WellBehaved, SourceSized, CoreInv, FlowInv, SessionInv, SessionInv', HostTurn,
         PairStream, NEW word \in Offered, NEW ready, Tick(word, ready)
  PROVE  DeliveredInv'
<1>1. /\ GoodWord(core_word) /\ Clock(core_word, ready) /\ JobsInv /\ FrameInv
      /\ PairDataInv /\ DeliveredInv /\ ProfileSame /\ ChildInv /\ PairInv /\ PairInv'
  BY CoreWordIsGood
     DEF FlowInv, Tick, SessionClock, SessionInv, HostTurn, PairStream
<1>2. PairWords' = PairWords /\ JobsInv'
  BY <1>1, HostRests DEF Tick, PairWords, OutputWords
<1>3. session_state \notin Moving => UNCHANGED delivered
  BY <1>1, HostRests, Quiet
<1>4. CASE session_state \in Reading
  <2>1. session_state' \notin Moving /\ session_state \notin Moving
    BY <1>4, ReadingNext DEF Reading, Loading, Opening, Moving
  <2>2. session'.active \/ frame'.kind = "pair" =>
          /\ session.active \/ frame.kind = "pair"
          /\ session'.expected = session.expected
    BY <1>4, ReadingKeeps
  <2> QED BY <1>1, <1>2, <1>3, <2>1, <2>2 DEF DeliveredInv
<1>5. CASE session_state \in Injecting
  <2>1. /\ HostTurn' /\ session_state' \in Injecting \union {"FORWARD_PAIR_DATA"}
        /\ UNCHANGED <<session, frame>> /\ session_state \notin Moving
    BY <1>5, InjectingTurn DEF Injecting, Moving
  <2>2. UNCHANGED delivered
    BY <1>3, <2>1
  <2>3. CASE session_state' \in Injecting
    <3>1. session_state' \notin Moving
      BY <2>3 DEF Injecting, Moving
    <3> QED BY <1>1, <1>2, <2>1, <2>2, <3>1 DEF DeliveredInv
  <2>4. CASE session_state' = "FORWARD_PAIR_DATA"
    <3>1. accepted_batch_header(core_word)
      BY <1>1, <1>5, <2>4, InjectedProfile
    <3>2. output' = IdleOutput
      BY <1>1, <3>1 DEF Clock, OutputScheduler
    <3>3. session_state' \in Moving /\ batch' = jobs'[1].counts
      BY <2>1, <2>4 DEF HostTurn, CountsSame, Moving
    <3>4. batch'.count \in Nat
      <4>1. session'.active => jobs' # <<>>
        BY <2>1 DEF HostTurn, TurnInv
      <4>2. session'.active
        BY <1>1, <3>3 DEF PairInv
      <4>3. (JobsInv => (jobs # <<>> => jobs[1].counts \in FitCounts))'
        BY JobsFit, PTL
      <4> QED BY <1>2, <3>3, <4>1, <4>2, <4>3, CoreAssumption DEF FitCounts
    <3>5. Shipped' = 0
      <4>1. Shipped' = 2 * (0 * batch'.count + 0) + 0
        BY <3>2 DEF Shipped, OutputPlace, Row, IdleOutput
      <4> QED BY <3>4, <4>1
    <3> QED BY <1>1, <1>2, <2>1, <2>2, <3>3, <3>5 DEF DeliveredInv
  <2> QED BY <2>1, <2>3, <2>4
<1>6. ASSUME session_state \in Moving, ~Finishes(ready), session_state' \in Moving,
             UNCHANGED session
      PROVE  DeliveredInv'
  <2>1. state \in Running
    BY <1>1, <1>6 DEF ChildInv, Moving, Running, InputDone
  <2>2. /\ Shipped \in Nat
        /\ Shipped' = Shipped + (IF output.active /\ ready THEN 1 ELSE 0)
    BY <1>1, <1>6, <2>1, ShippedStep DEF PairDataInv
  <2>3. session.active /\ session.expected \in Nat /\ PairWords \in Nat
    <3>1. session.active /\ session.expected \in Nat
      BY <1>6, OwedIsJob
    <3>2. batch = jobs[1].counts
      BY <1>6 DEF HostTurn, CountsSame
    <3>3. OutputWords(batch) \in Nat
      BY <2>1, ShippedLimit
    <3> QED BY <3>1, <3>2, <3>3 DEF PairWords
  <2>4. delivered = session.expected * PairWords + Shipped
    BY <1>1, <1>6, <2>3 DEF DeliveredInv
  <2>5. delivered' = IF output.active /\ ready THEN delivered + 1 ELSE delivered
    BY DEF Tick
  <2>6. PICK before \in Nat : before = session.expected * PairWords
    <3>1. \A x, y \in Nat : x * y \in Nat
      OBVIOUS
    <3> QED BY <2>3, <3>1
  <2>7. delivered' = before + Shipped'
    BY <2>2, <2>4, <2>5, <2>6
  <2>8. before = session'.expected * PairWords'
    BY <1>2, <1>6, <2>6
  <2> QED BY <1>6, <2>7, <2>8 DEF DeliveredInv
<1>7. CASE session_state = "FORWARD_PAIR_DATA"
  <2>1. ~Finishes(ready)
    BY <1>1, <1>7 DEF ChildInv, Finishes
  <2>2. UNCHANGED session /\ session_state' \in Moving
    BY <1>7, ForwardMoves DEF Tick, SessionClock
  <2> QED BY <1>6, <1>7, <2>1, <2>2 DEF Moving
<1>8. CASE session_state = "WAIT_PAIR_OUTPUT"
  <2>1. CASE ~Finishes(ready)
    <3>1. UNCHANGED <<session_state, session>>
      BY <1>1, <1>8, <2>1, WaitTurn
    <3> QED BY <1>6, <1>8, <2>1, <3>1 DEF Moving
  <2>2. CASE Finishes(ready)
    <3>1. /\ session_state' = "IDLE" /\ delivered' = (session.expected + 1) * PairWords
          /\ session'.active => session'.expected = session.expected + 1
          /\ ~session'.active => frame'.kind = "none"
      BY <1>1, <1>8, <2>2, WaitTurn
    <3>2. session_state' \notin Moving
      BY <3>1 DEF Moving
    <3>3. session'.active \/ frame'.kind = "pair" => session'.active
      BY <3>1
    <3>4. PairWords \in Nat /\ session.expected \in Nat
      <4>1. state \in Running /\ session_state \in Moving
        BY <1>8, <2>2 DEF Finishes, Running, InputDone, Moving
      <4>2. batch = jobs[1].counts
        BY <4>1 DEF HostTurn, CountsSame
      <4>3. OutputWords(batch) \in Nat
        BY <4>1, ShippedLimit
      <4> QED BY <1>1, <4>2, <4>3 DEF PairWords, PairInv
    <3>5. PICK words \in Nat : words = (session.expected + 1) * PairWords
      <4>1. \A x, y \in Nat : (x + 1) * y \in Nat
        OBVIOUS
      <4> QED BY <3>4, <4>1
    <3>6. session'.active => session'.expected * PairWords' = words
      BY <1>2, <3>1, <3>5
    <3>7. session'.active => delivered' = session'.expected * PairWords' + 0
      BY <3>1, <3>5, <3>6
    <3> QED BY <3>2, <3>3, <3>7 DEF DeliveredInv
  <2> QED BY <2>1, <2>2
<1>9. session_state \in Reading \union Injecting \union Moving
  BY DEF SessionInv, CoreIdle, HostTurn, TurnInv, Reading, Injecting, Loading, Opening
<1> QED BY <1>4, <1>5, <1>7, <1>8, <1>9 DEF Moving

(* Every clock keeps the pair under way the one that is owed.              *)
LEMMA PairStreamStep ==
  ASSUME WellBehaved, SourceSized, CoreInv, FlowInv, FlowInv', SessionInv, SessionInv',
         HostTurn, PairStream, NEW word \in Offered, NEW ready, Tick(word, ready)
  PROVE  PairStream'
<1>1. ProfileSame /\ PayloadSame /\ PairDataInv /\ DeliveredInv
  BY DEF PairStream
<1>2. session_state \in Reading \union Injecting \union Moving
  BY DEF SessionInv, CoreIdle, HostTurn, TurnInv, Reading, Injecting, Loading, Opening
<1>3. ProfileSame'
  <2>1. CASE session_state \in Reading
    <3>1. session_state' \in Reading \union {"INJECT_PROFILE_COMMAND"}
      BY <2>1, ReadingNext
    <3> QED BY <3>1 DEF ProfileSame, Reading, Loading, Opening, Moving
  <2>2. CASE session_state \in Injecting
    BY <1>1, <2>2, InjectedProfile
  <2>3. CASE session_state \in Moving
    <3>1. session_state' \in Moving =>
            Owed' = Owed /\ (session_state = "WAIT_PAIR_OUTPUT" => ~Finishes(ready))
      BY <1>1, OwedStays
    <3>2. session_state' \in Moving => profile' = profile
      BY <1>1, <2>3, <3>1, ForwardTurn, WaitTurn DEF Moving
    <3>3. session_state' \in Moving \union {"IDLE"}
      <4>1. CASE session_state = "FORWARD_PAIR_DATA"
        BY <4>1, ForwardMoves DEF Tick, SessionClock
      <4>2. CASE session_state = "WAIT_PAIR_OUTPUT"
        BY <1>1, <4>2, WaitTurn DEF Moving
      <4> QED BY <2>3, <4>1, <4>2 DEF Moving
    <3>4. profile.q = Owed.profile /\ profile.mu = Owed.profile
      BY <1>1, <2>3 DEF ProfileSame
    <3> QED BY <3>1, <3>2, <3>3, <3>4 DEF ProfileSame, Moving
  <2> QED BY <1>2, <2>1, <2>2, <2>3
<1>4. PayloadSame' /\ PairDataInv'
  BY <1>1, PayloadSameStep, PairDataStep
<1>5. DeliveredInv'
  BY DeliveredStep
<1> QED BY <1>3, <1>4, <1>5 DEF PairStream

(* Host, wrapper and core stay in step at whatever the host chooses and    *)
(* whenever it resets.                                                     *)
LEMMA SessionTurns ==
  ASSUME WellBehaved, SourceSized, CoreInv, FlowInv, FlowInv', SessionInv, SessionInv',
         HostTurn, PairStream, [Next]_vars
  PROVE  HostTurn' /\ PairStream'
<1>1. CASE \E word \in Offered, ready \in BOOLEAN : Tick(word, ready)
  BY <1>1, TurnStep, PairStreamStep DEF PairStream
<1>2. CASE StartTable \/ StartSession \/ StartPair
  BY <1>2, TableChosen, SessionChosen, PairChosen
<1>3. CASE Reset
  <2>1. MemoryShape /\ frames \in Nat
    BY DEF PairStream, PairDataInv, HostTurn, JobsInv
  <2> QED BY <1>3, <2>1, TurnStarts
<1>4. CASE UNCHANGED vars
  <2>1. /\ UNCHANGED <<coreVars, session_state, table, session, frame_counts, payload, fifo,
                       injection, profile, batch, output, frame, sent, frames, host_table,
                       jobs, delivered>>
        /\ UNCHANGED <<coefficient_index, state, eval_input, bv_input>>
    BY <1>4 DEF vars, coreVars, protocolVars, outputVars, wrapperVars, hostVars
  <2>2. HostTurn'
    <3>1. InPair' = InPair /\ Behind' = Behind /\ Between' = Between
          /\ PayloadWords(frame_counts)' = PayloadWords(frame_counts)
      BY <2>1 DEF InPair, Behind, Between, SessionWords, OutputWords
    <3>2. JobsInv' /\ FrameInv'
      BY <2>1 DEF HostTurn, JobsInv, FrameInv
    <3>3. TurnInv'
      BY <2>1, <3>1 DEF HostTurn, TurnInv
    <3>4. TableSame' /\ CountsSame'
      BY <2>1 DEF HostTurn, TableSame, Entry, CountsSame
    <3> QED BY <3>2, <3>3, <3>4 DEF HostTurn
  <2>3. PairStream'
    <3>1. /\ Owed' = Owed /\ PairWords' = PairWords /\ Shipped' = Shipped
          /\ Consumed' = Consumed
      BY <2>1 DEF Owed, PairWords, OutputWords, Shipped, OutputPlace, Row, Consumed,
         CoefficientPosition
    <3>2. ProfileSame' /\ PayloadSame' /\ DeliveredInv'
      BY <2>1, <3>1 DEF PairStream, ProfileSame, PayloadSame, DeliveredInv
    <3>3. PairDataInv'
      <4>1. MemoryShape' /\ GapInv'
        BY <1>4, <2>1 DEF vars, coreVars, evalVars, bvVars, MemoryShape, GapInv, PairStream,
           PairDataInv
      <4>2. session_state \in Moving => \A id : id = Owed.frame => DataInv(id)'
        BY <2>1, DataRests DEF PairStream, PairDataInv
      <4>3. session_state \in Moving => (\A id : id = Owed.frame => DataInv(id))'
        BY <3>1, <4>2
      <4> QED BY <2>1, <4>1, <4>3 DEF PairStream, PairDataInv
    <3> QED BY <3>2, <3>3 DEF PairStream
  <2> QED BY <2>2, <2>3
<1> QED BY <1>1, <1>2, <1>3, <1>4 DEF Next

(* With a host that follows the protocol, host, wrapper and core are in    *)
(* step at every clock: the frame, the table, the counts, the words and    *)
(* the profile that one has are those the others take them for.            *)
THEOREM TurnInvariant ==
  ASSUME SourceSized, WellBehaved
  PROVE  Spec => [](CoreInv /\ FlowInv /\ SessionInv /\ HostTurn /\ PairStream)
<1> DEFINE Flows == CoreInv /\ FlowInv /\ SessionInv /\ HostInv
           Turns == HostTurn /\ PairStream
<1>1. Init => Turns
  BY TurnStarts
<1>2. Flows /\ Flows' /\ Turns /\ [Next]_vars => Turns'
  BY SessionTurns
<1>3. Spec => []Flows
  BY SessionInvariant
<1> QED BY <1>1, <1>2, <1>3, PTL DEF Spec

(* The words of a session, by pair and place in the pair.                  *)
LEMMA PairPlace ==
  \A e, w, s, n \in Nat : s < w /\ e < n =>
    /\ (e * w + s) \div w = e /\ (e * w + s) % w = s
    /\ e * w + s = n * w - 1 <=> s = w - 1 /\ e + 1 = n
<1> SUFFICES ASSUME NEW e \in Nat, NEW w \in Nat, NEW s \in Nat, NEW n \in Nat, s < w, e < n
             PROVE  /\ (e * w + s) \div w = e /\ (e * w + s) % w = s
                    /\ e * w + s = n * w - 1 <=> s = w - 1 /\ e + 1 = n
  OBVIOUS
<1>1. (e * w + s) \div w = e /\ (e * w + s) % w = s
  <2>1. \A q, d, r \in Nat : r < d => (q * d + r) \div d = q /\ (q * d + r) % d = r
    OBVIOUS
  <2> QED BY <2>1
<1>2. PICK m \in Nat : n = e + 1 + m
  <2>1. n - (e + 1) \in Nat /\ n = e + 1 + (n - (e + 1))
    OBVIOUS
  <2> QED BY <2>1
<1>3. n * w = e * w + w + m * w /\ e * w \in Nat /\ m * w \in Nat
  BY <1>2
<1>4. m > 0 => m * w >= w
  OBVIOUS
<1>5. m = 0 => m * w = 0
  OBVIOUS
<1> QED BY <1>1, <1>2, <1>3, <1>4, <1>5

(* The session's words are those of the layout it shares with the core.    *)
LEMMA SamePromise ==
  ASSUME NEW owed, NEW n
  PROVE  /\ Promise!Relinearized(owed, n) = Relinearized(owed, n)
         /\ Promise!PairWords = PairWords /\ Promise!SessionWords = SessionWords
<1>1. Promise!Relinearized(owed, n) = Relinearized(owed, n)
  BY DEF Promise!Relinearized, Relinearized, Promise!Product, Product, Promise!Payload,
     Payload, Promise!OperandIndex, OperandIndex, Promise!DigitIndex, DigitIndex,
     Promise!KeyIndex, KeyIndex, Promise!CoefficientWords, CoefficientWords
<1>2. Promise!PairWords = PairWords
  BY DEF Promise!PairWords, PairWords, Promise!OutputWords, OutputWords
<1>3. Promise!SessionWords = SessionWords
  BY <1>2 DEF Promise!SessionWords, SessionWords, PairWords
<1> QED BY <1>1, <1>2, <1>3

(* What a session shows is the word it promises at this point, exact under *)
(* the profile of its pair, and TLAST on its last word alone.              *)
LEMMA ShownIsPromised ==
  CoreInv /\ FlowInv /\ SessionInv /\ HostTurn /\ PairStream =>
    Shown = IF output.active THEN Promise!Word(delivered) ELSE Promise!Silent
<1> SUFFICES ASSUME CoreInv, FlowInv, SessionInv, HostTurn, PairStream
             PROVE  Shown = IF output.active THEN Promise!Word(delivered) ELSE Promise!Silent
  OBVIOUS
<1>1. CASE ~output.active
  BY <1>1 DEF Shown, Promise!Silent
<1>2. CASE output.active
  <2>1. session_state \in Moving
    BY <1>2, Quiet
  <2>2. state \in Running /\ ProfileSame /\ PairDataInv /\ DeliveredInv
    BY <2>1 DEF SessionInv, ChildInv, Moving, Running, InputDone, PairStream
  <2>3. /\ session.active /\ session.current = session.expected /\ session.expected \in Nat
        /\ session.expected + 1 \in 1..Len(jobs) /\ Len(jobs) \in Nat /\ jobs # <<>>
        /\ Owed.counts = jobs[1].counts
    BY <2>1, OwedIsJob
  <2>4. PICK owed : owed = Owed
    OBVIOUS
  <2>5. /\ owed.counts = batch /\ owed.profile = LoadedProfile /\ profile.q = profile.mu
        /\ DataInv(owed.frame)
    BY <2>1, <2>2, <2>3, <2>4
       DEF HostTurn, CountsSame, ProfileSame, LoadedProfile, PairDataInv
  <2>6. PICK s \in Nat, w \in Nat : s = Shipped /\ w = OutputWords(batch) /\ s < w
    BY <2>2, ShippedLimit
  <2>7. s = OutputPlace(output.coefficient_index, output.ciphertext, output.component)
    BY <2>6 DEF Shipped
  <2>8. m_axis_tdata = Relinearized(owed, s) /\ (m_axis_tlast <=> s = w - 1)
    BY <1>2, <2>2, <2>5, <2>6, <2>7, OutputExact
  <2>9. PICK e \in Nat, n \in Nat : e = session.expected /\ n = Len(host_table)
    BY <2>3 DEF HostTurn, JobsInv
  <2>10. e < n /\ table.loaded = n
    <3>1. Len(jobs) <= Len(host_table) /\ frame.kind # "table" /\ host_table # <<>>
      BY <2>3, JobsFit DEF HostTurn, JobsInv, TurnInv
    <3> QED BY <2>3, <2>9, <3>1 DEF HostTurn, TableSame
  <2>11. PairWords = w /\ delivered = e * w + s
    <3>1. PairWords = w
      BY <2>3, <2>4, <2>5, <2>6 DEF PairWords
    <3> QED BY <2>1, <2>2, <2>3, <2>6, <2>9, <3>1 DEF DeliveredInv
  <2>12. /\ delivered \div w = e /\ delivered % w = s
         /\ delivered = n * w - 1 <=> s = w - 1 /\ e + 1 = n
    <3>1. s < w /\ e < n
      BY <2>6, <2>10
    <3>2. (e * w + s) \div w = e
      BY <3>1, PairPlace
    <3>3. (e * w + s) % w = s
      BY <3>1, PairPlace
    <3>4. (e * w + s = n * w - 1) <=> (s = w - 1 /\ e + 1 = n)
      BY <3>1, PairPlace
    <3> QED BY <2>11, <3>2, <3>3, <3>4
  <2>13. session_tlast = (delivered = n * w - 1)
    BY <2>3, <2>8, <2>9, <2>10, <2>12 DEF session_tlast, m_axis_tlast, final_pair
  <2>14. Shown = [valid |-> TRUE, data |-> Relinearized(owed, s),
                  last |-> (delivered = n * w - 1)]
    BY <1>2, <2>8, <2>13 DEF Shown
  <2>15. Promise!Word(delivered) =
           [valid |-> TRUE, data |-> Relinearized(jobs[e + 1], s),
            last |-> (delivered = n * w - 1)]
    <3>1. SessionWords = n * w
      BY <2>9, <2>11 DEF SessionWords, PairWords
    <3>2. Promise!PairWords = w /\ Promise!SessionWords = n * w
      BY <2>11, <3>1, SamePromise
    <3>3. PICK job : job = jobs[e + 1]
      OBVIOUS
    <3>4. Promise!Relinearized(job, s) = Relinearized(job, s)
      BY SamePromise
    <3>5. PICK d : d = delivered
      OBVIOUS
    <3>6. d \div w = e /\ d % w = s
      BY <2>12, <3>5
    <3>7. Promise!Word(d) = [valid |-> TRUE, data |-> Promise!Relinearized(job, s),
                             last |-> (d = n * w - 1)]
      BY <3>2, <3>3, <3>6 DEF Promise!Word
    <3> QED BY <3>3, <3>4, <3>5, <3>7
  <2> QED BY <1>2, <2>4, <2>9, <2>14, <2>15 DEF Owed
<1> QED BY <1>1, <1>2

(* A pair is delivered in whole coefficients: where the stream is in a     *)
(* coefficient is where the core is in it.                                 *)
LEMMA PairIsWhole ==
  ASSUME NEW c \in Nat \ {0}, NEW e \in Nat, NEW s \in Nat, NEW w, w = 2 * N * c
  PROVE  (e * w + s) % (2 * c) = s % (2 * c)
<1>1. PICK d \in Nat \ {0} : d = 2 * c
  OBVIOUS
<1>2. PICK size \in Nat : size = N
  BY CoreAssumption
<1>3. PICK q, r : q = s \div d /\ r = s % d
  OBVIOUS
<1>4. q \in Nat /\ r \in 0..(d - 1) /\ s = d * q + r
  <2>1. \A x \in Nat, y \in Nat \ {0} :
          /\ x \div y \in Nat /\ x % y \in 0..(y - 1)
          /\ x = y * (x \div y) + (x % y)
    OBVIOUS
  <2>2. s = d * (s \div d) + (s % d)
    BY <2>1
  <2> QED BY <1>3, <2>1, <2>2
<1>5. PICK k \in Nat : k = e * size + q
  <2>1. e * size \in Nat
    OBVIOUS
  <2> QED BY <1>4, <2>1
<1>6. e * w + s = d * k + r
  <2>1. PICK rows \in Nat : rows = e * size
    OBVIOUS
  <2>2. w = d * size
    BY <1>1, <1>2
  <2>3. e * w = d * rows
    <3>1. \A x, y, z \in Nat : x * (y * z) = y * (x * z)
      OBVIOUS
    <3>2. e * (d * size) = d * (e * size)
      BY <3>1
    <3> QED BY <2>1, <2>2, <3>2
  <2>4. d * k = d * rows + d * q
    BY <1>4, <1>5, <2>1
  <2>5. d * rows \in Nat /\ d * q \in Nat
    BY <1>4
  <2> QED BY <1>4, <2>3, <2>4, <2>5
<1>7. PICK n : n = e * w + s
  OBVIOUS
<1>8. n % d = r
  <2>1. n = d * k + r
    BY <1>6, <1>7
  <2> QED BY <1>4, <2>1, Division
<1> QED BY <1>1, <1>3, <1>7, <1>8

(* What the session shows after a clock is the word promised at the place  *)
(* the host then has come to.                                              *)
LEMMA ShownNext ==
  ASSUME CoreInv', FlowInv', SessionInv', HostTurn', PairStream', UNCHANGED <<host_table, jobs>>
  PROVE  Shown' = IF output'.active THEN Promise!Word(delivered') ELSE Promise!Silent
<1>1. (CoreInv /\ FlowInv /\ SessionInv /\ HostTurn /\ PairStream =>
         Shown = IF output.active THEN Promise!Word(delivered) ELSE Promise!Silent)'
  BY ShownIsPromised, PTL
<1>2. Promise!Word(delivered)' = Promise!Word(delivered')
  BY DEF Promise!Word, Promise!PairWords, Promise!SessionWords
<1> QED BY <1>1, <1>2 DEF Promise!Silent

(* A clock outside the payload of a pair shows and delivers nothing.       *)
LEMMA NothingShown ==
  ASSUME WellBehaved, CoreInv, FlowInv, SessionInv, HostTurn, PairStream,
         NEW word \in Offered, NEW ready, Tick(word, ready), session_state \notin Moving
  PROVE  Promise!Advance
<1>1. /\ JobsInv /\ FrameInv /\ PairDataInv
      /\ OutputScheduler(core_word, ready)
  BY DEF HostTurn, PairStream, Tick, SessionClock, Clock
<1>2. ~output.active /\ output.component = 0
  BY <1>1, Quiet DEF PairDataInv
<1>3. ~output'.active
  BY <1>1, <1>2, OutputRests
<1>4. UNCHANGED <<host_table, jobs, delivered>>
  BY <1>1, <1>2, HostRests
<1>5. UNCHANGED Shown
  BY <1>2, <1>3 DEF Shown
<1> QED BY <1>4, <1>5 DEF Promise!Advance

(* A clock in the payload of a pair: either the pair ends, its last word   *)
(* taken and nothing shown, or the core stays in it, one word on if the    *)
(* word shown is taken.                                                    *)
LEMMA PairMoves ==
  ASSUME WellBehaved, SourceSized, CoreInv, FlowInv, SessionInv, HostTurn, PairStream,
         CoreInv', FlowInv', SessionInv', HostTurn', PairStream',
         NEW word \in Offered, NEW ready, Tick(word, ready), session_state \in Moving
  PROVE  /\ Finishes(ready) =>
              /\ output.active /\ ~output'.active /\ ready
              /\ delivered' = (session.expected + 1) * PairWords
         /\ ~Finishes(ready) =>
              /\ state' \in Running /\ batch' = batch
              /\ delivered' = session.expected * PairWords + Shipped'
<1>1. /\ GoodWord(core_word) /\ Clock(core_word, ready) /\ JobsInv /\ FrameInv
      /\ PairDataInv /\ DeliveredInv /\ ChildInv /\ PairInv
  BY CoreWordIsGood DEF FlowInv, Tick, SessionClock, SessionInv, HostTurn, PairStream
<1>2. UNCHANGED <<host_table, jobs>> /\ PairWords' = PairWords
  BY <1>1, HostRests DEF PairWords, OutputWords
<1>3. state \in Running /\ batch = jobs[1].counts /\ session.active
  BY <1>1, OwedIsJob
     DEF ChildInv, Moving, Running, InputDone, HostTurn, CountsSame
<1>4. ASSUME Finishes(ready)
      PROVE  /\ output.active /\ ~output'.active /\ ready
             /\ delivered' = (session.expected + 1) * PairWords
  <2>1. session_state = "WAIT_PAIR_OUTPUT"
    BY <1>1, <1>4 DEF ChildInv, Finishes, Moving
  <2>2. session_state' = "IDLE" /\ delivered' = (session.expected + 1) * PairWords
    BY <1>1, <1>4, <2>1, WaitTurn
  <2>3. output.active /\ ready
    BY <1>1, <1>3, <1>4, ShippedStep DEF PairDataInv
  <2>4. ~output'.active
    <3>1. (FlowInv /\ SessionInv => (session_state \notin Moving => ~output.active))'
      BY Quiet, PTL
    <3> QED BY <2>2, <3>1 DEF Moving
  <2> QED BY <2>2, <2>3, <2>4
<1>5. ASSUME ~Finishes(ready)
      PROVE  /\ state' \in Running /\ batch' = batch
             /\ delivered' = session.expected * PairWords + Shipped'
  <2>1. UNCHANGED session /\ session_state' \in Moving
    <3>1. CASE session_state = "FORWARD_PAIR_DATA"
      BY <3>1, ForwardMoves DEF Tick, SessionClock
    <3>2. CASE session_state = "WAIT_PAIR_OUTPUT"
      BY <1>1, <1>5, <3>2, WaitTurn DEF Moving
    <3> QED BY <3>1, <3>2 DEF Moving
  <2>2. state' \in Running
    BY <2>1 DEF SessionInv, ChildInv, Moving, Running, InputDone
  <2>3. batch' = batch
    BY <1>2, <1>3, <2>1 DEF HostTurn, CountsSame
  <2>4. delivered' = session.expected * PairWords + Shipped'
    BY <1>2, <1>3, <2>1 DEF PairStream, DeliveredInv
  <2> QED BY <2>2, <2>3, <2>4
<1> QED BY <1>4, <1>5

(* A clock in the payload of a pair is one step of the promised stream: a  *)
(* word offered, taken or held.                                            *)
LEMMA PairAdvances ==
  ASSUME WellBehaved, SourceSized, CoreInv, FlowInv, SessionInv, HostTurn, PairStream,
         CoreInv', FlowInv', SessionInv', HostTurn', PairStream',
         NEW word \in Offered, NEW ready, Tick(word, ready), session_state \in Moving
  PROVE  Promise!Advance
<1>1. /\ GoodWord(core_word) /\ Clock(core_word, ready) /\ JobsInv /\ FrameInv
      /\ PairDataInv /\ DeliveredInv /\ ChildInv
  BY CoreWordIsGood DEF FlowInv, Tick, SessionClock, SessionInv, HostTurn, PairStream
<1>2. UNCHANGED <<host_table, jobs>>
  BY <1>1, HostRests
<1>3. /\ Shown = IF output.active THEN Promise!Word(delivered) ELSE Promise!Silent
      /\ Shown' = IF output'.active THEN Promise!Word(delivered') ELSE Promise!Silent
  BY <1>2, ShownIsPromised, ShownNext
<1>4. delivered' = IF output.active /\ ready THEN delivered + 1 ELSE delivered
  BY DEF Tick
<1>5. /\ state \in Running /\ batch = jobs[1].counts /\ session.active /\ jobs # <<>>
      /\ session.expected \in Nat /\ session.expected + 1 \in 1..Len(jobs)
      /\ Len(jobs) \in Nat
  BY <1>1, OwedIsJob
     DEF ChildInv, Moving, Running, InputDone, HostTurn, CountsSame
<1>6. PICK c \in Nat \ {0} : c = batch.count
  BY <1>5, FlowNumbers
<1>7. PICK s \in Nat, w \in Nat : s = Shipped /\ w = OutputWords(batch) /\ s < w
  BY <1>5, ShippedLimit
<1>8. PICK e \in Nat, n \in Nat : e = session.expected /\ n = Len(jobs) /\ e < n
  BY <1>5
<1>9. PairWords = w /\ Promise!PairWords = w /\ w = 2 * N * c /\ jobs[1].counts.count = c
  BY <1>5, <1>6, <1>7, SamePromise DEF PairWords, OutputWords
<1>10. delivered = e * w + s
  BY <1>1, <1>5, <1>7, <1>8, <1>9 DEF DeliveredInv
<1>11. CASE ~output.active /\ ~output'.active
  <2>1. UNCHANGED <<delivered, Shown>>
    BY <1>3, <1>4, <1>11
  <2> QED BY <1>2, <2>1 DEF Promise!Advance
<1>12. CASE ~output.active /\ output'.active
  <2>1. delivered' = delivered /\ Shown = Promise!Silent /\ Shown' = Promise!Word(delivered)
    BY <1>3, <1>4, <1>12
  <2>2. e * w + s < n * w
    <3>1. PICK m \in Nat : n = e + 1 + m
      <4>1. n - (e + 1) \in Nat /\ n = e + 1 + (n - (e + 1))
        BY <1>8
      <4> QED BY <4>1
    <3>2. n * w = e * w + w + m * w /\ e * w \in Nat /\ m * w \in Nat
      BY <3>1
    <3> QED BY <1>7, <3>2
  <2>3. delivered < Len(jobs) * Promise!PairWords
    BY <1>8, <1>9, <1>10, <2>2
  <2>4. Promise!Offer
    BY <1>5, <2>1, <2>3 DEF Promise!Offer
  <2> QED BY <1>2, <2>4 DEF Promise!Advance
<1>13. CASE output.active /\ ~ready
  <2>1. output' = output
    BY <1>1, <1>5, <1>13, OutputChoices
  <2>2. UNCHANGED <<delivered, Shown>>
    BY <1>3, <1>4, <1>13, <2>1
  <2> QED BY <1>2, <2>2 DEF Promise!Advance
<1>14. CASE output.active /\ ready
  <2>1. delivered' = delivered + 1
    BY <1>4, <1>14
  <2>2. \A x, y \in Nat : (x * w + y) % (2 * c) = y % (2 * c)
    <3>1. w = 2 * N * c
      BY <1>9
    <3> QED BY <3>1, PairIsWhole
  <2>3. delivered' % (2 * c) = 0 <=> ~output'.active
    <3>1. CASE Finishes(ready)
      <4>1. ~output'.active /\ delivered' = (session.expected + 1) * PairWords
        BY <3>1, PairMoves
      <4>2. PICK z \in Nat : z = 0
        OBVIOUS
      <4>3. PICK f \in Nat : f = e + 1
        OBVIOUS
      <4>4. (f * w + z) % (2 * c) = z % (2 * c)
        BY <2>2
      <4>5. delivered' = f * w + z /\ z % (2 * c) = 0
        BY <1>8, <1>9, <4>1, <4>2, <4>3
      <4> QED BY <4>1, <4>4, <4>5
    <3>2. CASE ~Finishes(ready)
      <4>1. /\ state' \in Running /\ batch' = batch
            /\ delivered' = session.expected * PairWords + Shipped'
        BY <3>2, PairMoves
      <4>2. (FlowInv /\ CoreInv /\ state \in Running =>
               Shipped \in Nat /\ OutputWords(batch) \in Nat /\ Shipped < OutputWords(batch))'
        BY ShippedLimit, PTL
      <4>3. (FlowInv /\ CoreInv /\ state \in Running =>
               /\ Shipped \div (2 * batch.count) = output.coefficient_index
               /\ Shipped % (2 * batch.count) = 0 <=>
                    output.ciphertext = 0 /\ output.component = 0)'
        BY ShippedPosition, PTL
      <4>4. PICK t \in Nat : t = Shipped'
        BY <4>1, <4>2
      <4>5. t % (2 * c) = 0 <=> output'.ciphertext = 0 /\ output'.component = 0
        BY <1>6, <4>1, <4>3, <4>4
      <4>6. (e * w + t) % (2 * c) = t % (2 * c)
        BY <2>2
      <4>7. output'.active <=> ~(output'.ciphertext = 0 /\ output'.component = 0)
        BY <1>1, <1>5, <1>14, OutputChoices
      <4>8. delivered' = e * w + t
        BY <1>8, <1>9, <4>1, <4>4
      <4> QED BY <4>5, <4>6, <4>7, <4>8
    <3> QED BY <3>1, <3>2
  <2>4. Shown.valid
    BY <1>3, <1>14 DEF Promise!Word
  <2>5. Shown' = IF delivered' % (2 * c) = 0
                   THEN Promise!Silent ELSE Promise!Word(delivered')
    BY <1>3, <2>3
  <2>6. Promise!Take
    BY <1>9, <2>1, <2>4, <2>5 DEF Promise!Take
  <2> QED BY <1>2, <2>6 DEF Promise!Advance
<1> QED BY <1>11, <1>12, <1>13, <1>14

(* The pairs of a session are those before it and the one appended.        *)
LEMMA Appended ==
  ASSUME NEW S, NEW s \in Seq(S), NEW t \in Seq(S), Len(t) = Len(s) + 1,
         \A i \in 1..Len(s) : t[i] = s[i]
  PROVE  s = SubSeq(t, 1, Len(s))
<1>1. Len(s) \in Nat
  OBVIOUS
<1>2. SubSeq(t, 1, Len(s)) \in Seq(S) /\ Len(SubSeq(t, 1, Len(s))) = Len(s)
  BY <1>1
<1>3. \A i \in 1..Len(s) : SubSeq(t, 1, Len(s))[i] = s[i]
  BY <1>1
<1> QED BY <1>2, <1>3

(* A table the host chooses, a session it opens and a pair it submits are  *)
(* what the promise allows at that moment.                                 *)
LEMMA ChoicesPromised ==
  ASSUME WellBehaved, CoreInv, FlowInv, SessionInv, HostTurn, PairStream,
         StartTable \/ StartSession \/ StartPair
  PROVE  Promise!Next
<1>1. UNCHANGED Shown
  <2>1. UNCHANGED <<coreVars, wrapperVars>>
    BY DEF StartTable, StartSession, StartPair, Begin
  <2> QED BY <2>1 DEF coreVars, protocolVars, outputVars, evalVars, bvVars, wrapperVars, Shown,
             m_axis_tdata, m_axis_tlast, session_tlast, final_pair, LastCoefficient
<1>2. Between /\ session_state = "IDLE" => Promise!Between
  <2> SUFFICES ASSUME Between, session_state = "IDLE" PROVE Promise!Between
    OBVIOUS
  <2>1. ~output.active
    BY Quiet DEF Moving
  <2>2. Shown = Promise!Silent
    BY <2>1 DEF Shown, Promise!Silent
  <2>3. Promise!SessionWords = SessionWords
    BY SamePromise
  <2> QED BY <2>2, <2>3 DEF Between, Promise!Between, Promise!Complete
<1>3. CASE StartTable
  <2>1. Promise!Between
    BY <1>2, <1>3, TableChosen
  <2>2. host_table' # <<>> /\ jobs' = <<>> /\ delivered' = 0
    BY <1>3 DEF StartTable, WellBehaved
  <2> QED BY <1>1, <2>1, <2>2 DEF Promise!Next, Promise!LoadTable
<1>4. CASE StartSession
  <2>1. /\ Between /\ session_state = "IDLE" /\ host_table # <<>> /\ UNCHANGED host_table
        /\ Len(jobs') = 1 /\ jobs'[1].profile = host_table[1] /\ delivered' = 0
    BY <1>4, SessionChosen
  <2>2. Len(host_table) > 0
    BY <2>1, JobsFit DEF HostTurn, JobsInv
  <2>3. Promise!Fits(jobs'[1], <<>>)
    BY <2>1, <2>2 DEF Promise!Fits
  <2> QED BY <1>1, <1>2, <2>1, <2>3 DEF Promise!Next, Promise!Open
<1>5. CASE StartPair
  <2>1. /\ Len(jobs') = Len(jobs) + 1 /\ Len(jobs) < Len(host_table)
        /\ \A i \in 1..Len(jobs) : jobs'[i] = jobs[i]
        /\ jobs'[Len(jobs')].profile = host_table[Len(jobs')]
        /\ jobs'[Len(jobs')].counts = jobs[1].counts
        /\ UNCHANGED <<host_table, delivered>> /\ HostTurn'
    BY <1>5, PairChosen
  <2>2. jobs # <<>>
    BY <1>5 DEF StartPair
  <2>3. jobs = SubSeq(jobs', 1, Len(jobs))
    <3>1. /\ jobs \in Seq([frame : Nat, counts : FitCounts, profile : Profiles])
          /\ jobs' \in Seq([frame : Nat, counts : FitCounts, profile : Profiles])
      BY <2>1 DEF HostTurn, JobsInv
    <3> QED BY <2>1, <3>1, Appended
  <2>4. Promise!Fits(jobs'[Len(jobs')], jobs)
    BY <2>1 DEF Promise!Fits
  <2> QED BY <1>1, <2>1, <2>2, <2>3, <2>4 DEF Promise!Next, Promise!Advance, Promise!Submit
<1> QED BY <1>3, <1>4, <1>5

(* Every step of host, wrapper and core is one of the promised session or  *)
(* changes nothing of it.                                                  *)
LEMMA SessionSimulated ==
  ASSUME WellBehaved, SourceSized, CoreInv, FlowInv, SessionInv, HostTurn, PairStream,
         CoreInv', FlowInv', SessionInv', HostTurn', PairStream', [Next]_vars
  PROVE  [Promise!Next]_<<host_table, jobs, delivered, Shown>>
<1>1. CASE \E word \in Offered, ready \in BOOLEAN : Tick(word, ready)
  BY <1>1, NothingShown, PairAdvances DEF Promise!Next
<1>2. CASE StartTable \/ StartSession \/ StartPair
  BY <1>2, ChoicesPromised
<1>3. CASE Reset
  <2>1. host_table' = <<>> /\ jobs' = <<>> /\ delivered' = 0
    BY <1>3 DEF Reset
  <2>2. ~output'.active
    BY <1>3 DEF Reset, SessionReset, CoreReset, IdleOutput
  <2>3. Shown' = Promise!Silent
    BY <2>2 DEF Shown, Promise!Silent
  <2> QED BY <2>1, <2>3 DEF Promise!Next, Promise!Restart
<1>4. CASE UNCHANGED vars
  <2>1. UNCHANGED <<coreVars, wrapperVars, host_table, jobs, delivered>>
    BY <1>4 DEF vars, hostVars
  <2>2. UNCHANGED Shown
    BY <2>1 DEF coreVars, protocolVars, outputVars, evalVars, bvVars, wrapperVars, Shown,
       m_axis_tdata, m_axis_tlast, session_tlast, final_pair, LastCoefficient
  <2> QED BY <2>1, <2>2
<1> QED BY <1>1, <1>2, <1>3, <1>4 DEF Next

(* With a host that follows the protocol, wrapper and core implement       *)
(* RelinSession: however frames, clocks, backpressure and resets           *)
(* interleave, the words of all pairs leave in order as one frame, each    *)
(* exact under its own pair's profile, with TLAST on the last alone.       *)
THEOREM SessionRefines ==
  ASSUME SourceSized, WellBehaved PROVE Spec => ImplementsSession
<1> DEFINE Inv == CoreInv /\ FlowInv /\ SessionInv /\ HostTurn /\ PairStream
<1>1. Init => Promise!Init
  BY DEF Init, SessionInit, CoreInit, IdleOutput, Promise!Init, Shown, Promise!Silent
<1>2. Inv /\ Inv' /\ [Next]_vars => [Promise!Next]_<<host_table, jobs, delivered, Shown>>
  BY SessionSimulated
<1>3. Spec => []Inv
  BY TurnInvariant
<1> HIDE DEF Inv
<1> QED BY <1>1, <1>2, <1>3, PTL DEF Spec, ImplementsSession, Promise!Spec
=============================================================================
