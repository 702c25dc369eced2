---------------------------- MODULE EngineProofs ----------------------------
(***************************************************************************)
(* The transform engine clock by clock, for every pipeline length, table,  *)
(* coefficient and number of transforms, with resets at any clock: what is *)
(* in flight, how long a stage takes, and that no group reads a            *)
(* coefficient that is still to be written.                                *)
(***************************************************************************)
EXTENDS Transforms, SequenceTheorems, TLAPS

-----------------------------------------------------------------------------
(* The clocks since a stage began tell everything else: group number g is  *)
(* issued in clock g, enters the butterflies two clocks later, and is       *)
(* written when it has been through all of them.                           *)
StagesDone == IF inverse THEN stage ELSE LogN - 1 - stage
Elapsed    == cycles - StagesDone * StageClocks

Scheduled(s, g) == Addresses[s, g]

Flight(clock) ==
  /\ capture # Empty <=> clock \in 1..Groups
  /\ clock \in 1..Groups => issued = Scheduled(stage, clock - 1)
  /\ \A k \in 1..Latency :
       /\ butterflies[k] # Empty <=> clock - k \in 1..Groups
       /\ clock - k \in 1..Groups => address[k] = Scheduled(stage, clock - k - 1)
Moment(clock) ==
  /\ clock \in 0..(Groups + Latency)
  /\ state = "issue" <=> clock < Groups
  /\ state = "issue" => group = clock
  /\ writes = IF clock > Latency THEN clock - Latency - 1 ELSE 0
  /\ Flight(clock)

ControlInv ==
  /\ state \in {"idle", "issue", "drain"}
  /\ stage \in 0..(LogN - 1) /\ inverse \in BOOLEAN /\ cycles \in Nat
  /\ done \in BOOLEAN /\ (Busy => ~done)
  /\ TransformTime
IdleInv ==
  ~Busy => capture = Empty /\ \A k \in 1..Latency : butterflies[k] = Empty
EngineInv == ControlInv /\ IdleInv /\ (Busy => Moment(Elapsed))

(* The engine has a stage for every address bit and time for every group.  *)
LEMMA EngineNumbers ==
  ASSUME ScheduleSound
  PROVE  /\ Groups \in Nat \ {0} /\ Latency \in Nat \ {0} /\ LogN \in Nat \ {0}
         /\ StageClocks \in Nat \ {0} /\ StageClocks = Groups + Latency + 1
<1>1. Groups \in Nat \ {0}
  BY DEF ScheduleSound
<1>2. Triples \in Nat \ {0} /\ Latency \in Nat \ {0}
  BY EngineAssumption
<1>3. LogN \in Nat \ {0}
  BY <1>2 DEF LogN
<1>4. StageClocks = Groups + Latency + 1
  BY DEF StageClocks
<1> HIDE DEF Groups
<1> QED BY <1>1, <1>2, <1>3, <1>4

(* A captured group and the results of four butterflies are never nothing. *)
LEMMA Something ==
  /\ \A x, y : [values |-> x, weights |-> y] # Empty
  /\ \A data : Results(data) # Empty
<1>1. ASSUME NEW x, NEW y PROVE [values |-> x, weights |-> y] # Empty
  <2>1. DOMAIN [values |-> x, weights |-> y] = {"values", "weights"}
    OBVIOUS
  <2>2. DOMAIN Empty = {}
    BY DEF Empty
  <2> QED BY <2>1, <2>2
<1>2. ASSUME NEW data PROVE Results(data) # Empty
  <2>1. \A k : \E x, y : Pair(data, k) = <<x, y>>
    BY DEF Pair, Dit, Dif
  <2>2. PICK x1, y1 : Pair(data, 1) = <<x1, y1>>
    BY <2>1
  <2>3. PICK x2, y2 : Pair(data, 2) = <<x2, y2>>
    BY <2>1
  <2>4. PICK x3, y3 : Pair(data, 3) = <<x3, y3>>
    BY <2>1
  <2>5. PICK x4, y4 : Pair(data, 4) = <<x4, y4>>
    BY <2>1
  <2>6. Results(data) = ((<<x1, y1>> \o <<x2, y2>>) \o <<x3, y3>>) \o <<x4, y4>>
    BY <2>2, <2>3, <2>4, <2>5 DEF Results
  <2> DEFINE values == {x1, y1, x2, y2, x3, y3, x4, y4}
  <2>7. /\ <<x1, y1>> \in Seq(values) /\ <<x2, y2>> \in Seq(values)
        /\ <<x3, y3>> \in Seq(values) /\ <<x4, y4>> \in Seq(values)
    OBVIOUS
  <2> HIDE DEF values
  <2>8. \A s, t \in Seq(values) : s \o t \in Seq(values) /\ Len(s \o t) = Len(s) + Len(t)
    BY ConcatProperties
  <2>9. Len(<<x1, y1>>) = 2 /\ Len(<<x2, y2>>) = 2 /\ Len(<<x3, y3>>) = 2 /\ Len(<<x4, y4>>) = 2
    OBVIOUS
  <2>10. Len(Results(data)) = 8
    BY <2>6, <2>7, <2>8, <2>9
  <2> QED BY <2>10 DEF Empty
<1> QED BY <1>1, <1>2

(* The first word of the butterflies is the captured group; the others are *)
(* the word before them, and so are the addresses.                         *)
LEMMA ShiftEffect ==
  ASSUME ScheduleSound, Shift
  PROVE  /\ capture' # Empty <=> state = "issue"
         /\ state = "issue" => issued' = Scheduled(stage, group)
         /\ state # "issue" => issued' = issued
         /\ butterflies'[1] # Empty <=> capture # Empty
         /\ address'[1] = issued
         /\ \A k \in 2..Latency : /\ butterflies'[k] = butterflies[k - 1]
                                  /\ address'[k] = address[k - 1]
<1>1. Latency \in Nat \ {0}
  BY EngineNumbers
<1>2. capture' # Empty <=> state = "issue"
  BY Something DEF Shift
<1>a. butterflies' = [k \in 1..Latency |->
                       IF k > 1 THEN butterflies[k - 1]
                       ELSE IF capture = Empty THEN Empty ELSE Results(capture)]
  BY DEF Shift
<1>b. address' = [k \in 1..Latency |-> IF k = 1 THEN issued ELSE address[k - 1]]
  BY DEF Shift
<1>c. 1 \in 1..Latency /\ \A k \in 2..Latency : k \in 1..Latency /\ k > 1 /\ k # 1
  BY <1>1
<1>3. butterflies'[1] # Empty <=> capture # Empty
  <2>1. butterflies'[1] = IF capture = Empty THEN Empty ELSE Results(capture)
    BY <1>a, <1>c
  <2> QED BY <2>1, Something
<1>4. \A k \in 2..Latency : butterflies'[k] = butterflies[k - 1] /\ address'[k] = address[k - 1]
  BY <1>a, <1>b, <1>c
<1>5. address'[1] = issued
  BY <1>b, <1>c
<1>6. state = "issue" => issued' = Scheduled(stage, group)
  BY DEF Shift, Scheduled
<1>7. state # "issue" => issued' = issued
  BY DEF Shift
<1> QED BY <1>2, <1>3, <1>4, <1>5, <1>6, <1>7

(* What is in flight a clock later, when the stage stays.                  *)
LEMMA FlightAdvances ==
  ASSUME ScheduleSound, NEW G \in Nat, Moment(G), Shift, stage' = stage
  PROVE  Flight(G + 1)'
<1>1. Groups \in Nat \ {0} /\ Latency \in Nat \ {0}
  BY EngineNumbers
<1> HIDE DEF Groups
<1>2. /\ state = "issue" <=> G < Groups
      /\ state = "issue" => group = G
      /\ capture # Empty <=> G \in 1..Groups
      /\ G \in 1..Groups => issued = Scheduled(stage, G - 1)
  BY DEF Moment, Flight
<1>3. capture' # Empty <=> G + 1 \in 1..Groups
  <2>1. capture' # Empty <=> state = "issue"
    BY ShiftEffect
  <2>2. G < Groups <=> G + 1 \in 1..Groups
    BY <1>1
  <2> QED BY <1>2, <2>1, <2>2
<1>4. G + 1 \in 1..Groups => issued' = Scheduled(stage, G)
  <2>1. G + 1 \in 1..Groups => G < Groups
    BY <1>1
  <2> QED BY <1>2, <2>1, ShiftEffect
<1>5. ASSUME NEW k \in 1..Latency
      PROVE  /\ butterflies'[k] # Empty <=> G + 1 - k \in 1..Groups
             /\ G + 1 - k \in 1..Groups => address'[k] = Scheduled(stage, G + 1 - k - 1)
  <2>1. CASE k = 1
    <3>1. G + 1 - k = G /\ G + 1 - k - 1 = G - 1
      BY <2>1
    <3>2. butterflies'[k] # Empty <=> G \in 1..Groups
      BY <1>2, <2>1, ShiftEffect
    <3>3. address'[k] = issued
      BY <2>1, ShiftEffect
    <3> QED BY <1>2, <3>1, <3>2, <3>3
  <2>2. CASE k # 1
    <3>1. k - 1 \in 1..Latency /\ k \in 2..Latency
      BY <1>1, <2>2
    <3>2. G + 1 - k = G - (k - 1) /\ G + 1 - k - 1 = G - (k - 1) - 1
      BY <3>1
    <3>3. /\ butterflies[k - 1] # Empty <=> G - (k - 1) \in 1..Groups
          /\ G - (k - 1) \in 1..Groups => address[k - 1] = Scheduled(stage, G - (k - 1) - 1)
      BY <3>1 DEF Moment, Flight
    <3>4. butterflies'[k] = butterflies[k - 1] /\ address'[k] = address[k - 1]
      BY <3>1, ShiftEffect
    <3> QED BY <3>2, <3>3, <3>4
  <2> QED BY <2>1, <2>2
<1>6. PICK H \in Nat : H = G + 1 /\ H - 1 = G
  OBVIOUS
<1>7. /\ capture' # Empty <=> H \in 1..Groups
      /\ H \in 1..Groups => issued' = Scheduled(stage', H - 1)
      /\ \A k \in 1..Latency :
           /\ butterflies'[k] # Empty <=> H - k \in 1..Groups
           /\ H - k \in 1..Groups => address'[k] = Scheduled(stage', H - k - 1)
  BY <1>3, <1>4, <1>5, <1>6
<1>8. Flight(H)'
  BY <1>7 DEF Flight
<1> QED BY <1>6, <1>8 DEF Flight

(* The clock of a stage as a number of its own, and the stages before it.  *)
LEMMA ElapsedNumbers ==
  ASSUME ScheduleSound, EngineInv, Busy
  PROVE  /\ Elapsed \in Nat /\ StagesDone \in 0..(LogN - 1) /\ StageClocks \in Nat
         /\ StagesDone * StageClocks \in Nat
         /\ cycles = Elapsed + StagesDone * StageClocks
<1>1. Groups \in Nat \ {0} /\ Latency \in Nat \ {0} /\ LogN \in Nat \ {0} /\ StageClocks \in Nat
  BY EngineNumbers
<1>2. stage \in 0..(LogN - 1) /\ inverse \in BOOLEAN /\ cycles \in Nat /\ Moment(Elapsed)
  BY DEF EngineInv, ControlInv
<1>3. Elapsed \in 0..(Groups + Latency)
  BY <1>2 DEF Moment
<1> HIDE DEF Groups, LogN, StageClocks
<1>4. StagesDone \in 0..(LogN - 1)
  BY <1>1, <1>2 DEF StagesDone
<1>5. StagesDone * StageClocks \in Nat
  <2>1. \A x, y \in Nat : x * y \in Nat
    OBVIOUS
  <2>2. StagesDone \in Nat
    BY <1>1, <1>4
  <2> QED BY <1>1, <2>1, <2>2
<1>6. PICK product \in Nat : product = StagesDone * StageClocks
  BY <1>5
<1>7. Elapsed = cycles - product
  BY <1>6 DEF Elapsed
<1>8. Elapsed \in Nat
  BY <1>1, <1>3
<1>9. cycles = Elapsed + product
  BY <1>2, <1>7, <1>8
<1> QED BY <1>1, <1>4, <1>5, <1>6, <1>8, <1>9

(* What ends a stage is the write of its last group, the pipeline's length *)
(* after that group was issued.                                            *)
LEMMA LastWriteWhen ==
  ASSUME ScheduleSound, NEW G \in Nat, Moment(G)
  PROVE  /\ Written <=> G > Latency
         /\ LastWrite <=> G = Groups + Latency
<1>1. Groups \in Nat \ {0} /\ Latency \in Nat \ {0}
  BY EngineNumbers
<1>2. G \in 0..(Groups + Latency) /\ writes = IF G > Latency THEN G - Latency - 1 ELSE 0
  BY DEF Moment
<1> HIDE DEF Groups
<1>3. butterflies[Latency] # Empty <=> G - Latency \in 1..Groups
  <2>1. Latency \in 1..Latency
    BY <1>1
  <2> QED BY <2>1 DEF Moment, Flight
<1>4. G - Latency \in 1..Groups <=> G > Latency
  BY <1>1, <1>2
<1>5. Written <=> G > Latency
  BY <1>3, <1>4 DEF Written
<1>6. G > Latency => (writes = Groups - 1 <=> G = Groups + Latency)
  BY <1>1, <1>2
<1>7. G = Groups + Latency => G > Latency
  BY <1>1
<1>8. LastWrite <=> G = Groups + Latency
  BY <1>5, <1>6, <1>7 DEF LastWrite
<1> QED BY <1>5, <1>8

(* A clock inside a stage: one more is told, and nothing else.             *)
LEMMA ClockAdvances ==
  ASSUME ScheduleSound, EngineInv, Issue \/ Drain
  PROVE  EngineInv'
<1>1. Groups \in Nat \ {0} /\ Latency \in Nat \ {0} /\ LogN \in Nat \ {0}
  BY EngineNumbers
<1>2. /\ stage \in 0..(LogN - 1) /\ inverse \in BOOLEAN /\ cycles \in Nat
      /\ state \in {"issue", "drain"} /\ Busy
  BY DEF EngineInv, ControlInv, Busy, Issue, Drain
<1>3. /\ ~LastWrite /\ Shift /\ stage' = stage /\ inverse' = inverse
      /\ cycles' = cycles + 1 /\ done' = FALSE
      /\ writes' = IF Written THEN writes + 1 ELSE writes
  BY DEF Issue, Drain
<1>4. PICK G \in Nat : G = Elapsed
  BY <1>2, ElapsedNumbers
<1>5. Moment(G)
  BY <1>2, <1>4 DEF EngineInv
<1>6. /\ G \in 0..(Groups + Latency) /\ writes = IF G > Latency THEN G - Latency - 1 ELSE 0
      /\ state = "issue" <=> G < Groups
      /\ state = "issue" => group = G
  BY <1>5 DEF Moment
<1>7. (Written <=> G > Latency) /\ G # Groups + Latency
  BY <1>3, <1>5, LastWriteWhen
<1> HIDE DEF Groups, LogN, StageClocks
<1>8. G + 1 \in 0..(Groups + Latency) /\ G + 1 - 1 = G
  BY <1>1, <1>6, <1>7
<1>H. PICK H \in Nat : H = G + 1
  OBVIOUS
<1>9. writes' = IF H > Latency THEN H - Latency - 1 ELSE 0
  BY <1>1, <1>3, <1>6, <1>7, <1>H
<1>10. /\ state' = "issue" <=> G + 1 < Groups
       /\ state' = "issue" => group' = G + 1
       /\ state' \in {"issue", "drain"}
  <2>1. CASE Issue
    <3>1. state = "issue" /\ group = G /\ G < Groups
      BY <1>6, <2>1 DEF Issue
    <3>2. CASE G = Groups - 1
      BY <1>1, <2>1, <3>1, <3>2 DEF Issue
    <3>3. CASE G # Groups - 1
      BY <1>1, <2>1, <3>1, <3>3 DEF Issue
    <3> QED BY <3>2, <3>3
  <2>2. CASE Drain
    <3>1. state = "drain" /\ state' = "drain"
      BY <2>2 DEF Drain
    <3>2. ~(G + 1 < Groups)
      BY <1>1, <1>6, <3>1
    <3> QED BY <3>1, <3>2
  <2> QED BY <2>1, <2>2
<1>11. Flight(G + 1)'
  BY <1>3, <1>5, FlightAdvances
<1>12. Moment(G + 1)'
  <2>2. Flight(H)'
    BY <1>11, <1>H DEF Flight
  <2>3. H \in 0..(Groups + Latency)
    BY <1>8, <1>H
  <2>4. state' = "issue" <=> H < Groups
    BY <1>10, <1>H
  <2>5. state' = "issue" => group' = H
    BY <1>10, <1>H
  <2>6. Moment(H)'
    BY <2>2, <2>3, <2>4, <2>5, <1>9, Zenon DEF Moment
  <2> QED BY <1>H, <2>6 DEF Moment
<1>13. Elapsed' = G + 1
  <2>1. PICK product \in Nat : product = StagesDone * StageClocks
    BY <1>2, ElapsedNumbers
  <2>2. StagesDone' = StagesDone
    BY <1>3 DEF StagesDone
  <2>3. StageClocks' = StageClocks
    BY DEF StageClocks
  <2>4. Elapsed' = cycles' - product
    BY <2>1, <2>2, <2>3 DEF Elapsed
  <2>5. G = cycles - product
    BY <1>4, <2>1 DEF Elapsed
  <2> QED BY <1>2, <1>3, <2>4, <2>5
<1>14. ControlInv'
  <2>1. cycles' \in Nat
    BY <1>2, <1>3
  <2>2. TransformTime'
    BY <1>3 DEF TransformTime
  <2> QED BY <1>2, <1>3, <1>10, <2>1, <2>2 DEF ControlInv
<1>15. Busy'
  BY <1>10 DEF Busy
<1>16. Moment(Elapsed)'
  BY <1>12, <1>13 DEF Moment
<1> QED BY <1>14, <1>15, <1>16 DEF EngineInv, IdleInv

(* A stage begins with nothing in flight.                                  *)
LEMMA StageBegins ==
  ASSUME ScheduleSound, state' = "issue", group' = 0, writes' = 0,
         capture' = Empty, \A k \in 1..Latency : butterflies'[k] = Empty
  PROVE  Moment(0)'
<1>1. Groups \in Nat \ {0} /\ Latency \in Nat \ {0}
  BY EngineNumbers
<1> HIDE DEF Groups, Empty
<1>2. 0 \notin 1..Groups /\ \A k \in 1..Latency : 0 - k \notin 1..Groups
  BY <1>1
<1>3. Flight(0)'
  BY <1>2 DEF Flight
<1>4. 0 \in 0..(Groups + Latency) /\ 0 < Groups /\ ~(0 > Latency)
  BY <1>1
<1> QED BY <1>3, <1>4 DEF Moment

(* The pipeline is drained on the clock of a stage's last write.           *)
LEMMA DrainedAtLastWrite ==
  ASSUME ScheduleSound, NEW G \in Nat, Moment(G), LastWrite, Shift
  PROVE  capture' = Empty /\ \A k \in 1..Latency : butterflies'[k] = Empty
<1>1. Groups \in Nat \ {0} /\ Latency \in Nat \ {0}
  BY EngineNumbers
<1>2. G = Groups + Latency
  BY LastWriteWhen
<1>3. (state = "issue" <=> G < Groups) /\ (capture # Empty <=> G \in 1..Groups)
  BY DEF Moment, Flight
<1> HIDE DEF Groups, Empty
<1>4. state # "issue" /\ capture = Empty
  BY <1>1, <1>2, <1>3
<1>5. ASSUME NEW k \in 1..Latency PROVE butterflies'[k] = Empty
  <2>1. CASE k = 1
    BY <1>4, <2>1, ShiftEffect
  <2>2. CASE k # 1
    <3>1. k \in 2..Latency /\ k - 1 \in 1..Latency /\ G - (k - 1) \notin 1..Groups
      BY <1>1, <1>2, <2>2
    <3>2. butterflies[k - 1] # Empty <=> G - (k - 1) \in 1..Groups
      BY <3>1 DEF Moment, Flight
    <3> QED BY <3>1, <3>2, ShiftEffect
  <2> QED BY <2>1, <2>2
<1> QED BY <1>4, <1>5, ShiftEffect

(* The clock of the last write ends the stage, or the transform.           *)
LEMMA StageEnds ==
  ASSUME ScheduleSound, EngineInv, EndStage
  PROVE  EngineInv'
<1>1. Groups \in Nat \ {0} /\ Latency \in Nat \ {0} /\ LogN \in Nat \ {0}
      /\ StageClocks \in Nat /\ StageClocks = Groups + Latency + 1
  BY EngineNumbers
<1>2. stage \in 0..(LogN - 1) /\ inverse \in BOOLEAN /\ cycles \in Nat
  BY DEF EngineInv, ControlInv
<1>3. Busy /\ LastWrite /\ Shift /\ inverse' = inverse /\ cycles' = cycles + 1
      /\ writes' = 0
  BY DEF EndStage
<1>4. PICK G \in Nat : G = Elapsed
  BY <1>3, ElapsedNumbers
<1>5. Moment(G)
  BY <1>3, <1>4 DEF EngineInv
<1>6. G = Groups + Latency
  BY <1>3, <1>5, LastWriteWhen
<1>7. capture' = Empty /\ \A k \in 1..Latency : butterflies'[k] = Empty
  BY <1>3, <1>5, DrainedAtLastWrite
<1> HIDE DEF Groups, LogN, StageClocks, Empty
<1>8. PICK before \in Nat : before = StagesDone /\ before \in 0..(LogN - 1)
  BY <1>1, <1>3, ElapsedNumbers
<1>9. PICK clocks \in Nat : clocks = StageClocks
  BY <1>1
<1>10. cycles' = (before + 1) * clocks
  <2>1. cycles = G + before * clocks
    BY <1>3, <1>4, <1>8, <1>9, ElapsedNumbers
  <2>2. G + 1 = clocks
    BY <1>1, <1>6, <1>9
  <2>3. \A x, y \in Nat : x * y \in Nat /\ (x + 1) * y = x * y + y
    OBVIOUS
  <2>4. before * clocks \in Nat /\ (before + 1) * clocks = before * clocks + clocks
    BY <2>3
  <2> QED BY <1>3, <2>1, <2>2, <2>4
<1>11. cycles' \in Nat
  BY <1>2, <1>3
<1>12. CASE LastStage
  <2>1. state' = "idle" /\ done' = TRUE /\ stage' = stage
    BY <1>12 DEF EndStage
  <2>2. before + 1 = LogN
    BY <1>1, <1>2, <1>8, <1>12 DEF LastStage, StagesDone
  <2>3. cycles' = LogN * StageClocks
    BY <1>9, <1>10, <2>2
  <2>4. TransformTime'
    BY <2>3 DEF TransformTime, StageClocks, LogN, Groups, Size
  <2>5. ~Busy'
    BY <2>1 DEF Busy
  <2>6. ControlInv'
    BY <1>2, <1>3, <1>11, <2>1, <2>4, <2>5 DEF ControlInv
  <2>7. IdleInv'
    BY <1>7 DEF IdleInv
  <2> QED BY <2>5, <2>6, <2>7 DEF EngineInv
<1>13. CASE ~LastStage
  <2>1. /\ state' = "issue" /\ done' = FALSE /\ group' = 0
        /\ stage' = IF inverse THEN stage + 1 ELSE stage - 1
    BY <1>13 DEF EndStage
  <2>2. stage' \in 0..(LogN - 1)
    BY <1>1, <1>2, <1>13, <2>1 DEF LastStage
  <2>3. StagesDone' = before + 1
    <3>1. CASE inverse
      BY <1>1, <1>2, <1>3, <1>8, <2>1, <3>1 DEF StagesDone
    <3>2. CASE ~inverse
      <4>1. before = LogN - 1 - stage /\ stage' = stage - 1
        BY <1>8, <2>1, <3>2 DEF StagesDone
      <4>2. StagesDone' = LogN - 1 - stage'
        BY <1>3, <3>2 DEF StagesDone
      <4> QED BY <1>1, <1>2, <4>1, <4>2
    <3> QED BY <3>1, <3>2
  <2>4. Elapsed' = 0
    <3>1. Elapsed' = cycles' - StagesDone' * StageClocks
      BY DEF Elapsed, StageClocks
    <3>2. Elapsed' = (before + 1) * clocks - (before + 1) * clocks
      BY <1>9, <1>10, <2>3, <3>1
    <3>3. \A x \in Nat, y \in Nat : (x + 1) * y - (x + 1) * y = 0
      OBVIOUS
    <3> QED BY <3>2, <3>3
  <2>5. Moment(0)'
    BY <1>3, <1>7, <2>1, StageBegins
  <2>6. Moment(Elapsed)'
    BY <2>4, <2>5 DEF Moment, Flight
  <2>7. Busy' /\ TransformTime'
    BY <2>1 DEF Busy, TransformTime
  <2>8. ControlInv'
    BY <1>2, <1>3, <1>11, <2>1, <2>2, <2>7 DEF ControlInv
  <2> QED BY <2>6, <2>7, <2>8 DEF EngineInv, IdleInv
<1> QED BY <1>12, <1>13

(* A start clears the controller, whose pipeline is empty.                 *)
LEMMA TransformStarts ==
  ASSUME ScheduleSound, EngineInv, NEW mode \in BOOLEAN, Start(mode)
  PROVE  EngineInv'
<1>1. Latency \in Nat \ {0} /\ LogN \in Nat \ {0} /\ StageClocks \in Nat
  BY EngineNumbers
<1>2. /\ ~Busy /\ inverse' = mode /\ stage' = (IF mode THEN 0 ELSE LogN - 1)
      /\ group' = 0 /\ writes' = 0 /\ cycles' = 0 /\ done' = FALSE
      /\ state' = "issue" /\ Shift
  BY DEF Start
<1>3. capture' = Empty /\ \A k \in 1..Latency : butterflies'[k] = Empty
  <2>1. state # "issue" /\ capture = Empty /\ \A k \in 1..Latency : butterflies[k] = Empty
    BY <1>2 DEF EngineInv, IdleInv, Busy
  <2>2. \A k \in 1..Latency : k # 1 => k \in 2..Latency /\ k - 1 \in 1..Latency
    BY <1>1
  <2> QED BY <1>2, <2>1, <2>2, ShiftEffect
<1> HIDE DEF Groups, LogN, StageClocks, Empty
<1>4. stage' \in 0..(LogN - 1) /\ StagesDone' = 0
  BY <1>1, <1>2 DEF StagesDone
<1>5. Elapsed' = 0
  <2>1. Elapsed' = cycles' - StagesDone' * StageClocks
    BY DEF Elapsed, StageClocks
  <2> QED BY <1>1, <1>2, <1>4, <2>1
<1>6. Moment(0)'
  BY <1>2, <1>3, StageBegins
<1>7. Moment(Elapsed)'
  BY <1>5, <1>6 DEF Moment, Flight
<1>8. Busy' /\ TransformTime'
  BY <1>2 DEF Busy, TransformTime
<1>9. ControlInv'
  BY <1>2, <1>4, <1>8 DEF ControlInv
<1> QED BY <1>7, <1>8, <1>9 DEF EngineInv, IdleInv

(* Loading a memory leaves an idle controller and an empty pipeline.       *)
LEMMA LoadLeavesIdle ==
  ASSUME EngineInv, ~Busy, Settle,
         UNCHANGED <<state, stage, inverse, cycles>>
  PROVE  EngineInv'
<1>1. done' = FALSE /\ capture' = capture /\ butterflies' = butterflies
  BY DEF Settle
<1>2. ~Busy' /\ TransformTime'
  BY <1>1 DEF Busy, TransformTime
<1>3. ControlInv'
  BY <1>1, <1>2 DEF EngineInv, ControlInv
<1>4. IdleInv'
  BY <1>1 DEF EngineInv, IdleInv
<1> QED BY <1>2, <1>3, <1>4 DEF EngineInv

(* A reset empties the pipeline, whatever it held.                         *)
LEMMA ResetEmpties ==
  ASSUME ScheduleSound, Reset
  PROVE  EngineInv'
<1>1. LogN \in Nat \ {0}
  BY EngineNumbers
<1>2. /\ state' = "idle" /\ stage' = 0 /\ inverse' = FALSE /\ cycles' = 0 /\ done' = FALSE
      /\ capture' = Empty /\ butterflies' = [k \in 1..Latency |-> Empty]
  BY DEF Reset
<1> HIDE DEF LogN, Empty
<1>3. ~Busy' /\ TransformTime'
  BY <1>2 DEF Busy, TransformTime
<1>4. ControlInv'
  <2>1. stage' \in 0..(LogN - 1) /\ cycles' \in Nat
    BY <1>1, <1>2
  <2> QED BY <1>2, <1>3, <2>1 DEF ControlInv
<1>5. IdleInv'
  BY <1>2 DEF IdleInv
<1> QED BY <1>3, <1>4, <1>5 DEF EngineInv

LEMMA EngineStarts ==
  ASSUME ScheduleSound, Init
  PROVE  EngineInv
<1>1. LogN \in Nat \ {0}
  BY EngineNumbers
<1>2. /\ state = "idle" /\ stage = 0 /\ inverse = FALSE /\ cycles = 0 /\ done = FALSE
      /\ capture = Empty /\ butterflies = [k \in 1..Latency |-> Empty]
  BY DEF Init, BenchInit, EngineInit
<1> HIDE DEF LogN, Empty
<1>3. ~Busy /\ TransformTime
  BY <1>2 DEF Busy, TransformTime
<1>4. ControlInv
  <2>1. stage \in 0..(LogN - 1) /\ cycles \in Nat
    BY <1>1, <1>2
  <2> QED BY <1>2, <1>3, <2>1 DEF ControlInv
<1>5. IdleInv
  BY <1>2 DEF IdleInv
<1> QED BY <1>3, <1>4, <1>5 DEF EngineInv

LEMMA EngineSteps ==
  ASSUME ScheduleSound, EngineInv, [Next]_vars
  PROVE  EngineInv'
<1>1. CASE UNCHANGED engineVars
  <2>1. /\ state' = state /\ stage' = stage /\ group' = group /\ writes' = writes
        /\ inverse' = inverse /\ cycles' = cycles /\ done' = done
        /\ capture' = capture /\ issued' = issued
        /\ butterflies' = butterflies /\ address' = address
    BY <1>1 DEF engineVars, controlVars, flightVars
  <2>2. (Busy' <=> Busy) /\ (TransformTime' <=> TransformTime)
    BY <2>1, Zenon DEF Busy, TransformTime, StageClocks, LogN
  <2>3. ControlInv' /\ IdleInv'
    BY <2>1, <2>2 DEF EngineInv, ControlInv, IdleInv
  <2>4. PICK G : G = Elapsed
    OBVIOUS
  <2>5. Elapsed' = G
    BY <2>1, <2>4 DEF Elapsed, StagesDone
  <2>6. Moment(G) => Moment(G)'
    BY <2>1 DEF Moment, Flight
  <2> QED BY <2>2, <2>3, <2>4, <2>5, <2>6 DEF EngineInv
<1>2. CASE BenchNext
  <2>1. CASE LoadVector
    <3>1. ~Busy /\ Settle /\ UNCHANGED <<state, stage, inverse, cycles>>
      BY <2>1 DEF LoadVector, LoadCoefficients
    <3> QED BY <3>1, LoadLeavesIdle
  <2>2. CASE LoadTables
    <3>1. ~Busy /\ Settle /\ UNCHANGED <<state, stage, inverse, cycles>>
      BY <2>2 DEF LoadTables, LoadTwiddles
    <3> QED BY <3>1, LoadLeavesIdle
  <2>3. CASE StartTransform
    BY <2>3, TransformStarts DEF StartTransform
  <2>4. CASE Clock
    BY <2>4, ClockAdvances, StageEnds DEF Clock
  <2>5. CASE ResetCore
    BY <2>5, ResetEmpties DEF ResetCore
  <2> QED BY <1>2, <2>1, <2>2, <2>3, <2>4, <2>5 DEF BenchNext
<1> QED BY <1>1, <1>2 DEF Next, Golden, Engine, vars

-----------------------------------------------------------------------------
(* In every behaviour of the engine, whatever resets and loads it meets,   *)
(* the clock of the stage tells what the issue, the capture register, the  *)
(* butterflies and the delayed addresses hold.                             *)
THEOREM EngineInvariant == ASSUME ScheduleSound PROVE Spec => []EngineInv
<1>1. Init => EngineInv
  BY EngineStarts
<1>2. EngineInv /\ [Next]_vars => EngineInv'
  BY EngineSteps
<1> QED BY <1>1, <1>2, PTL DEF Spec

(* A transform is done in the clocks the RTL's header and bench promise:   *)
(* per stage its groups, and a drain of the whole pipeline.                *)
THEOREM EngineOnTime == ASSUME ScheduleSound PROVE Spec => []TransformTime
<1>1. EngineInv => TransformTime
  BY DEF EngineInv, ControlInv
<1> QED BY <1>1, EngineInvariant, PTL

(* A group of the stage that was issued before lies in other addresses.    *)
LEMMA GroupsApart ==
  ASSUME ScheduleSound, NEW s \in 0..(LogN - 1),
         NEW g \in 0..(Groups - 1), NEW h \in 0..(Groups - 1), g # h,
         NEW l \in Lanes, NEW m \in Lanes
  PROVE  Addresses[s, g][l] # Addresses[s, h][m]
<1>1. GroupOf(s, Addresses[s, g][l]) = g
  BY DEF ScheduleSound
<1>2. GroupOf(s, Addresses[s, h][m]) = h
  BY DEF ScheduleSound
<1> QED BY <1>1, <1>2

(* At every clock that reads a group, for any number of coefficients whose *)
(* schedule is sound, any pipeline length and tables, and resets at any    *)
(* clock: eight banks serve it, and none of its coefficients is still in   *)
(* flight, so no butterfly works on a value of the stage before.           *)
THEOREM EngineReadsSettled == ASSUME ScheduleSound PROVE Spec => []ReadsSettled
<1>1. ASSUME EngineInv, state = "issue"
      PROVE  LET reads == {Addresses[stage, group][l] : l \in Lanes}
             IN  /\ Cardinality({Bank8[x] : x \in reads}) = 8
                 /\ reads \intersect InFlight = {}
  <2>1. Groups \in Nat \ {0} /\ Latency \in Nat \ {0}
    BY EngineNumbers
  <2>2. Busy /\ stage \in 0..(LogN - 1)
    BY <1>1 DEF Busy, EngineInv, ControlInv
  <2>3. PICK G \in Nat : G = Elapsed
    BY <1>1, <2>2, ElapsedNumbers
  <2>4. Moment(G)
    BY <1>1, <2>2, <2>3 DEF EngineInv
  <2>5. group = G /\ G < Groups
    BY <1>1, <2>4 DEF Moment
  <2>6. G \in 0..(Groups - 1)
    BY <2>1, <2>5
  <2> DEFINE lanes == Addresses[stage, group]
             reads == {lanes[l] : l \in Lanes}
  <2>7. Cardinality({Bank8[x] : x \in reads}) = 8
    <3>1. Cardinality({Bank8[lanes[l]] : l \in Lanes}) = 8
      BY <2>2, <2>5, <2>6 DEF ScheduleSound
    <3> HIDE DEF lanes
    <3>2. {Bank8[x] : x \in reads} = {Bank8[lanes[l]] : l \in Lanes}
      OBVIOUS
    <3> QED BY <3>1, <3>2
  <2>8. ASSUME NEW x \in reads, x \in InFlight PROVE FALSE
    <3>1. PICK l \in Lanes : x = Addresses[stage, G][l]
      BY <2>5, <2>8
    <3> HIDE DEF Groups, LogN, reads, lanes
    <3>2. CASE capture # Empty /\ \E m \in Lanes : x = issued[m]
      <4>1. PICK m \in Lanes : x = issued[m]
        BY <3>2
      <4>2. G \in 1..Groups /\ issued = Addresses[stage, G - 1]
        BY <3>2, <2>4 DEF Moment, Flight, Scheduled
      <4>3. G \in 1..Groups
        BY <4>2
      <4>4. G - 1 \in 0..(Groups - 1) /\ G # G - 1
        BY <2>1, <2>6, <4>3
      <4> QED BY <2>2, <2>6, <3>1, <4>1, <4>2, <4>4, GroupsApart
    <3>3. CASE \E k \in 1..Latency : butterflies[k] # Empty /\ \E m \in Lanes : x = address[k][m]
      <4>1. PICK k \in 1..Latency, m \in Lanes : butterflies[k] # Empty /\ x = address[k][m]
        BY <3>3
      <4>2. G - k \in 1..Groups /\ address[k] = Addresses[stage, G - k - 1]
        BY <4>1, <2>4 DEF Moment, Flight, Scheduled
      <4>3. G - k \in 1..Groups
        BY <4>2
      <4>4. G - k - 1 \in 0..(Groups - 1) /\ G # G - k - 1
        BY <2>1, <2>6, <4>3
      <4> QED BY <2>2, <2>6, <3>1, <4>1, <4>2, <4>4, GroupsApart
    <3> QED BY <2>8, <3>2, <3>3 DEF InFlight
  <2> QED BY <2>7, <2>8
<1>2. EngineInv => ReadsSettled
  BY <1>1 DEF ReadsSettled
<1> QED BY <1>2, EngineInvariant, PTL
=============================================================================
