----------------------------- MODULE Transforms ------------------------------
(***************************************************************************)
(* The transform programs side by side: a behaviour is one execution of    *)
(* the n = 4096 golden model, or one of the four-butterfly engine under    *)
(* its test bench, and their schedules, tables, memories and results are   *)
(* compared with those of the other models of the same transform.          *)
(***************************************************************************)
EXTENDS GoldenProduct, EngineBench
LOCAL INSTANCE Sequences

N16    == INSTANCE GoldenModel16
N256   == INSTANCE GoldenModel256
Paired == INSTANCE PairedSchedule

VARIABLE program    \* which one this behaviour executes

vars == <<program, goldenVars, engineVars, benchVars>>

(* The program not executed stays in one of its initial states.             *)
Dormant ==
  /\ profile = (CHOOSE p \in Profiles : TRUE) /\ test = "round trip"
  /\ a = (CHOOSE i \in Inputs(profile.n, profile.q) : TRUE)

Init ==
  /\ BenchInit /\ GoldenInit
  /\ \/ program = "golden" /\ tower = CHOOSE t \in Towers : TRUE
     \/ program = "engine" /\ Dormant

Golden == program = "golden" /\ GoldenNext /\ UNCHANGED <<program, engineVars, benchVars>>
Engine == program = "engine" /\ BenchNext  /\ UNCHANGED <<program, goldenVars>>

Next == Golden \/ Engine
Spec == Init /\ [][Next]_vars

-----------------------------------------------------------------------------
(* At every butterfly of the n = 4096 golden model, the n = 16 and the      *)
(* n = 256 models number, address and weight that butterfly alike and find  *)
(* the twiddle at the same address of their ROM, so that a ROM one script   *)
(* writes drives the controller another one verified; and the two-butterfly *)
(* schedule covers the stage, every butterfly once, no two of its four      *)
(* coefficients in one bank.                                                *)
SchedulesAgree ==
  pc = "cyclic" /\ StagesLeft =>
    LET n == profile.n
        q == profile.q
        wide  == N256!ScheduleLine(n, cursor.operation)
        small == N16!ScheduleRow(Root, n, q, cursor.stage, cursor.operation % (n \div 2))
        roms3 == {N256!CompactTwiddleRom(Root, n, q),
                  Flatten(IF running = "product" THEN tables.inverse ELSE tables.forward)}
        pairs == {<<x, x + Half>> : x \in {y \in Index(n) : y % Span < Half}}
    IN  /\ wide = [stage |-> cursor.stage, a |-> Left, b |-> Right,
                   twiddleAddress |-> TwiddleAddress]
        /\ small = [a |-> Left, b |-> Right, twiddle |-> Twiddle]
        /\ \A rom \in roms3 : rom[TwiddleAddress] = Twiddle
        /\ n >= 4 => Paired!StageVerified(cursor.stage, pairs, Log2(n))

(* The memories the three golden models record after every stage are the    *)
(* same, and so are their transforms, their products and their references:  *)
(* the vectors of one check an implementation of another.                   *)
SnapshotsAgree ==
  LET n == profile.n
      q == profile.q
  IN  /\ pc = "cyclic" /\ cursor.base + cursor.j = 0 =>
           /\ N16!Reduced(Natural, q)
           /\ memory = N16!Trace(Natural, Root, n, q)[cursor.stage]
           /\ memory = N256!Snapshots(Natural, Root, n, q)[cursor.stage]
      /\ pc = "compare" =>
           /\ result = N16!Backward(Transformed, profile)
           /\ result = N256!InverseNegacyclic(Transformed, profile)
           /\ spectrum["a"] = N16!Forward(a, profile)
           /\ spectrum["a"] = N256!ForwardNegacyclic(a, profile)
           /\ test # "round trip" =>
                /\ result = N16!Schoolbook(a, b, n, q)
                /\ result = N256!NegacyclicSchoolbook(a, b, n, q)
      /\ pc = "forward" => N256!SourceRootPrimitive(profile)
=============================================================================
