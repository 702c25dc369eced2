--------------------------- MODULE GoldenProduct ----------------------------
(***************************************************************************)
(* model/golden_model_n4096.py: a profile is read and validated, tables    *)
(* are derived from it, and a round trip or a product is computed butterfly *)
(* by butterfly and compared with a reference.                             *)
(***************************************************************************)
EXTENDS Integers, FiniteSets, Negacyclic

CONSTANTS Profiles,   \* the profiles that may be read
          Scalars     \* the coefficients of the inputs' terms

Tests == {"round trip", "sparse product", "dense product"}

VARIABLES pc, profile, test, a, b,  \* the program, its profile and inputs
          tables,     \* factors and twiddles main() derives
          running,    \* the transform being computed
          memory, cursor, \* its cells, and where its loops are
          spectrum, result

goldenVars == <<pc, profile, test, a, b, tables, running, memory, cursor, spectrum, result>>

(* Inputs: a scaled monomial of lowest, of next or of highest degree, and   *)
(* two polynomials without a zero coefficient.                              *)
Monomials(n, q) ==
  {[i \in Index(n) |-> IF i = k THEN c % q ELSE 0] :
     k \in {0, 1, n - 1} \intersect Index(n), c \in Scalars}
Dense(n, q)     == {[i \in Index(n) |-> q - 1], [i \in Index(n) |-> (i + 1) % q]}
Inputs(n, q)    == Monomials(n, q) \union Dense(n, q)
Entries(poly)   == LET support == {i \in DOMAIN poly : poly[i] # 0}
                   IN  [i \in support |-> poly[i]]

FirstButterfly == [operation |-> 0, stage |-> 0, base |-> 0, j |-> 0]
None  == <<>>

GoldenInit ==
  /\ pc = "profile" /\ profile \in Profiles /\ test \in Tests
  /\ a \in Inputs(profile.n, profile.q)
  /\ b \in IF test = "round trip" THEN {a} ELSE Inputs(profile.n, profile.q)
  /\ running = "a" /\ cursor = FirstButterfly
  /\ tables = None /\ memory = None /\ result = None
  /\ spectrum = [input \in {"a", "b"} |-> None]

(* main() up to the first transform.                                        *)
Accepted(p) == ShapeAccepted(p) /\ ReciprocalsExist(p) /\ RootsAccepted(p)

Validate ==
  /\ pc = "profile"
  /\ IF Accepted(profile)
       THEN /\ pc' = "forward"
            /\ tables' = [twist |-> TwistFactors(profile),
                          scale |-> InverseScaleFactors(profile),
                          place |-> BitReverseTable(profile),
                          forward |-> StageTwiddles(Omega(profile), profile.n, profile.q),
                          inverse |-> StageTwiddles(OmegaInverse(profile), profile.n, profile.q)]
       ELSE pc' = "rejected" /\ UNCHANGED tables
  /\ UNCHANGED <<profile, test, a, b, running, memory, cursor, spectrum, result>>

(* A forward transform is twisted and placed bit-reversed ...               *)
Twisted(poly) == Componentwise(poly, tables.twist, profile.q)

LoadForward ==
  /\ pc = "forward"
  /\ memory' = PlaceBitReversed(Twisted(IF running = "a" THEN a ELSE b), tables.place)
  /\ cursor' = FirstButterfly /\ pc' = "cyclic"
  /\ UNCHANGED <<profile, test, a, b, tables, running, spectrum, result>>

(* ... and the inverse one starts from the spectrum, or from the product of *)
(* the two spectra.                                                         *)
Transformed == IF test = "round trip" THEN spectrum["a"]
               ELSE Componentwise(spectrum["a"], spectrum["b"], profile.q)

LoadInverse ==
  /\ pc = "inverse"
  /\ memory' = PlaceBitReversed(Transformed, tables.place)
  /\ cursor' = FirstButterfly /\ running' = "product" /\ pc' = "cyclic"
  /\ UNCHANGED <<profile, test, a, b, tables, spectrum, result>>

(* The loops of cyclic_ntt_from_bit_reversed and of write_schedule.         *)
Half  == 2^cursor.stage
Span  == 2 * Half
Left  == cursor.base + cursor.j
Right == Left + Half
Twiddle_forward == tables.forward[cursor.stage][cursor.j]  \* a slip, in the inverse
Twiddle == (IF running = "product" THEN tables.inverse ELSE tables.forward)[cursor.stage][cursor.j]
TwiddleAddress == Half - 1 + cursor.j

Advanced ==
  [operation |-> cursor.operation + 1,
   stage |-> IF cursor.j = Half - 1 /\ cursor.base + Span >= profile.n
               THEN cursor.stage + 1 ELSE cursor.stage,
   base  |-> IF cursor.j < Half - 1 THEN cursor.base
             ELSE IF cursor.base + Span < profile.n THEN cursor.base + Span ELSE 0,
   j     |-> IF cursor.j < Half - 1 THEN cursor.j + 1 ELSE 0]

StagesLeft == cursor.stage < Log2(profile.n)

Butterfly ==
  /\ pc = "cyclic" /\ StagesLeft
  /\ LET u == memory[Left]
         v == (memory[Right] * Twiddle) % profile.q
     IN  memory' = [memory EXCEPT ![Left]  = (u + v) % profile.q,
                                  ![Right] = (u - v) % profile.q]
  /\ cursor' = Advanced
  /\ UNCHANGED <<pc, profile, test, a, b, tables, running, spectrum, result>>

EndForward ==
  /\ pc = "cyclic" /\ ~StagesLeft /\ running # "product"
  /\ spectrum' = [spectrum EXCEPT ![running] = memory]
  /\ IF running = "a" /\ test # "round trip"
       THEN running' = "b" /\ pc' = "forward"
       ELSE pc' = "inverse" /\ UNCHANGED running
  /\ UNCHANGED <<profile, test, a, b, tables, memory, cursor, result>>

EndInverse ==
  /\ pc = "cyclic" /\ ~StagesLeft /\ running = "product"
  /\ result' = Componentwise(memory, tables.scale, profile.q)
  /\ pc' = "compare"
  /\ UNCHANGED <<profile, test, a, b, tables, running, memory, cursor, spectrum>>

(* The three validations; every point of the dense one may be drawn.        *)
EvaluationPoint(i) == PowMod(Psi(profile), 2 * i + 1, profile.q)

AgreesAt(i) ==
  LET point    == EvaluationPoint(i)
      At(poly) == Evaluate(poly, point, profile.q)
  IN  /\ PowMod(point, profile.n, profile.q) = profile.q - 1
      /\ At(result) = (At(a) * At(b)) % profile.q

Matches ==
  CASE test = "round trip"     -> result = a
    [] test = "sparse product" ->
         result = SparseReference(Entries(a), Entries(b), profile.n, profile.q)
    [] test = "dense product"  -> \A i \in Index(profile.n) : AgreesAt(i)

Compare ==
  /\ pc = "compare"
  /\ pc' = IF Matches THEN "passed" ELSE "raised"
  /\ UNCHANGED <<profile, test, a, b, tables, running, memory, cursor, spectrum, result>>

GoldenNext == \/ Validate \/ LoadForward \/ LoadInverse \/ Butterfly
              \/ EndForward \/ EndInverse \/ Compare

-----------------------------------------------------------------------------
(* What the transform in progress was given, in natural order, and its root. *)
Natural == CASE running = "a" -> Twisted(a)
             [] running = "b" -> Twisted(b)
             [] running = "product" -> Transformed
Root == IF running = "product" THEN OmegaInverse(profile) ELSE Omega(profile)

(* How many stages a cell has been through.                                 *)
Passed(x) ==
  LET block == x - (x % Span)
      done  == \/ block < cursor.base
               \/ block = cursor.base /\ x % Half < cursor.j
  IN  IF StagesLeft /\ done THEN cursor.stage + 1 ELSE cursor.stage

SumOver(Term(_), n, q) ==
  LET sum[k \in 0..n] == IF k = 0 THEN 0 ELSE (sum[k - 1] + Term(k - 1)) % q
  IN  sum[n]

(* At every step of a transform, a cell that has been through s stages      *)
(* holds its coefficient of the 2^s-point transform of its block's inputs,  *)
(* those whose addresses agree with the block number in reverse: the loop   *)
(* invariant of cyclic_ntt_from_bit_reversed.                               *)
CellIsPartialTransform ==
  pc = "cyclic" =>
    \A x \in Index(profile.n) :
      LET size   == 2^Passed(x)
          stride == profile.n \div size
          first  == BitReverse(x \div size, Log2(profile.n) - Passed(x))
          root   == PowMod(Root, stride, profile.q)
          Term(t) == Natural[first + t * stride] * PowMod(root, (x % size) * t, profile.q)
      IN  memory[x] = SumOver(Term, size, profile.q)

(* Whatever profile main() accepts, none of its validations can fail: the   *)
(* round trip is exact, and the product is the negacyclic one.              *)
ValidationSucceeds == pc # "raised"
=============================================================================
