--------------------------- MODULE GoldenModel256 ---------------------------
(***************************************************************************)
(* model/golden_model_n256.py, the n = 256 golden model: the transform     *)
(* with a power of the root per butterfly, its compact twiddle ROM, and    *)
(* the schedule its CSV lists with addresses into that ROM.                *)
(***************************************************************************)
LOCAL INSTANCE Integers
LOCAL INSTANCE FiniteSetsExt
LOCAL INSTANCE Negacyclic

(* Stage s contributes 2^s powers of the root, in steps of n / 2^(s+1).     *)
CompactTwiddleRom(root, n, q) ==
  [address \in Index(n - 1) |->
     LET stage == Max({s \in Index(Log2(n)) : 2^s - 1 <= address})
     IN  PowMod(root, (address - (2^stage - 1)) * (n \div 2^(stage + 1)), q)]

Placed(values, n, q) ==
  [x \in Index(n) |->
     values[CHOOSE i \in Index(n) : BitReverse(i, Log2(n)) = x] % q]

StageSnapshot(memory, root, n, stage, q) ==
  LET half == 2^stage
      Twiddle(local) == PowMod(root, local * (n \div (2 * half)), q)
      Product(b)     == (Twiddle(b % half) * memory[b]) % q
  IN  [x \in Index(n) |-> IF x % (2 * half) < half
                            THEN (memory[x] + Product(x + half)) % q
                            ELSE (memory[x - half] - Product(x)) % q]

(* stage_snapshots, with the bit-reversed input in front.                   *)
Snapshots(values, root, n, q) ==
  LET snapshot[s \in 0..Log2(n)] ==
        IF s = 0 THEN Placed(values, n, q)
        ELSE StageSnapshot(snapshot[s - 1], root, n, s - 1, q)
  IN  snapshot

ForwardNegacyclic(coefficients, p) ==
  LET twisted == [i \in Index(p.n) |-> (coefficients[i] * PowMod(Psi(p), i, p.q)) % p.q]
  IN  Snapshots(twisted, Omega(p), p.n, p.q)[Log2(p.n)]

(* A slip: the scaling by the reciprocal of n is forgotten.                 *)
InverseNegacyclic_unscaled(transformed, p) ==
  LET cyclic == Snapshots(transformed, OmegaInverse(p), p.n, p.q)[Log2(p.n)]
  IN  [i \in Index(p.n) |-> (cyclic[i] * PowMod(PsiInverse(p), i, p.q)) % p.q]
InverseNegacyclic(transformed, p) ==
  LET cyclic == Snapshots(transformed, OmegaInverse(p), p.n, p.q)[Log2(p.n)]
  IN  [i \in Index(p.n) |->
         (cyclic[i] * NInverse(p) * PowMod(PsiInverse(p), i, p.q)) % p.q]

NegacyclicSchoolbook(left, right, n, q) ==
  [k \in Index(n) |->
     (MapThenSumSet(LAMBDA i : left[i] * right[k - i], 0..k)
      - MapThenSumSet(LAMBDA i : left[i] * right[k + n - i], (k + 1)..(n - 1))) % q]

(* The row of operation number `operation' of butterfly_schedule.csv.       *)
ScheduleLine(n, operation) ==
  LET stage     == operation \div (n \div 2)
      butterfly == operation % (n \div 2)
      half      == 2^stage
      block     == butterfly \div half
      local     == butterfly % half
  IN  [stage |-> stage, a |-> block * 2 * half + local,
       b |-> block * 2 * half + local + half, twiddleAddress |-> half - 1 + local]

(* What validate_roots asks of the source root before anything is derived.  *)
SourceRootPrimitive(p) ==
  /\ p.sourceOrder % p.order = 0
  /\ PowMod(p.root, p.sourceOrder, p.q) = 1
  /\ PowMod(p.root, p.sourceOrder \div 2, p.q) = p.q - 1
=============================================================================
