--------------------------- MODULE GoldenModel16 ----------------------------
(***************************************************************************)
(* model/golden_model.py, the n = 16 golden model: a decimation-in-time    *)
(* transform that gathers its input by the bit-reversed permutation and    *)
(* multiplies up one running twiddle per block, the memories its trace     *)
(* records after every stage, and the rows of its schedule.                *)
(***************************************************************************)
LOCAL INSTANCE Integers
LOCAL INSTANCE FiniteSetsExt
LOCAL INSTANCE Negacyclic

Reduced(values, q) == \A i \in DOMAIN values : values[i] \in Index(q)

(* Position i takes its value from the address with i's bits reversed.      *)
Gather(values, n) == [i \in Index(n) |-> values[BitReverse(i, Log2(n))]]

StageRoot(root, n, stage, q) == PowMod(root, n \div 2^(stage + 1), q)

(* The twiddle after `offset' butterflies of a block.                       *)
RunningTwiddle(root, n, stage, offset, q) ==
  LET twiddle[o \in 0..offset] ==
        IF o = 0 THEN 1 ELSE (twiddle[o - 1] * StageRoot(root, n, stage, q)) % q
  IN  twiddle[offset]

(* One stage: every butterfly reads and writes two cells of its own.        *)
Butterflies(memory, root, n, stage, q) ==
  LET half    == 2^stage
      product == [x \in {y \in Index(n) : y % (2 * half) >= half} |->
                    (RunningTwiddle(root, n, stage, x % half, q) * memory[x]) % q]
  IN  [x \in Index(n) |-> IF x \in DOMAIN product
                            THEN (memory[x - half] - product[x]) % q
                            ELSE (memory[x] + product[x + half]) % q]

(* memory_after of stage s - 1; 0 is the gathered input.                    *)
Trace(values, root, n, q) ==
  LET after[s \in 0..Log2(n)] ==
        IF s = 0 THEN Gather(values, n)
        ELSE Butterflies(after[s - 1], root, n, s - 1, q)
  IN  after

Forward(values, p) ==
  LET twisted == [i \in Index(p.n) |-> (values[i] * PowMod(Psi(p), i, p.q)) % p.q]
  IN  Trace(twisted, Omega(p), p.n, p.q)[Log2(p.n)]

Backward(values, p) ==
  LET cyclic == Trace(values, OmegaInverse(p), p.n, p.q)[Log2(p.n)]
  IN  [i \in Index(p.n) |->
         (cyclic[i] * ((NInverse(p) * PowMod(PsiInverse(p), i, p.q)) % p.q)) % p.q]

Schoolbook(left, right, n, q) ==
  LET Term(i, k) == IF k >= i THEN left[i] * right[k - i]
                              ELSE -(left[i] * right[k + n - i])
  IN  [k \in Index(n) |-> MapThenSumSet(LAMBDA i : Term(i, k), Index(n)) % q]

(* Row number `butterfly' of a stage of forward_schedule.csv.               *)
ScheduleRow(root, n, q, stage, butterfly) ==
  LET half == 2^stage
      a    == (butterfly \div half) * 2 * half + (butterfly % half)
  IN  [a |-> a, b |-> a + half,
       twiddle |-> RunningTwiddle(root, n, stage, butterfly % half, q)]
=============================================================================
