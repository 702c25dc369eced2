---------------------------- MODULE BarrettProofs ----------------------------
(***************************************************************************)
(* The modular multiplier is exact for every word size and every modulus a *)
(* profile frame can load.  The lemmas are the arithmetic of one product,  *)
(* stage by stage; the invariant says which of them each register holds.   *)
(***************************************************************************)
EXTENDS BarrettPipeline, TLAPS

(* Only moduli a profile frame can load are ever launched.                 *)
ASSUME LaunchedModuli == Moduli \subseteq AcceptedModuli

-----------------------------------------------------------------------------
(* A quotient and its remainder, as the provers use them.                  *)
LEMMA Division ==
  ASSUME NEW x \in Nat, NEW d \in Nat, d > 0
  PROVE  /\ x \div d \in Nat /\ x % d \in Nat /\ x % d < d
         /\ x = d * (x \div d) + (x % d)
OBVIOUS

(* A value a register is wide enough for is stored unchanged.              *)
LEMMA Fits ==
  ASSUME NEW x \in Nat, NEW width \in Nat, x < width
  PROVE  x % width = x
OBVIOUS

(* A remainder is the one number below the divisor that a multiple of the  *)
(* divisor separates from the dividend.                                    *)
LEMMA RemainderUnique ==
  ASSUME NEW x \in Nat, NEW d \in Nat, d > 0, NEW k \in Nat, NEW r \in Nat,
         x = k * d + r, r < d
  PROVE  x % d = r
OBVIOUS

(* Multiplication keeps an order, in the forms used below.                 *)
LEMMA MultiplyMonotone ==
  ASSUME NEW x \in Nat, NEW y \in Nat, NEW k \in Nat, x <= y
  PROVE  x * k <= y * k /\ k * x <= k * y
OBVIOUS

LEMMA MultiplyStrict ==
  ASSUME NEW x \in Nat, NEW y \in Nat, NEW k \in Nat, k > 0, x < y
  PROVE  x * k < y * k /\ k * x < k * y
OBVIOUS

LEMMA CancelStrict ==
  ASSUME NEW x \in Nat, NEW y \in Nat, NEW k \in Nat, k > 0, x * k < y * k
  PROVE  x < y
<1>1. CASE x < y BY <1>1
<1>2. CASE y <= x BY <1>2, MultiplyMonotone
<1> QED BY <1>1, <1>2

-----------------------------------------------------------------------------
(* The bounds an accepted modulus gives: its reciprocal fits the mu port.  *)
LEMMA ReciprocalExact ==
  ASSUME NEW q \in AcceptedModuli
  PROVE  /\ q \in Nat /\ q > 0 /\ q < R
         /\ Reciprocal(q) = (R * R) \div q
         /\ Reciprocal(q) \in Nat /\ Reciprocal(q) < 2 * R
         /\ q * Reciprocal(q) <= R * R
         /\ R * R < q * Reciprocal(q) + q
<1> DEFINE S == R * R
<1>1. q \in Nat /\ q > 0 /\ q < R /\ S \div q < 2 * R
  BY RadixAssumption DEF AcceptedModuli
<1>2. S \in Nat
  BY RadixAssumption
<1>3. S \div q \in Nat /\ S = q * (S \div q) + (S % q) /\ S % q < q /\ S % q \in Nat
  <2> HIDE DEF S
  <2> QED BY <1>1, <1>2, Division
<1>4. Reciprocal(q) = S \div q
  <2> HIDE DEF S
  <2>1. Reciprocal(q) = (S \div q) % (2 * R)
    BY DEF Reciprocal, S
  <2> QED BY <2>1, <1>1, <1>3, RadixAssumption, Fits
<1> HIDE DEF S
<1>5. q * (S \div q) \in Nat
  BY <1>1, <1>3
<1>6. q * (S \div q) <= S /\ S < q * (S \div q) + q
  BY <1>1, <1>2, <1>3, <1>5
<1> QED BY <1>1, <1>3, <1>4, <1>6 DEF S

(* A product of two residues is below R squared and its register keeps it. *)
LEMMA ProductFits ==
  ASSUME NEW q \in AcceptedModuli, NEW a \in 0..(q - 1), NEW b \in 0..(q - 1)
  PROVE  /\ a * b \in Nat /\ a * b < R * R
         /\ (a * b) % (16 * R * R) = a * b
<1>1. q \in Nat /\ q > 0 /\ q < R /\ a \in Nat /\ b \in Nat /\ a < R /\ b < R
  BY RadixAssumption DEF AcceptedModuli
<1>2. a * b \in Nat /\ a * b <= a * R
  BY <1>1, RadixAssumption, MultiplyMonotone
<1>3. a * R < R * R
  BY <1>1, RadixAssumption, MultiplyStrict
<1>4. a * R \in Nat /\ R * R \in Nat
  BY <1>1, RadixAssumption
<1>5. a * b < R * R
  BY <1>2, <1>3, <1>4
<1>6. 16 * R * R \in Nat /\ R * R <= 16 * R * R
  <2> DEFINE S == R * R
  <2>1. S \in Nat /\ 16 * R * R = 16 * S
    BY RadixAssumption
  <2> HIDE DEF S
  <2>2. 16 * S \in Nat /\ S <= 16 * S
    BY <2>1
  <2> QED BY <2>1, <2>2 DEF S
<1>7. a * b < 16 * R * R
  BY <1>2, <1>4, <1>5, <1>6
<1> QED BY <1>2, <1>5, <1>6, <1>7, Fits

(* Splitting a product at the radix and multiplying both halves by a mu    *)
(* loses nothing: the recombined register holds the full product.          *)
LEMMA ReciprocalProduct ==
  ASSUME NEW z \in Nat, z < R * R, NEW mu \in Nat, mu < 2 * R
  PROVE  Recombined((LowHalf(z) * mu) % (2 * R * R),
                    (HighHalf(z) * mu) % (2 * R * R)) = z * mu
<1> DEFINE S == R * R
           low == z % R
           high == z \div R
<1>1. R \in Nat /\ R > 0
  BY RadixAssumption
<1>2. low \in Nat /\ low < R /\ high \in Nat /\ z = (R * high) + low
  BY <1>1, Division
<1>3. high < R
  <2>1. SUFFICES ASSUME high >= R PROVE FALSE
    BY <1>1, <1>2
  <2> HIDE DEF low, high
  <2>2. R * R <= R * high
    BY <1>1, <1>2, <2>1, MultiplyMonotone
  <2>3. R * high \in Nat /\ R * R \in Nat
    BY <1>1, <1>2
  <2> QED BY <1>2, <2>2, <2>3
<1>4. LowHalf(z) = low /\ HighHalf(z) = high
  <2>1. high % R = high
    <3> HIDE DEF high
    <3> QED BY <1>1, <1>2, <1>3, Fits
  <2> QED BY <2>1 DEF LowHalf, HighHalf
<1> HIDE DEF low, high
<1>5. ASSUME NEW half \in Nat, half < R
      PROVE  half * mu \in Nat /\ (half * mu) % (2 * R * R) = half * mu
  <2>1. half * mu <= R * mu
    BY <1>1, <1>5, MultiplyMonotone
  <2>2. R * mu < R * (2 * R)
    BY <1>1, MultiplyStrict
  <2>3. R * (2 * R) = 2 * R * R /\ 2 * R * R \in Nat /\ R * mu \in Nat
        /\ half * mu \in Nat
    BY <1>1, <1>5
  <2>4. half * mu < 2 * R * R
    BY <2>1, <2>2, <2>3
  <2> QED BY <2>3, <2>4, Fits
<1>6. /\ (LowHalf(z) * mu) % (2 * R * R) = low * mu
      /\ (HighHalf(z) * mu) % (2 * R * R) = high * mu
  BY <1>2, <1>3, <1>4, <1>5
<1>7. low * mu + (high * mu) * R = z * mu
  <2>1. (high * mu) * R = (R * high) * mu
    BY <1>1, <1>2
  <2>2. low * mu + (R * high) * mu = (low + R * high) * mu
    BY <1>1, <1>2
  <2>3. low + (R * high) = z
    BY <1>1, <1>2
  <2> QED BY <2>1, <2>2, <2>3
<1>8. z * mu \in Nat /\ z * mu < 2 * R * R * R
  <2>1. z * mu <= (R * R) * mu
    BY <1>1, MultiplyMonotone
  <2>2. (R * R) * mu < (R * R) * (2 * R)
    <3>1. R * R \in Nat /\ R * R > 0
      BY <1>1
    <3> QED BY <1>1, <3>1, MultiplyStrict
  <2>3. (R * R) * (2 * R) = 2 * R * R * R /\ (R * R) * (2 * R) \in Nat
        /\ (R * R) * mu \in Nat /\ z * mu \in Nat
    BY <1>1
  <2> QED BY <2>1, <2>2, <2>3
<1>9. 2 * R * R * R \in Nat
  BY <1>1
<1> QED BY <1>6, <1>7, <1>8, <1>9, Fits DEF Recombined

(* The quotient estimate is at most one too low: with it, the remainder is *)
(* below 2q, and one conditional subtraction makes it the residue.         *)
LEMMA EstimatedQuotient ==
  ASSUME NEW q \in AcceptedModuli, NEW z \in Nat, z < R * R,
         NEW x, x = (z * Reciprocal(q)) \div (R * R)
  PROVE  /\ x \in Nat /\ x < 2 * R
         /\ x * q \in Nat /\ x * q <= z
         /\ z < x * q + 2 * q
<1> DEFINE S == R * R
           mu == Reciprocal(q)
<1>1. S \in Nat /\ S > 0
  BY RadixAssumption
<1>2. /\ q \in Nat /\ q > 0 /\ q < R /\ mu \in Nat /\ mu < 2 * R
      /\ q * mu <= S /\ S < q * mu + q
  BY ReciprocalExact
<1>3. z < S /\ x = (z * mu) \div S
  OBVIOUS
<1> HIDE DEF S, mu
<1>4. z * mu \in Nat
  BY <1>2
<1>5. x \in Nat /\ x * S \in Nat /\ x * S <= z * mu /\ z * mu < x * S + S
  <2>1. x \in Nat /\ (z * mu) % S \in Nat /\ (z * mu) % S < S
        /\ z * mu = S * x + ((z * mu) % S)
    BY <1>1, <1>3, <1>4, Division
  <2>2. S * x = x * S /\ x * S \in Nat
    BY <1>1, <2>1
  <2> QED BY <1>1, <1>4, <2>1, <2>2
<1>6. x < 2 * R
  <2>1. z * mu <= S * mu
    BY <1>1, <1>2, <1>3, MultiplyMonotone
  <2>2. S * mu < S * (2 * R)
    BY <1>1, <1>2, RadixAssumption, MultiplyStrict
  <2>3. S * mu \in Nat /\ S * (2 * R) \in Nat /\ S * (2 * R) = (2 * R) * S
    BY <1>1, <1>2, RadixAssumption
  <2>4. x * S < (2 * R) * S
    BY <1>4, <1>5, <2>1, <2>2, <2>3
  <2> QED BY <1>1, <1>5, <2>4, RadixAssumption, CancelStrict
<1>7. x * q \in Nat /\ x * q <= z
  <2>1. (x * q) * S <= (z * mu) * q
    <3>1. (x * S) * q <= (z * mu) * q
      BY <1>2, <1>4, <1>5, MultiplyMonotone
    <3>2. (x * S) * q = (x * q) * S
      BY <1>1, <1>2, <1>5
    <3> QED BY <3>1, <3>2
  <2>2. (z * mu) * q <= z * S
    <3>1. z * (q * mu) <= z * S
      BY <1>1, <1>2, MultiplyMonotone
    <3>2. (z * mu) * q = z * (q * mu)
      BY <1>2
    <3> QED BY <3>1, <3>2
  <2>3. x * q \in Nat
    BY <1>2, <1>5
  <2>4. SUFFICES ASSUME z < x * q PROVE FALSE
    BY <2>3
  <2>5. z * S < (x * q) * S
    BY <1>1, <2>3, <2>4, MultiplyStrict
  <2>6. z * S \in Nat /\ (x * q) * S \in Nat /\ (z * mu) * q \in Nat
    BY <1>1, <1>2, <2>3
  <2> QED BY <2>1, <2>2, <2>5, <2>6
<1>8. z < x * q + 2 * q
  <2>1. (z * mu) * q < ((x + 1) * S) * q
    <3>1. z * mu < (x + 1) * S
      BY <1>1, <1>5
    <3> QED BY <1>1, <1>2, <1>4, <1>5, <3>1, MultiplyStrict
  <2>2. z * S <= (z * mu) * q + z * q
    <3>1. z * S <= z * (q * mu + q)
      BY <1>1, <1>2, MultiplyMonotone
    <3>2. z * (q * mu + q) = (z * mu) * q + z * q
      BY <1>2
    <3> QED BY <3>1, <3>2
  <2>3. z * q <= S * q
    BY <1>1, <1>2, <1>3, MultiplyMonotone
  <2>4. ((x + 1) * S) * q + S * q = (x * q + 2 * q) * S
    BY <1>1, <1>2, <1>5
  <2>5. /\ z * S \in Nat /\ (z * mu) * q \in Nat /\ z * q \in Nat /\ S * q \in Nat
        /\ ((x + 1) * S) * q \in Nat /\ x * q + 2 * q \in Nat
    BY <1>1, <1>2, <1>5
  <2>6. z * S < (x * q + 2 * q) * S
    BY <2>1, <2>2, <2>3, <2>4, <2>5
  <2> QED BY <1>1, <2>5, <2>6, CancelStrict
<1> QED BY <1>5, <1>6, <1>7, <1>8

(* The single conditional subtraction yields the residue.                  *)
LEMMA CorrectedIsResidue ==
  ASSUME NEW q \in Nat, q > 0, q < R, NEW z \in Nat, NEW k \in Nat,
         k * q <= z, z < k * q + 2 * q
  PROVE  Corrected(z - k * q, q) = z % q
<1> DEFINE r == z - k * q
<1>1. k * q \in Nat /\ 4 * R \in Nat /\ 2 * q < 4 * R
  BY RadixAssumption
<1>2. r \in Nat /\ r < 2 * q /\ z = k * q + r
  BY <1>1
<1> HIDE DEF r
<1>3. CASE r >= q
  <2>1. r - q \in Nat /\ r - q < q /\ r - q < 4 * R
    BY <1>1, <1>2, <1>3
  <2>2. z = (k + 1) * q + (r - q)
    <3>1. (k + 1) * q = k * q + q
      OBVIOUS
    <3> QED BY <1>1, <1>2, <3>1
  <2>3. z % q = r - q
    <3>1. k + 1 \in Nat
      OBVIOUS
    <3> QED BY <2>1, <2>2, <3>1, RemainderUnique
  <2>4. (r - q) % (4 * R) = r - q
    BY <1>1, <2>1, Fits
  <2>5. Corrected(r, q) = r - q
    BY <1>3, <2>4 DEF Corrected
  <2> QED BY <2>3, <2>5 DEF r
<1>4. CASE r < q
  <2>1. z % q = r
    BY <1>2, <1>4, RemainderUnique
  <2>2. r % (4 * R) = r
    BY <1>1, <1>2, Fits
  <2>3. Corrected(r, q) = r
    BY <1>2, <1>4, <2>2 DEF Corrected
  <2> QED BY <2>1, <2>3 DEF r
<1> QED BY <1>2, <1>3, <1>4

-----------------------------------------------------------------------------
(* What each register holds while its valid bit is set: a named step of    *)
(* the computation on the operands that trace says it works on.            *)
Launched(t) == t.q \in Moduli /\ t.a \in 0..(t.q - 1) /\ t.b \in 0..(t.q - 1)

TraceInv == \A i \in 0..7 : trace[i].valid => Launched(trace[i])

z(t)  == t.a * t.b
mu(t) == Reciprocal(t.q)
estimate(t) == (z(t) * mu(t)) \div (R * R)

Stage0Inv ==
  /\ stage0 \in [valid : BOOLEAN, a : Nat, b : Nat, q : Nat, mu : Nat]
  /\ stage0.valid = trace[0].valid
  /\ stage0.valid => /\ stage0.a = trace[0].a /\ stage0.b = trace[0].b
                     /\ stage0.q = trace[0].q /\ stage0.mu = mu(trace[0])
Stage1Inv ==
  /\ stage1.valid = trace[1].valid
  /\ stage1.valid =>
       stage1.product = z(trace[1]) /\ stage1.q = trace[1].q /\ stage1.mu = mu(trace[1])
Stage2Inv ==
  /\ stage2.valid = trace[2].valid
  /\ stage2.valid =>
       /\ stage2.low = (LowHalf(z(trace[2])) * mu(trace[2])) % (2 * R * R)
       /\ stage2.high = (HighHalf(z(trace[2])) * mu(trace[2])) % (2 * R * R)
       /\ stage2.product = z(trace[2]) /\ stage2.q = trace[2].q
Stage3Inv ==
  /\ stage3.valid = trace[3].valid
  /\ stage3.valid =>
       stage3.reciprocal = z(trace[3]) * mu(trace[3]) /\ stage3.product = z(trace[3]) /\ stage3.q = trace[3].q
Stage4Inv ==
  /\ stage4.valid = trace[4].valid
  /\ stage4.valid =>
       stage4.quotient = estimate(trace[4]) /\ stage4.product = z(trace[4]) /\ stage4.q = trace[4].q
Stage5Inv ==
  /\ stage5.valid = trace[5].valid
  /\ stage5.valid => /\ stage5.quotientProduct = estimate(trace[5]) * trace[5].q
                     /\ stage5.product = z(trace[5]) /\ stage5.q = trace[5].q
Stage6Inv ==
  /\ stage6.valid = trace[6].valid
  /\ stage6.valid => /\ stage6.remainder = z(trace[6]) - estimate(trace[6]) * trace[6].q
                     /\ stage6.q = trace[6].q
OutputInv ==
  /\ output.valid = trace[7].valid
  /\ output.valid => output.result = z(trace[7]) % trace[7].q

PipelineInv ==
  /\ TraceInv /\ Stage0Inv /\ Stage1Inv /\ Stage2Inv /\ Stage3Inv
  /\ Stage4Inv /\ Stage5Inv /\ Stage6Inv /\ OutputInv

-----------------------------------------------------------------------------
(* The arithmetic lemmas, restated for the operands of a launched product. *)
LEMMA StageArithmetic ==
  ASSUME NEW t, Launched(t)
  PROVE  /\ t.q \in AcceptedModuli
         /\ t.q \in Nat /\ t.q > 0 /\ t.q < R
         /\ mu(t) \in Nat /\ mu(t) < 2 * R
         /\ z(t) \in Nat /\ z(t) < R * R /\ z(t) % (16 * R * R) = z(t)
         /\ estimate(t) \in Nat /\ estimate(t) < 2 * R
         /\ estimate(t) * t.q \in Nat /\ estimate(t) * t.q <= z(t)
         /\ z(t) < estimate(t) * t.q + 2 * t.q
<1>1. t.q \in AcceptedModuli /\ t.a \in 0..(t.q - 1) /\ t.b \in 0..(t.q - 1)
  BY LaunchedModuli DEF Launched
<1>2. t.q \in Nat /\ t.q > 0 /\ t.q < R /\ mu(t) \in Nat /\ mu(t) < 2 * R
  BY <1>1, ReciprocalExact DEF mu
<1>3. z(t) \in Nat /\ z(t) < R * R /\ z(t) % (16 * R * R) = z(t)
  BY <1>1, ProductFits DEF z
<1>4. estimate(t) = (z(t) * Reciprocal(t.q)) \div (R * R)
  BY DEF estimate, mu
<1>5. /\ estimate(t) \in Nat /\ estimate(t) < 2 * R
      /\ estimate(t) * t.q \in Nat /\ estimate(t) * t.q <= z(t)
      /\ z(t) < estimate(t) * t.q + 2 * t.q
  BY <1>1, <1>3, <1>4, EstimatedQuotient
<1> QED BY <1>1, <1>2, <1>3, <1>5

(* Behind stage 0 every clock edge moves the invariant one stage on,       *)
(* whatever enters: the step a Launch and a Bubble share.                  *)
LEMMA AdvanceStep ==
  ASSUME PipelineInv, Advance, NEW operands, Follow(operands)
  PROVE  Stage1Inv' /\ Stage2Inv' /\ Stage3Inv' /\ Stage4Inv' /\ Stage5Inv'
         /\ Stage6Inv' /\ OutputInv'
<1>1. \A i \in 1..7 : trace'[i] = trace[i - 1]
  BY DEF Follow
<1>2. \A i \in 0..7 : trace[i].valid => Launched(trace[i])
  BY DEF PipelineInv, TraceInv
<1> USE DEF PipelineInv
<1>3. Stage1Inv'
  <2>1. stage1'.valid = trace'[1].valid
    BY <1>1 DEF Advance, Stage0Inv
  <2>2. ASSUME stage0.valid
        PROVE  stage1'.product = z(trace[0]) /\ stage1'.q = trace[0].q /\ stage1'.mu = mu(trace[0])
    <3>1. z(trace[0]) % (16 * R * R) = z(trace[0])
      <4>1. trace[0].valid
        BY <2>2 DEF Stage0Inv
      <4>2. Launched(trace[0])
        BY <4>1, <1>2
      <4> QED BY <4>2, StageArithmetic
    <3>2. stage0.a * stage0.b = z(trace[0])
      BY <2>2 DEF Stage0Inv, z
    <3> QED BY <2>2, <3>1, <3>2 DEF Advance, Stage0Inv
  <2>3. stage1'.valid = stage0.valid
    BY DEF Advance
  <2> QED BY <1>1, <1>2, <2>1, <2>2, <2>3 DEF Stage1Inv
<1>4. Stage2Inv'
  <2>1. /\ stage2'.valid = stage1.valid
        /\ stage2'.product = stage1.product /\ stage2'.q = stage1.q
        /\ stage2'.low = (LowHalf(stage1.product) * stage1.mu) % (2 * R * R)
        /\ stage2'.high = (HighHalf(stage1.product) * stage1.mu) % (2 * R * R)
    BY DEF Advance
  <2>2. trace'[2] = trace[1]
    BY <1>1
  <2> QED BY <2>1, <2>2 DEF Stage1Inv, Stage2Inv
<1>5. Stage3Inv'
  <2>1. /\ stage3'.valid = stage2.valid
        /\ stage3'.product = stage2.product /\ stage3'.q = stage2.q
        /\ stage3'.reciprocal = Recombined(stage2.low, stage2.high)
    BY DEF Advance
  <2>2. trace'[3] = trace[2]
    BY <1>1
  <2>3. ASSUME stage2.valid
        PROVE  Recombined(stage2.low, stage2.high) = z(trace[2]) * mu(trace[2])
    <3>1. trace[2].valid
      BY <2>3 DEF Stage2Inv
    <3>2. Launched(trace[2])
      BY <3>1, <1>2
    <3>3. /\ z(trace[2]) \in Nat /\ z(trace[2]) < R * R
          /\ mu(trace[2]) \in Nat /\ mu(trace[2]) < 2 * R
      BY <3>2, StageArithmetic
    <3>4. /\ stage2.low = (LowHalf(z(trace[2])) * mu(trace[2])) % (2 * R * R)
          /\ stage2.high = (HighHalf(z(trace[2])) * mu(trace[2])) % (2 * R * R)
      BY <2>3 DEF Stage2Inv
    <3> QED BY <3>3, <3>4, ReciprocalProduct
  <2> QED BY <2>1, <2>2, <2>3 DEF Stage2Inv, Stage3Inv
<1>6. Stage4Inv'
  <2>1. /\ stage4'.valid = stage3.valid
        /\ stage4'.product = stage3.product /\ stage4'.q = stage3.q
        /\ stage4'.quotient = (stage3.reciprocal \div (R * R)) % (2 * R)
    BY DEF Advance
  <2>2. trace'[4] = trace[3]
    BY <1>1
  <2>3. ASSUME stage3.valid
        PROVE  stage4'.quotient = estimate(trace[3])
    <3>1. stage3.reciprocal \div (R * R) = estimate(trace[3])
      BY <2>3 DEF Stage3Inv, estimate
    <3>2. estimate(trace[3]) \in Nat /\ estimate(trace[3]) < 2 * R
      <4>1. trace[3].valid
        BY <2>3 DEF Stage3Inv
      <4>2. Launched(trace[3])
        BY <4>1, <1>2
      <4> QED BY <4>2, StageArithmetic
    <3>3. estimate(trace[3]) % (2 * R) = estimate(trace[3])
      BY <3>2, RadixAssumption, Fits
    <3> QED BY <2>1, <3>1, <3>3
  <2> QED BY <2>1, <2>2, <2>3 DEF Stage3Inv, Stage4Inv
<1>7. Stage5Inv'
  <2>1. /\ stage5'.valid = stage4.valid
        /\ stage5'.product = stage4.product /\ stage5'.q = stage4.q
        /\ stage5'.quotientProduct = (stage4.quotient * stage4.q) % (8 * R * R)
    BY DEF Advance
  <2>2. trace'[5] = trace[4]
    BY <1>1
  <2>3. ASSUME stage4.valid
        PROVE  stage5'.quotientProduct = estimate(trace[4]) * trace[4].q
    <3> DEFINE k == estimate(trace[4]) * trace[4].q
               S == R * R
    <3>1. k \in Nat /\ k <= z(trace[4]) /\ z(trace[4]) \in Nat /\ z(trace[4]) < S
      <4>1. trace[4].valid
        BY <2>3 DEF Stage4Inv
      <4>2. Launched(trace[4])
        BY <4>1, <1>2
      <4> QED BY <4>2, StageArithmetic
    <3>2. stage4.quotient * stage4.q = k
      BY <2>3 DEF Stage4Inv
    <3>3. S \in Nat /\ 8 * R * R = 8 * S
      BY RadixAssumption
    <3> HIDE DEF k, S
    <3>4. k % (8 * S) = k
      BY <3>1, <3>3, Fits
    <3> QED BY <2>1, <3>2, <3>3, <3>4 DEF k
  <2> QED BY <2>1, <2>2, <2>3 DEF Stage4Inv, Stage5Inv
<1>8. Stage6Inv'
  <2>1. /\ stage6'.valid = stage5.valid /\ stage6'.q = stage5.q
        /\ stage6'.remainder = (stage5.product - stage5.quotientProduct) % (16 * R * R)
    BY DEF Advance
  <2>2. trace'[6] = trace[5]
    BY <1>1
  <2>3. ASSUME stage5.valid
        PROVE  stage6'.remainder = z(trace[5]) - estimate(trace[5]) * trace[5].q
    <3> DEFINE k == estimate(trace[5]) * trace[5].q
               S == R * R
    <3>1. k \in Nat /\ k <= z(trace[5]) /\ z(trace[5]) \in Nat /\ z(trace[5]) < S
      <4>1. trace[5].valid
        BY <2>3 DEF Stage5Inv
      <4>2. Launched(trace[5])
        BY <4>1, <1>2
      <4> QED BY <4>2, StageArithmetic
    <3>2. stage5.product - stage5.quotientProduct = z(trace[5]) - k
      BY <2>3 DEF Stage5Inv
    <3>3. S \in Nat /\ 16 * R * R = 16 * S
      BY RadixAssumption
    <3> HIDE DEF k, S
    <3>4. (z(trace[5]) - k) % (16 * S) = z(trace[5]) - k
      BY <3>1, <3>3, Fits
    <3> QED BY <2>1, <3>2, <3>3, <3>4 DEF k
  <2> QED BY <2>1, <2>2, <2>3 DEF Stage5Inv, Stage6Inv
<1>9. OutputInv'
  <2>1. output'.valid = stage6.valid
    BY DEF Advance
  <2>2. trace'[7] = trace[6]
    BY <1>1
  <2>3. ASSUME stage6.valid
        PROVE  output'.result = z(trace[6]) % trace[6].q
    <3>1. output'.result = Corrected(stage6.remainder, stage6.q)
      BY <2>3 DEF Advance
    <3>2. /\ stage6.remainder = z(trace[6]) - estimate(trace[6]) * trace[6].q
          /\ stage6.q = trace[6].q
      BY <2>3 DEF Stage6Inv
    <3>3. Corrected(z(trace[6]) - estimate(trace[6]) * trace[6].q, trace[6].q) = z(trace[6]) % trace[6].q
      <4>1. trace[6].valid
        BY <2>3 DEF Stage6Inv
      <4>2. Launched(trace[6])
        BY <4>1, <1>2
      <4>3. /\ trace[6].q \in Nat /\ trace[6].q > 0 /\ trace[6].q < R
            /\ z(trace[6]) \in Nat /\ estimate(trace[6]) \in Nat
            /\ estimate(trace[6]) * trace[6].q <= z(trace[6])
            /\ z(trace[6]) < estimate(trace[6]) * trace[6].q + 2 * trace[6].q
        BY <4>2, StageArithmetic
      <4> QED BY <4>3, CorrectedIsResidue
    <3> QED BY <3>1, <3>2, <3>3
  <2> QED BY <2>1, <2>2, <2>3 DEF Stage6Inv, OutputInv
<1> QED BY <1>3, <1>4, <1>5, <1>6, <1>7, <1>8, <1>9

(* Cleared registers hold nothing to be right or wrong about.              *)
LEMMA ClearedRegisters ==
  ASSUME Init
  PROVE  PipelineInv
<1>1. /\ trace[0].valid = FALSE /\ trace[1].valid = FALSE
      /\ trace[2].valid = FALSE /\ trace[3].valid = FALSE
      /\ trace[4].valid = FALSE /\ trace[5].valid = FALSE
      /\ trace[6].valid = FALSE /\ trace[7].valid = FALSE
  BY DEF Init, EmptyTrace, NoOperands
<1>2. /\ stage0.valid = FALSE /\ stage1.valid = FALSE /\ stage2.valid = FALSE
      /\ stage3.valid = FALSE /\ stage4.valid = FALSE /\ stage5.valid = FALSE
      /\ stage6.valid = FALSE /\ output.valid = FALSE
  BY DEF Init, ResetStage0, ResetStage1, ResetStage2, ResetStage3, ResetStage4,
         ResetStage5, ResetStage6, ResetOutput
<1>3. stage0 \in [valid : BOOLEAN, a : Nat, b : Nat, q : Nat, mu : Nat]
  BY DEF Init, ResetStage0
<1>4. TraceInv
  BY DEF Init, EmptyTrace, NoOperands, TraceInv
<1>5. Stage0Inv /\ Stage1Inv /\ Stage2Inv /\ Stage3Inv
  BY <1>1, <1>2, <1>3, Zenon DEF Stage0Inv, Stage1Inv, Stage2Inv, Stage3Inv
<1>6. Stage4Inv /\ Stage5Inv /\ Stage6Inv /\ OutputInv
  BY <1>1, <1>2, Zenon DEF Stage4Inv, Stage5Inv, Stage6Inv, OutputInv
<1> QED BY <1>4, <1>5, <1>6 DEF PipelineInv

(* ... whether power-on or reset_n cleared them.                           *)
LEMMA ResetRegisters ==
  ASSUME Reset
  PROVE  PipelineInv'
<1>1. /\ trace'[0].valid = FALSE /\ trace'[1].valid = FALSE
      /\ trace'[2].valid = FALSE /\ trace'[3].valid = FALSE
      /\ trace'[4].valid = FALSE /\ trace'[5].valid = FALSE
      /\ trace'[6].valid = FALSE /\ trace'[7].valid = FALSE
  BY DEF Reset, EmptyTrace, NoOperands
<1>2. /\ stage0'.valid = FALSE /\ stage1'.valid = FALSE /\ stage2'.valid = FALSE
      /\ stage3'.valid = FALSE /\ stage4'.valid = FALSE /\ stage5'.valid = FALSE
      /\ stage6'.valid = FALSE /\ output'.valid = FALSE
  BY DEF Reset, ResetStage0, ResetStage1, ResetStage2, ResetStage3, ResetStage4,
         ResetStage5, ResetStage6, ResetOutput
<1>3. stage0' \in [valid : BOOLEAN, a : Nat, b : Nat, q : Nat, mu : Nat]
  BY DEF Reset, ResetStage0
<1>4. TraceInv'
  BY DEF Reset, EmptyTrace, NoOperands, TraceInv
<1>5. Stage0Inv' /\ Stage1Inv' /\ Stage2Inv' /\ Stage3Inv'
  BY <1>1, <1>2, <1>3, Zenon DEF Stage0Inv, Stage1Inv, Stage2Inv, Stage3Inv
<1>6. Stage4Inv' /\ Stage5Inv' /\ Stage6Inv' /\ OutputInv'
  BY <1>1, <1>2, Zenon DEF Stage4Inv, Stage5Inv, Stage6Inv, OutputInv
<1> QED BY <1>4, <1>5, <1>6 DEF PipelineInv

(* Every register of the pipeline holds the step of the computation its    *)
(* stage stands for, at every clock of every behaviour.                    *)
THEOREM PipelineInvariant == Spec => []PipelineInv
<1>1. Init => PipelineInv
  BY ClearedRegisters
<1>2. PipelineInv /\ [Next]_vars => PipelineInv'
  <2> SUFFICES ASSUME PipelineInv, [Next]_vars PROVE PipelineInv'
    OBVIOUS
  <2>1. ASSUME NEW q \in Moduli, NEW a \in 0..(q - 1), NEW b \in 0..(q - 1),
               Launch(a, b, q)
        PROVE  PipelineInv'
    <3> DEFINE operands == [valid |-> TRUE, a |-> a, b |-> b, q |-> q]
    <3>1. Advance /\ Follow(operands)
      BY <2>1 DEF Launch
    <3>2. TraceInv'
      BY <3>1 DEF Follow, PipelineInv, TraceInv, Launched
    <3>3. Stage0Inv'
      <4>1. trace'[0] = operands
        BY <3>1 DEF Follow
      <4>2. q \in Nat /\ a \in Nat /\ b \in Nat /\ Reciprocal(q) \in Nat
        BY LaunchedModuli, ReciprocalExact
      <4>3. stage0' = [valid |-> TRUE, a |-> a, b |-> b, q |-> q, mu |-> Reciprocal(q)]
        BY <2>1 DEF Launch
      <4> QED BY <4>1, <4>2, <4>3 DEF Stage0Inv, mu
    <3> QED BY <3>1, <3>2, <3>3, AdvanceStep DEF PipelineInv
  <2>2. CASE Bubble
    <3>1. Advance /\ Follow(NoOperands)
      BY <2>2 DEF Bubble
    <3>2. TraceInv'
      BY <3>1 DEF Follow, PipelineInv, TraceInv, Launched, NoOperands
    <3>3. Stage0Inv'
      <4>1. trace'[0].valid = FALSE
        BY <3>1 DEF Follow, NoOperands
      <4>2. stage0 \in [valid : BOOLEAN, a : Nat, b : Nat, q : Nat, mu : Nat]
            /\ stage0' = [stage0 EXCEPT !.valid = FALSE]
        BY <2>2 DEF Bubble, PipelineInv, Stage0Inv
      <4>3. stage0' \in [valid : BOOLEAN, a : Nat, b : Nat, q : Nat, mu : Nat]
            /\ stage0'.valid = FALSE
        BY <4>2
      <4> QED BY <4>1, <4>3 DEF Stage0Inv
    <3> QED BY <3>1, <3>2, <3>3, AdvanceStep DEF PipelineInv
  <2>3. CASE Reset
    BY <2>3, ResetRegisters
  <2>4. CASE UNCHANGED vars
    BY <2>4 DEF vars, stages, PipelineInv, TraceInv, Stage0Inv, Stage1Inv,
       Stage2Inv, Stage3Inv, Stage4Inv, Stage5Inv, Stage6Inv, OutputInv, z, mu,
       estimate
  <2> QED BY <2>1, <2>2, <2>3, <2>4 DEF Next
<1> QED BY <1>1, <1>2, PTL DEF Spec

(* The result register always shows the exact residue of the product       *)
(* launched seven clocks earlier, under the modulus it was launched with.  *)
THEOREM Exactness == Spec => []ResultExact
<1>1. PipelineInv => ResultExact
  BY DEF PipelineInv, OutputInv, ResultExact, z
<1> QED BY <1>1, PipelineInvariant, PTL

(* A product is never lost, invented or held back.                         *)
THEOREM Latency7 == Spec => []LatencyFixed
<1>1. PipelineInv => LatencyFixed
  BY DEF PipelineInv, Stage0Inv, OutputInv, LatencyFixed
<1> QED BY <1>1, PipelineInvariant, PTL

(* One conditional subtraction is always enough.                           *)
THEOREM OneSubtraction == Spec => []SingleSubtraction
<1>1. PipelineInv => SingleSubtraction
  <2> SUFFICES ASSUME PipelineInv, stage6.valid
               PROVE  stage6.remainder < 2 * stage6.q
    BY DEF SingleSubtraction
  <2>1. /\ trace[6].valid /\ stage6.q = trace[6].q
        /\ stage6.remainder = z(trace[6]) - estimate(trace[6]) * trace[6].q
    BY DEF PipelineInv, Stage6Inv
  <2>2. Launched(trace[6])
    BY <2>1 DEF PipelineInv, TraceInv
  <2>3. /\ z(trace[6]) \in Nat /\ estimate(trace[6]) * trace[6].q \in Nat /\ trace[6].q \in Nat
        /\ z(trace[6]) < estimate(trace[6]) * trace[6].q + 2 * trace[6].q
    BY <2>2, StageArithmetic
  <2> QED BY <2>1, <2>3
<1> QED BY <1>1, PipelineInvariant, PTL
=============================================================================
