----------------------------- MODULE Negacyclic -----------------------------
(***************************************************************************)
(* Number-theoretic transforms modulo X^n + 1, as model/golden_model_n4096 *)
(* defines them: a profile and what is derived from it, the tables the     *)
(* transform is driven by, and the two references its results are compared *)
(* with.  A polynomial is the function from 0..n-1 to its coefficients.    *)
(***************************************************************************)
LOCAL INSTANCE Integers
LOCAL INSTANCE FiniteSets
LOCAL INSTANCE FiniteSetsExt

Index(n) == 0..(n - 1)

IsPowerOfTwo(n) == \E k \in 0..n : n = 2^k
Log2(n)         == CHOOSE k \in 0..n : n = 2^k

PowMod(base, exponent, q) ==
  LET power[k \in 0..exponent] == IF k = 0 THEN 1 ELSE (power[k - 1] * base) % q
  IN  power[exponent]

Reciprocals(x, q) == {y \in Index(q) : (x * y) % q = 1}
Reciprocal(x, q)  == CHOOSE y \in Reciprocals(x, q) : TRUE

(* The low `width' bits of an address in the opposite order.                *)
BitReverse(value, width) ==
  MapThenSumSet(LAMBDA i : ((value \div 2^i) % 2) * 2^(width - 1 - i), Index(width))

Powers(base, count, q) == [j \in Index(count) |-> PowMod(base, j, q)]

StageTwiddles(root, n, q) ==
  [stage \in Index(Log2(n)) |->
     Powers(PowMod(root, n \div (2 * 2^stage), q), 2^stage, q)]

(* Stages one behind the other: stage s starts where those before it end.   *)
StageStart(stages, s) ==
  MapThenSumSet(LAMBDA r : Cardinality(DOMAIN stages[r]), {r \in DOMAIN stages : r < s})
Flatten(stages) ==
  [k \in Index(StageStart(stages, Cardinality(DOMAIN stages))) |->
     LET s == Max({r \in DOMAIN stages : StageStart(stages, r) <= k})
     IN  stages[s][k - StageStart(stages, s)]]

(* The list whose element number table[i] is values[i].                     *)
PlaceBitReversed(values, table) ==
  [x \in DOMAIN values |->
     LET writers == {i \in DOMAIN values : table[i] = x}
     IN  IF writers = {} THEN 0 ELSE values[Max(writers)]]

(* Coefficient by coefficient: the twist, the product of two transforms and *)
(* the scaling of the inverse transform.                                    *)
Componentwise(x, y, q) == [i \in DOMAIN x |-> (x[i] * y[i]) % q]

-----------------------------------------------------------------------------
(* A profile as it is read, and the constants main() derives from it.       *)
Degree(p)     == p.sourceN \div p.n
Psi(p)        == PowMod(p.root, Degree(p), p.q)
Omega(p)      == PowMod(Psi(p), 2, p.q)
PsiInverse(p) == Reciprocal(Psi(p), p.q)
OmegaInverse(p) == Reciprocal(Omega(p), p.q)
NInverse(p)   == Reciprocal(p.n, p.q)

(* The shape main() asks of a profile before it derives anything.           *)
ShapeAccepted(p) ==
  /\ IsPowerOfTwo(p.n) /\ IsPowerOfTwo(p.sourceN)
  /\ p.order = 2 * p.n /\ p.sourceOrder = 2 * p.sourceN
  /\ p.n <= p.sourceN /\ p.sourceN % p.n = 0

(* pow(x, -1, q) raises unless x has a reciprocal.                          *)
ReciprocalsExist(p) ==
  \A x \in {Psi(p), Omega(p), p.n} : Reciprocals(x, p.q) # {}

(* A slip: any root of unity of order 2 n or less will do.                  *)
RootsAccepted_cyclic(p) ==
  /\ PowMod(Psi(p), 2 * p.n, p.q) = 1
  /\ (Psi(p) * Psi(p)) % p.q = Omega(p)
RootsAccepted(p) ==
  /\ PowMod(Psi(p), p.n, p.q) = p.q - 1
  /\ PowMod(Psi(p), 2 * p.n, p.q) = 1
  /\ PowMod(Omega(p), p.n, p.q) = 1
  /\ PowMod(Omega(p), p.n \div 2, p.q) = p.q - 1
  /\ (Psi(p) * PsiInverse(p)) % p.q = 1
  /\ (Omega(p) * OmegaInverse(p)) % p.q = 1
  /\ (p.n * NInverse(p)) % p.q = 1
  /\ (Psi(p) * Psi(p)) % p.q = Omega(p)

TwistFactors(p) == Powers(Psi(p), p.n, p.q)
InverseScaleFactors(p) ==
  [i \in Index(p.n) |-> (NInverse(p) * PowMod(PsiInverse(p), i, p.q)) % p.q]
BitReverseTable(p) == [i \in Index(p.n) |-> BitReverse(i, Log2(p.n))]

-----------------------------------------------------------------------------
(* References: the product term by term, from the nonzero entries of both   *)
(* factors, and the value of a polynomial at a point.                       *)
Entry(entries, i) == IF i \in DOMAIN entries THEN entries[i] ELSE 0

SparseReference(left, right, n, q) ==
  [k \in Index(n) |->
     MapThenSumSet(LAMBDA i : left[i] * (Entry(right, k - i) - Entry(right, k + n - i)),
                   DOMAIN left) % q]

Evaluate(coefficients, point, q) ==
  LET n == Cardinality(DOMAIN coefficients)
      horner[i \in 0..n] ==
        IF i = n THEN 0 ELSE (horner[i + 1] * point + coefficients[i]) % q
  IN  horner[0]
=============================================================================
