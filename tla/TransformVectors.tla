-------------------------- MODULE TransformVectors --------------------------
(***************************************************************************)
(* What scripts/vectors/prepare_ntt4096_four_butterfly_vectors.py expects  *)
(* of the transform engines: a forward decimation-in-frequency transform   *)
(* in place, natural order to bit-reversed order, and an unscaled inverse  *)
(* decimation-in-time transform back, with flat stage-major twiddles.      *)
(***************************************************************************)
LOCAL INSTANCE Integers
LOCAL INSTANCE Negacyclic

(* After the `done' stages of largest distance.                             *)
ForwardDif(values, twiddles, n, q) ==
  LET Lower(v, x, half) == (v[x] + v[x + half]) % q
      Upper(v, x, half) ==
        ((v[x - half] - v[x]) * twiddles[half - 1 + (x % half)]) % q
      after[done \in 0..Log2(n)] ==
        IF done = 0 THEN values
        ELSE LET v == after[done - 1]
                 half == 2^(Log2(n) - done)
             IN  [x \in Index(n) |-> IF x % (2 * half) < half
                                       THEN Lower(v, x, half) ELSE Upper(v, x, half)]
  IN  after[Log2(n)]

InverseDit(values, twiddles, n, q) ==
  LET Product(v, b, half) == (v[b] * twiddles[half - 1 + (b % half)]) % q
      after[done \in 0..Log2(n)] ==
        IF done = 0 THEN values
        ELSE LET v == after[done - 1]
                 half == 2^(done - 1)
             IN  [x \in Index(n) |-> IF x % (2 * half) < half
                                       THEN (v[x] + Product(v, x + half, half)) % q
                                       ELSE (v[x - half] - Product(v, x, half)) % q]
  IN  after[Log2(n)]

(* roundtrip_expected: the inverse transform leaves the scaling to others.  *)
RoundTrip(values, n, q) == [x \in DOMAIN values |-> (values[x] * n) % q]
=============================================================================
