---------------------------- MODULE VectorProofs ----------------------------
(***************************************************************************)
(* The vector scripts and the frames of the relinearization runners, for   *)
(* any numbers of towers, coefficients, digits and ciphertexts: what is    *)
(* prepared is what the cores compute from it.  Sums and concatenations    *)
(* are recursive functions; induction over them is by the least natural    *)
(* number outside a set.                                                   *)
(***************************************************************************)
EXTENDS RunnerProofs, SequenceTheorems, WellFoundedInduction

-----------------------------------------------------------------------------
(* A set of naturals that holds zero and every successor holds them all.   *)
LEMMA SetInduction ==
  ASSUME NEW S, 0 \in S, \A n \in Nat : n \in S => n + 1 \in S
  PROVE  \A n \in Nat : n \in S
<1> DEFINE R == OpToRel(<, Nat)
           T == Nat \ S
<1>1. IsWellFoundedOn(R, Nat)
  BY NatLessThanWellFounded
<1>2. \A m, n \in Nat : m < n => <<m, n>> \in R
  BY DEF OpToRel
<1> HIDE DEF R
<1>3. SUFFICES ASSUME T # {} PROVE FALSE
  OBVIOUS
<1>4. PICK x \in T : \A y \in T : <<y, x>> \notin R
  BY <1>1, <1>3, WFMin
<1>5. x \in Nat /\ x # 0 /\ x - 1 \in Nat /\ x = (x - 1) + 1
  BY <1>4
<1>6. x - 1 \in T
  BY <1>4, <1>5
<1>7. <<x - 1, x>> \in R
  <2>1. x - 1 < x
    BY <1>5
  <2> QED BY <1>2, <1>5, <2>1
<1> QED BY <1>4, <1>6, <1>7

(* Two sequences, one behind the other.                                    *)
Joins(u, s, t, A, m, n) ==
  /\ u \in Seq(A) /\ Len(u) = m + n
  /\ \A k \in 1..m : u[k] = s[k]
  /\ \A k \in 1..n : u[m + k] = t[k]

(* What a concatenation holds, by place.                                   *)
LEMMA Joined ==
  ASSUME NEW A, NEW s \in Seq(A), NEW t \in Seq(A), NEW m \in Nat, NEW n \in Nat,
         Len(s) = m, Len(t) = n
  PROVE  Joins(s \o t, s, t, A, m, n)
<1>1. s \o t \in Seq(A) /\ Len(s \o t) = m + n
  BY ConcatProperties
<1>2. \A i \in 1..(m + n) : (s \o t)[i] = IF i <= m THEN s[i] ELSE t[i - m]
  BY ConcatProperties
<1>3. ASSUME NEW k \in 1..m PROVE (s \o t)[k] = s[k]
  <2>1. k \in 1..(m + n) /\ k <= m
    OBVIOUS
  <2> QED BY <1>2, <2>1
<1>4. ASSUME NEW k \in 1..n PROVE (s \o t)[m + k] = t[k]
  <2>1. m + k \in 1..(m + n) /\ ~(m + k <= m) /\ m + k - m = k
    OBVIOUS
  <2> QED BY <1>2, <2>1
<1> QED BY <1>1, <1>3, <1>4 DEF Joins

-----------------------------------------------------------------------------
(* Blocks of one length, one behind the other.                             *)
Flattened(f, seqs, n) ==
  f = [i \in 1..n |-> IF i = 1 THEN seqs[i] ELSE f[i - 1] \o seqs[i]]

(* The concatenation of a sequence of sequences, prefix by prefix.         *)
LEMMA FlattenedExists ==
  ASSUME NEW seqs, NEW n \in Nat
  PROVE  \E f : Flattened(f, seqs, n)
<1> DEFINE S == {m \in Nat : \E f : Flattened(f, seqs, m)}
<1>1. 0 \in S
  <2> DEFINE f == [i \in 1..0 |-> seqs[i]]
  <2>1. Flattened(f, seqs, 0)
    BY DEF Flattened
  <2> QED BY <2>1
<1>2. ASSUME NEW m \in Nat, m \in S PROVE m + 1 \in S
  <2>1. PICK f : Flattened(f, seqs, m)
    BY <1>2
  <2> DEFINE g == [i \in 1..(m + 1) |->
                     IF i = 1 THEN seqs[i]
                     ELSE IF i = m + 1 THEN f[m] \o seqs[i] ELSE f[i]]
  <2>a. \A i \in 1..(m + 1) : g[i] = IF i = 1 THEN seqs[i]
                                    ELSE IF i = m + 1 THEN f[m] \o seqs[i] ELSE f[i]
    OBVIOUS
  <2>2. \A i \in 1..(m + 1) : g[i] = IF i = 1 THEN seqs[i] ELSE g[i - 1] \o seqs[i]
    <3> SUFFICES ASSUME NEW i \in 1..(m + 1), i # 1 PROVE g[i] = g[i - 1] \o seqs[i]
      OBVIOUS
    <3>1. g[i - 1] = f[i - 1]
      BY <2>1 DEF Flattened
    <3>2. CASE i = m + 1
      <4>1. i - 1 = m
        BY <3>2
      <4>2. g[i] = f[m] \o seqs[i]
        BY <2>a, <3>2
      <4> QED BY <3>1, <4>1, <4>2
    <3>3. CASE i # m + 1
      <4>1. i \in 1..m
        BY <3>3
      <4>2. f[i] = f[i - 1] \o seqs[i]
        BY <2>1, <4>1 DEF Flattened
      <4> QED BY <3>1, <3>3, <4>2
    <3> QED BY <3>2, <3>3
  <2>3. Flattened(g, seqs, m + 1)
    BY <2>2 DEF Flattened
  <2>4. \E h : Flattened(h, seqs, m + 1)
    <3> HIDE DEF g
    <3> QED BY <2>3
  <2> QED BY <2>4
<1>3. n \in S
  <2> HIDE DEF S
  <2> QED BY <1>1, <1>2, SetInduction
<1> QED BY <1>3

(* FlattenSeq is the last of those prefixes.                               *)
LEMMA FlattenIs ==
  ASSUME NEW seqs, Len(seqs) \in Nat \ {0}
  PROVE  \E f : Flattened(f, seqs, Len(seqs)) /\ FlattenSeq(seqs) = f[Len(seqs)]
<1>1. \E f : Flattened(f, seqs, Len(seqs))
  BY FlattenedExists
<1> DEFINE f == CHOOSE f : Flattened(f, seqs, Len(seqs))
<1>2. Flattened(f, seqs, Len(seqs))
  BY <1>1
<1>3. FlattenSeq(seqs) = f[Len(seqs)]
  BY DEF FlattenSeq, Flattened
<1> QED BY <1>2, <1>3

Uniform(seqs, A, n, width) ==
  seqs \in [1..n -> Seq(A)] /\ \A i \in 1..n : Len(seqs[i]) = width

Concatenates(u, seqs, A, n, width) ==
  /\ u \in Seq(A) /\ Len(u) = n * width
  /\ \A i \in 1..n, j \in 1..width : u[(i - 1) * width + j] = seqs[i][j]

(* Sequences of one width: each lies at a multiple of it.                  *)
LEMMA FlattenUniform ==
  ASSUME NEW A, NEW n \in Nat, NEW width \in Nat, NEW seqs, Uniform(seqs, A, n, width)
  PROVE  Concatenates(FlattenSeq(seqs), seqs, A, n, width)
<1>0. seqs \in [1..n -> Seq(A)] /\ \A i \in 1..n : seqs[i] \in Seq(A) /\ Len(seqs[i]) = width
  BY DEF Uniform
<1>1. Len(seqs) = n
  BY <1>0
<1>2. CASE n = 0
  <2>1. FlattenSeq(seqs) = seqs
    BY <1>1, <1>2 DEF FlattenSeq
  <2>2. seqs \in Seq(A)
    BY <1>0, <1>2
  <2>3. Len(FlattenSeq(seqs)) = n * width
    BY <1>1, <1>2, <2>1
  <2> QED BY <1>2, <2>1, <2>2, <2>3 DEF Concatenates
<1>3. CASE n # 0
  <2>1. PICK f : Flattened(f, seqs, n) /\ FlattenSeq(seqs) = f[n]
    BY <1>1, <1>3, FlattenIs
  <2>a. \A i \in 1..n : i # 1 => f[i] = f[i - 1] \o seqs[i]
    BY <2>1 DEF Flattened
  <2> DEFINE P(i) == /\ f[i] \in Seq(A) /\ Len(f[i]) = i * width
                     /\ \A h \in 1..i, j \in 1..width : f[i][(h - 1) * width + j] = seqs[h][j]
             S == {i \in Nat : i + 1 \in 1..n => P(i + 1)}
  <2>2. 0 \in S
    <3>1. f[1] = seqs[1]
      BY <1>3, <2>1 DEF Flattened
    <3>2. seqs[1] \in Seq(A) /\ Len(seqs[1]) = width
      BY <1>0, <1>3
    <3>3. Len(f[1]) = 1 * width
      BY <3>1, <3>2
    <3>4. \A h \in 1..1, j \in 1..width : f[1][(h - 1) * width + j] = seqs[h][j]
      <4> SUFFICES ASSUME NEW j \in 1..width PROVE f[1][(1 - 1) * width + j] = seqs[1][j]
        OBVIOUS
      <4>1. (1 - 1) * width + j = j
        OBVIOUS
      <4> QED BY <3>1, <4>1
    <3>5. P(1)
      BY <3>1, <3>2, <3>3, <3>4
    <3> QED BY <3>5
  <2>3. ASSUME NEW m \in Nat, m \in S PROVE m + 1 \in S
    <3> SUFFICES ASSUME m + 2 \in 1..n PROVE P(m + 2)
      <4>1. (m + 1) + 1 = m + 2
        OBVIOUS
      <4> HIDE DEF P
      <4> QED BY <4>1
    <3>1. m + 1 \in 1..n /\ m + 2 - 1 = m + 1 /\ m + 2 # 1
      OBVIOUS
    <3>2. P(m + 1)
      BY <2>3, <3>1
    <3>3. f[m + 2] = f[m + 1] \o seqs[m + 2]
      <4>1. PICK k \in 1..n, l \in 1..n : k = m + 2 /\ l = m + 1 /\ k - 1 = l /\ k # 1
        BY <3>1
      <4>2. f[k] = f[k - 1] \o seqs[k]
        BY <2>a, <4>1
      <4>3. f[k] = f[l] \o seqs[k]
        BY <4>1, <4>2, Zenon
      <4> QED BY <4>1, <4>3, Zenon
    <3>4. PICK left \in Seq(A), right \in Seq(A), size \in Nat :
            left = f[m + 1] /\ right = seqs[m + 2] /\ size = (m + 1) * width
            /\ Len(left) = size /\ Len(right) = width
      <4>1. seqs[m + 2] \in Seq(A) /\ Len(seqs[m + 2]) = width
        BY <1>0
      <4>2. (m + 1) * width \in Nat
        OBVIOUS
      <4> QED BY <3>2, <4>1, <4>2
    <3>5. /\ f[m + 2] \in Seq(A) /\ Len(f[m + 2]) = size + width
          /\ \A k \in 1..size : f[m + 2][k] = f[m + 1][k]
          /\ \A k \in 1..width : f[m + 2][size + k] = seqs[m + 2][k]
      <4>1. f[m + 2] = left \o right
        BY <3>3, <3>4, Zenon
      <4>2. Len(left) = size /\ Len(right) = width
        BY <3>4
      <4>3. Joins(f[m + 2], left, right, A, size, width)
        BY <4>1, <4>2, Joined
      <4> QED BY <3>4, <4>3, Zenon DEF Joins
    <3>6. size + width = (m + 2) * width
      BY <3>4
    <3>7. ASSUME NEW h \in 1..(m + 2), NEW j \in 1..width
          PROVE  f[m + 2][(h - 1) * width + j] = seqs[h][j]
      <4>1. CASE h \in 1..(m + 1)
        <5>1. (h - 1) * width + j \in 1..size
          <6>1. \A x, y, z \in Nat : x + 1 <= y => x * z + z <= y * z /\ x * z \in Nat
            OBVIOUS
          <6>2. PICK low \in Nat : low = (h - 1) * width /\ low + width <= size
            BY <3>4, <4>1, <6>1
          <6>3. low + j \in 1..size
            BY <6>2
          <6> QED BY <6>2, <6>3
        <5>2. f[m + 1][(h - 1) * width + j] = seqs[h][j]
          BY <3>2, <4>1
        <5> QED BY <3>5, <5>1, <5>2
      <4>2. CASE h = m + 2
        <5>1. (h - 1) * width = size
          BY <3>4, <4>2
        <5> QED BY <3>5, <4>2, <5>1
      <4> QED BY <4>1, <4>2
    <3> QED BY <3>5, <3>6, <3>7
  <2>4. n - 1 \in S
    <3> HIDE DEF S
    <3> QED BY <1>3, <2>2, <2>3, SetInduction
  <2>5. P(n)
    <3>1. n - 1 + 1 = n /\ n \in 1..n
      BY <1>3
    <3> HIDE DEF P
    <3> QED BY <2>4, <3>1
  <2> QED BY <2>1, <2>5 DEF Concatenates
<1> QED BY <1>2, <1>3

-----------------------------------------------------------------------------
(* Residues, and the sums the scripts and the cores take of them.          *)
LEMMA ModSum ==
  ASSUME NEW x \in Nat, NEW y \in Nat, NEW d \in Nat \ {0}
  PROVE  ((x % d) + y) % d = (x + y) % d
<1>1. /\ x \div d \in Nat /\ x % d \in Nat
      /\ x = d * (x \div d) + (x % d)
  OBVIOUS
<1>2. PICK a0 \in Nat, r \in Nat : a0 = x \div d /\ r = x % d
  BY <1>1
<1>3. /\ (r + y) \div d \in Nat /\ (r + y) % d \in 0..(d - 1)
      /\ r + y = d * ((r + y) \div d) + ((r + y) % d)
  BY <1>2
<1>4. PICK b0 \in Nat, s \in 0..(d - 1) : b0 = (r + y) \div d /\ s = (r + y) % d
  BY <1>3
<1>5. x = d * a0 + r /\ r + y = d * b0 + s
  BY <1>1, <1>2, <1>3, <1>4
<1>6. x + y = d * (a0 + b0) + s
  <2>1. d * (a0 + b0) = d * a0 + d * b0 /\ d * a0 \in Nat /\ d * b0 \in Nat
    OBVIOUS
  <2> QED BY <1>5, <2>1
<1>7. \A c \in Nat, k \in Nat : c = d * k + s => c % d = s
  BY <1>4
<1>8. (x + y) % d = s
  <2>1. a0 + b0 \in Nat /\ x + y \in Nat
    OBVIOUS
  <2> QED BY <1>6, <1>7, <2>1, Zenon
<1> QED BY <1>2, <1>4, <1>8

Vec == [Lanes -> Nat]
ModuliPairs == [Lanes -> Nat \ {0}]
Reduced(v, q) == v \in Vec /\ \A l \in Lanes : v[l] < q[l]

(* A product of words is reduced by the moduli.                            *)
LEMMA TimesReduced ==
  ASSUME NEW x \in Vec, NEW y \in Vec, NEW q \in ModuliPairs
  PROVE  Reduced(Times(x, y, q), q)
<1>1. ASSUME NEW l \in Lanes PROVE (x[l] * y[l]) % q[l] \in Nat /\ (x[l] * y[l]) % q[l] < q[l]
  <2>1. x[l] \in Nat /\ y[l] \in Nat /\ q[l] \in Nat /\ q[l] # 0
    BY DEF Vec, ModuliPairs
  <2>2. \A c, d \in Nat : d # 0 => c % d \in Nat /\ c % d < d
    OBVIOUS
  <2>3. \A c, d \in Nat : c * d \in Nat
    OBVIOUS
  <2> QED BY <2>1, <2>2, <2>3
<1> QED BY <1>1 DEF Reduced, Times, Vec

(* So is a sum.                                                            *)
LEMMA PlusReduced ==
  ASSUME NEW x \in Vec, NEW y \in Vec, NEW q \in ModuliPairs
  PROVE  Reduced(Plus(x, y, q), q)
<1>1. ASSUME NEW l \in Lanes PROVE (x[l] + y[l]) % q[l] \in Nat /\ (x[l] + y[l]) % q[l] < q[l]
  <2>1. x[l] \in Nat /\ y[l] \in Nat /\ q[l] \in Nat /\ q[l] # 0
    BY DEF Vec, ModuliPairs
  <2>2. \A c, d \in Nat : d # 0 => c % d \in Nat /\ c % d < d
    OBVIOUS
  <2> QED BY <2>1, <2>2
<1> QED BY <1>1 DEF Reduced, Plus, Vec

(* The sum of two residues.                                                *)
ModAdd(c, d, m) == (c + d) % m

(* Addition modulo m does not depend on the grouping.                      *)
LEMMA ModAssociative ==
  ASSUME NEW c \in Nat, NEW d \in Nat, NEW e \in Nat, NEW m \in Nat \ {0}
  PROVE  ModAdd(ModAdd(c, d, m), e, m) = ModAdd(c, ModAdd(d, e, m), m)
<1> PICK g \in Nat, h \in Nat : g = (c + d) % m /\ h = (d + e) % m
  OBVIOUS
<1>1. PICK v \in Nat, w \in Nat : v = c + d /\ w = d + e
  OBVIOUS
<1>2. ((v % m) + e) % m = (v + e) % m /\ ((w % m) + c) % m = (w + c) % m
  BY ModSum
<1>3. (g + e) % m = (v + e) % m /\ (h + c) % m = (w + c) % m
  BY <1>1, <1>2
<1>4. v + e = w + c /\ h + c = c + h
  BY <1>1
<1>5. (v + e) % m = (w + c) % m
  BY <1>4
<1>6. (h + c) % m = (c + h) % m
  BY <1>4
<1>7. (g + e) % m = (c + h) % m
  BY <1>3, <1>5, <1>6
<1> QED BY <1>7 DEF ModAdd

(* Nor does the addition of words.                                         *)
LEMMA PlusAssociative ==
  ASSUME NEW x \in Vec, NEW y \in Vec, NEW z \in Vec, NEW q \in ModuliPairs
  PROVE  Plus(Plus(x, y, q), z, q) = Plus(x, Plus(y, z, q), q)
<1>1. ASSUME NEW l \in Lanes
      PROVE  ModAdd(Plus(x, y, q)[l], z[l], q[l]) = ModAdd(x[l], Plus(y, z, q)[l], q[l])
  <2>1. x[l] \in Nat /\ y[l] \in Nat /\ z[l] \in Nat /\ q[l] \in Nat \ {0}
    BY DEF Vec, ModuliPairs
  <2>2. /\ Plus(x, y, q)[l] = ModAdd(x[l], y[l], q[l])
        /\ Plus(y, z, q)[l] = ModAdd(y[l], z[l], q[l])
    BY DEF Plus, ModAdd
  <2>3. ModAdd(ModAdd(x[l], y[l], q[l]), z[l], q[l])
          = ModAdd(x[l], ModAdd(y[l], z[l], q[l]), q[l])
    BY <2>1, ModAssociative
  <2> QED BY <2>2, <2>3
<1>2. \A u, v : (\A l \in Lanes : ModAdd(u[l], z[l], q[l]) = ModAdd(x[l], v[l], q[l]))
                => Plus(u, z, q) = Plus(x, v, q)
  BY DEF Plus, ModAdd
<1> QED BY <1>1, <1>2, Zenon

(* Nothing, to either of both lanes.                                       *)
Nought == <<0, 0>>

(* Nothing added to a reduced word leaves it alone.                        *)
LEMMA PlusNought ==
  ASSUME NEW q \in ModuliPairs, NEW x, Reduced(x, q)
  PROVE  Nought \in Vec /\ Plus(x, Nought, q) = x /\ Plus(Nought, x, q) = x
<1>1. Nought \in Vec /\ \A l \in Lanes : Nought[l] = 0
  BY DEF Nought, Vec, Lanes
<1>2. x \in Vec
  BY DEF Reduced
<1>3. ASSUME NEW l \in Lanes PROVE (x[l] + 0) % q[l] = x[l] /\ (0 + x[l]) % q[l] = x[l]
  <2>1. x[l] \in Nat /\ q[l] \in Nat /\ x[l] < q[l]
    BY DEF Reduced, Vec, ModuliPairs
  <2>2. \A c, d \in Nat : c < d => (c + 0) % d = c /\ (0 + c) % d = c
    OBVIOUS
  <2> QED BY <2>1, <2>2
<1>4. x = [l \in Lanes |-> x[l]]
  BY <1>2 DEF Vec
<1> QED BY <1>1, <1>3, <1>4 DEF Plus

(* Terms added up one by one.                                              *)
Accumulates(f, n, t, q) ==
  /\ f[0] = Nought
  /\ \A i \in 1..n : t[i] \in Vec /\ f[i] = Plus(f[i - 1], t[i], q)

(* Every partial sum of reduced words is reduced.                          *)
LEMMA AccumulatedReduced ==
  ASSUME NEW f, NEW n \in Nat, NEW t, NEW q \in ModuliPairs, Accumulates(f, n, t, q)
  PROVE  \A i \in 0..n : Reduced(f[i], q)
<1> DEFINE S == {i \in Nat : i <= n => Reduced(f[i], q)}
<1>1. 0 \in S
  <2>1. f[0] = Nought /\ \A l \in Lanes : Nought[l] = 0 /\ q[l] \in Nat \ {0}
    BY DEF Accumulates, Nought, ModuliPairs, Lanes
  <2>2. Nought \in Vec
    BY DEF Nought, Vec, Lanes
  <2>3. Reduced(f[0], q)
    BY <2>1, <2>2 DEF Reduced
  <2> QED BY <2>3
<1>2. ASSUME NEW i \in Nat, i \in S PROVE i + 1 \in S
  <2>1. SUFFICES ASSUME i + 1 <= n PROVE Reduced(f[i + 1], q)
    OBVIOUS
  <2>2. f[i] \in Vec
    BY <1>2, <2>1 DEF Reduced
  <2>3. PICK k \in 1..n : k = i + 1 /\ k - 1 = i
    BY <2>1
  <2>4. t[k] \in Vec /\ f[k] = Plus(f[k - 1], t[k], q)
    BY <2>3 DEF Accumulates
  <2>5. Reduced(f[k], q)
    BY <2>2, <2>3, <2>4, PlusReduced
  <2> QED BY <2>3, <2>5
<1>3. \A i \in Nat : i \in S
  <2> HIDE DEF S
  <2> QED BY <1>1, <1>2, SetInduction
<1> QED BY <1>3

(* A sum of m terms and n more is the first sum and that of the others.    *)
Behind(t, m, u, n) == \A i \in 1..n : t[m + i] = u[i]

(* A sum over two runs of terms is the sum of the two sums.                *)
LEMMA AccumulatesSplit ==
  ASSUME NEW f, NEW g, NEW m \in Nat, NEW n \in Nat, NEW t, NEW u, NEW q \in ModuliPairs,
         Accumulates(f, m + n, t, q), Accumulates(g, n, u, q),
         Behind(t, m, u, n)
  PROVE  f[m + n] = Plus(f[m], g[n], q)
<1>1. Reduced(f[m], q) /\ \A i \in 0..n : Reduced(g[i], q)
  <2>1. m \in 0..(m + n) /\ m + n \in Nat
    OBVIOUS
  <2> QED BY <2>1, AccumulatedReduced
<1> DEFINE S == {i \in Nat : i <= n => f[m + i] = Plus(f[m], g[i], q)}
<1>2. 0 \in S
  <2>1. g[0] = Nought /\ m + 0 = m
    BY DEF Accumulates
  <2>2. f[m + 0] = Plus(f[m], g[0], q)
    BY <1>1, <2>1, PlusNought
  <2> QED BY <2>2
<1>3. ASSUME NEW i \in Nat, i \in S PROVE i + 1 \in S
  <2>1. SUFFICES ASSUME i + 1 <= n PROVE f[m + (i + 1)] = Plus(f[m], g[i + 1], q)
    OBVIOUS
  <2>2. PICK k \in 1..n, j \in 1..(m + n), h \in 0..n :
          h = i /\ k = i + 1 /\ k - 1 = h /\ j = m + k /\ j - 1 = m + h
    <3>1. i + 1 \in 1..n /\ m + (i + 1) \in 1..(m + n) /\ i \in 0..n
      BY <2>1
    <3> QED BY <3>1
  <2>3. f[m + h] = Plus(f[m], g[h], q)
    BY <1>3, <2>1, <2>2
  <2>4. u[k] \in Vec /\ g[k] = Plus(g[h], u[k], q)
    BY <2>2 DEF Accumulates
  <2>5. f[j] = Plus(f[j - 1], t[j], q) /\ t[j] = u[k]
    BY <2>2 DEF Accumulates, Behind
  <2>6. f[j] = Plus(Plus(f[m], g[h], q), u[k], q)
    BY <2>2, <2>3, <2>5
  <2>7. f[m] \in Vec /\ g[h] \in Vec
    BY <1>1 DEF Reduced
  <2>8. f[j] = Plus(f[m], g[k], q)
    BY <2>4, <2>6, <2>7, PlusAssociative
  <2> QED BY <2>2, <2>8
<1>4. \A i \in Nat : i \in S
  <2> HIDE DEF S
  <2> QED BY <1>2, <1>3, SetInduction
<1> QED BY <1>4

-----------------------------------------------------------------------------
(* The recursive functions of the model that add terms up.                 *)
Summed(f, t, n, q) ==
  f = [i \in 0..n |-> IF i = 0 THEN <<0, 0>> ELSE Plus(f[i - 1], t[i], q)]

(* The function of partial sums exists, and is what its recursion says.    *)
LEMMA SummedExists ==
  ASSUME NEW t, NEW q, NEW n \in Nat
  PROVE  \E f : Summed(f, t, n, q)
<1> DEFINE S == {m \in Nat : \E f : Summed(f, t, m, q)}
<1>1. 0 \in S
  <2> DEFINE f == [i \in 0..0 |-> <<0, 0>>]
  <2>1. Summed(f, t, 0, q)
    BY DEF Summed
  <2> QED BY <2>1
<1>2. ASSUME NEW m \in Nat, m \in S PROVE m + 1 \in S
  <2>1. PICK f : Summed(f, t, m, q)
    BY <1>2
  <2> DEFINE g == [i \in 0..(m + 1) |-> IF i = m + 1 THEN Plus(f[m], t[i], q) ELSE f[i]]
  <2>a. \A i \in 0..(m + 1) : g[i] = IF i = m + 1 THEN Plus(f[m], t[i], q) ELSE f[i]
    OBVIOUS
  <2>b. \A i \in 0..m : f[i] = IF i = 0 THEN <<0, 0>> ELSE Plus(f[i - 1], t[i], q)
    BY <2>1 DEF Summed
  <2>2. \A i \in 0..(m + 1) : g[i] = IF i = 0 THEN <<0, 0>> ELSE Plus(g[i - 1], t[i], q)
    <3> SUFFICES ASSUME NEW i \in 0..(m + 1)
                 PROVE  g[i] = IF i = 0 THEN <<0, 0>> ELSE Plus(g[i - 1], t[i], q)
      OBVIOUS
    <3>1. CASE i = 0
      BY <2>a, <2>b, <3>1
    <3>2. CASE i # 0
      <4> HIDE DEF g
      <4>1. i - 1 \in 0..m /\ i - 1 # m + 1
        BY <3>2
      <4>2. g[i - 1] = f[i - 1]
        BY <2>a, <4>1
      <4>3. CASE i = m + 1
        <5>1. i - 1 = m
          BY <4>3
        <5>2. g[i] = Plus(f[m], t[i], q)
          BY <2>a, <4>3
        <5> QED BY <3>2, <4>2, <5>1, <5>2
      <4>4. CASE i # m + 1
        <5>1. i \in 0..m
          BY <4>4
        <5>2. g[i] = f[i] /\ f[i] = Plus(f[i - 1], t[i], q)
          BY <2>a, <2>b, <3>2, <4>4, <5>1
        <5> QED BY <3>2, <4>2, <5>2
      <4> QED BY <4>3, <4>4
    <3> QED BY <3>1, <3>2
  <2>3. Summed(g, t, m + 1, q)
    BY <2>2 DEF Summed
  <2>4. \E h : Summed(h, t, m + 1, q)
    <3> HIDE DEF g
    <3> QED BY <2>3
  <2> QED BY <2>4
<1>3. n \in S
  <2> HIDE DEF S
  <2> QED BY <1>1, <1>2, SetInduction
<1> QED BY <1>3

(* They add one term after another.                                        *)
LEMMA SummedAccumulates ==
  ASSUME NEW f, NEW n \in Nat, NEW t, NEW q, Summed(f, t, n, q), \A i \in 1..n : t[i] \in Vec
  PROVE  Accumulates(f, n, t, q)
<1>1. \A i \in 0..n : f[i] = IF i = 0 THEN <<0, 0>> ELSE Plus(f[i - 1], t[i], q)
  BY DEF Summed
<1>2. f[0] = <<0, 0>>
  BY <1>1
<1>3. \A i \in 1..n : f[i] = Plus(f[i - 1], t[i], q)
  BY <1>1
<1> QED BY <1>2, <1>3 DEF Accumulates, Nought

(* What SumOfProducts and KeySwitch are the last of.                       *)
ProductTerm(products, words, q, i) ==
  Times(words[products[i].x.index + 1], words[products[i].y.index + 1], q)

(* An answer accumulates the products it is told of.                       *)
LEMMA SumOfProductsIs ==
  ASSUME NEW products, NEW words, NEW q, NEW n \in Nat, Len(products) = n, NEW t,
         \A i \in 1..n : t[i] \in Vec /\ t[i] = ProductTerm(products, words, q, i)
  PROVE  \E f : Accumulates(f, n, t, q) /\ SumOfProducts(products, words, q) = f[n]
<1> DEFINE Body1(f) == f = [i \in 0..Len(products) |->
              IF i = 0 THEN <<0, 0>>
              ELSE Plus(f[i - 1],
                  Times(words[products[i].x.index + 1], words[products[i].y.index + 1], q), q)]
<1>1. ASSUME NEW f PROVE Body1(f) <=> Summed(f, t, n, q)
  <2>1. \A i \in 0..n : (IF i = 0 THEN <<0, 0>> ELSE Plus(f[i - 1], t[i], q))
          = (IF i = 0 THEN <<0, 0>>
             ELSE Plus(f[i - 1],
                  Times(words[products[i].x.index + 1], words[products[i].y.index + 1], q), q))
    BY DEF ProductTerm
  <2> QED BY <2>1 DEF Summed
<1>2. \E f : Body1(f)
  <2> HIDE DEF Body1
  <2> QED BY <1>1, SummedExists
<1> DEFINE sum == CHOOSE f : Body1(f)
<1>3. Body1(sum)
  <2> HIDE DEF Body1
  <2> QED BY <1>2
<1>4. SumOfProducts(products, words, q) = sum[n]
  BY DEF SumOfProducts
<1>5. Accumulates(sum, n, t, q)
  <2> HIDE DEF Body1, sum
  <2> QED BY <1>1, <1>3, SummedAccumulates
<1> HIDE DEF sum
<1> QED BY <1>4, <1>5

(* A key switch accumulates the products of digits and keys.               *)
LEMMA KeySwitchIs ==
  ASSUME NEW digit, NEW key, NEW q, NEW t, 
         \A i \in 1..Digits : t[i] \in Vec /\ t[i] = Times(digit[i - 1], key[i - 1], q)
  PROVE  \E f : Accumulates(f, Digits, t, q) /\ KeySwitch(digit, key, q) = f[Digits]
<1> DEFINE Body1(f) == f = [d \in 0..Digits |->
              IF d = 0 THEN <<0, 0>> ELSE Plus(f[d - 1], Times(digit[d - 1], key[d - 1], q), q)]
<1>a. Digits \in Nat
  BY VectorAssumption
<1>1. ASSUME NEW f PROVE Body1(f) <=> Summed(f, t, Digits, q)
  <2>1. \A d \in 0..Digits : (IF d = 0 THEN <<0, 0>> ELSE Plus(f[d - 1], t[d], q))
          = (IF d = 0 THEN <<0, 0>> ELSE Plus(f[d - 1], Times(digit[d - 1], key[d - 1], q), q))
    BY <1>a
  <2> QED BY <2>1 DEF Summed
<1>2. \E f : Body1(f)
  <2> HIDE DEF Body1
  <2> QED BY <1>a, <1>1, SummedExists
<1> DEFINE sum == CHOOSE f : Body1(f)
<1>3. Body1(sum)
  <2> HIDE DEF Body1
  <2> QED BY <1>2
<1>4. KeySwitch(digit, key, q) = sum[Digits]
  BY DEF KeySwitch
<1>5. Accumulates(sum, Digits, t, q)
  <2> HIDE DEF Body1, sum
  <2> QED BY <1>a, <1>1, <1>3, SummedAccumulates
<1> HIDE DEF sum
<1> QED BY <1>4, <1>5

-----------------------------------------------------------------------------
(* The towers of a pair, and the words of an export.                       *)
LEMMA PairTowers ==
  ASSUME moduli \in TowerModuli
  PROVE  /\ TowerCount \in Nat \ {0} /\ PairCount \in Nat \ {0}
         /\ \A p \in 0..(PairCount - 1) :
              /\ Tower0(p) \in 0..(TowerCount - 1) /\ Tower1(p) \in 0..(TowerCount - 1)
              /\ PairModuli(p) \in ModuliPairs
              /\ PairModuli(p)[1] = moduli[Tower0(p) + 1]
              /\ PairModuli(p)[2] = moduli[Tower1(p) + 1]
<1>1. moduli \in Seq(Nat \ {0}) /\ moduli # <<>>
  BY PlatformAssumption
<1>2. TowerCount \in Nat \ {0} /\ PairCount \in Nat \ {0} /\ PairCount = (TowerCount + 1) \div 2
  BY <1>1 DEF TowerCount, PairCount
<1>3. ASSUME NEW p \in 0..(PairCount - 1)
      PROVE  Tower0(p) \in 0..(TowerCount - 1) /\ Tower1(p) \in 0..(TowerCount - 1)
  BY <1>2 DEF Tower0, Tower1, Tower1Real
<1>4. ASSUME NEW t \in 0..(TowerCount - 1) PROVE moduli[t + 1] \in Nat \ {0}
  <2>1. t + 1 \in 1..Len(moduli)
    BY <1>2 DEF TowerCount
  <2> QED BY <1>1, <2>1
<1>5. ASSUME NEW p \in 0..(PairCount - 1)
      PROVE  /\ PairModuli(p) \in ModuliPairs
             /\ PairModuli(p)[1] = moduli[Tower0(p) + 1]
             /\ PairModuli(p)[2] = moduli[Tower1(p) + 1]
  <2>1. moduli[Tower0(p) + 1] \in Nat \ {0} /\ moduli[Tower1(p) + 1] \in Nat \ {0}
    BY <1>3, <1>4
  <2> QED BY <2>1 DEF PairModuli, ModuliPairs, Lanes
<1> QED BY <1>2, <1>3, <1>5

Files == InputFiles \union DerivedFiles
Coefs == 0..(Coefficients - 1)

(* The residue an export holds for a file in one tower.                    *)
Residue(source, name, i, t, c) == source[<<name, i>>, t, c]

(* A word of an export is a pair of residues, one per tower.               *)
LEMMA WordTyped ==
  ASSUME moduli \in TowerModuli, NEW source \in [Entries(TowerCount) -> Nat],
         NEW name, NEW i, <<name, i>> \in Files,
         NEW p \in 0..(PairCount - 1), NEW c \in Coefs
  PROVE  /\ WordIn(source, name, i, p, c) \in Vec
         /\ WordIn(source, name, i, p, c)[1] = Residue(source, name, i, Tower0(p), c)
         /\ WordIn(source, name, i, p, c)[2] = Residue(source, name, i, Tower1(p), c)
<1>1. ASSUME NEW t \in 0..(TowerCount - 1) PROVE Residue(source, name, i, t, c) \in Nat
  <2>1. <<<<name, i>>, t, c>> \in Entries(TowerCount)
    BY DEF Entries, Files, Coefs
  <2> QED BY <2>1 DEF Residue
<1>2. PICK a \in Nat, b \in Nat : /\ a = Residue(source, name, i, Tower0(p), c)
                                 /\ b = Residue(source, name, i, Tower1(p), c)
  BY <1>1, PairTowers
<1>3. WordIn(source, name, i, p, c)
        = <<Residue(source, name, i, Tower0(p), c), Residue(source, name, i, Tower1(p), c)>>
  BY DEF WordIn, Residue
<1>4. <<a, b>> \in Vec /\ <<a, b>>[1] = a /\ <<a, b>>[2] = b
  BY DEF Vec, Lanes
<1> QED BY <1>2, <1>3, <1>4

(* What OpenFHE writes for a digit's key in one tower, before reduction.   *)
NatSummed(f, a, n) == f = [i \in 0..n |-> IF i = 0 THEN 0 ELSE f[i - 1] + a[i]]

(* So does that of the unreduced sums OpenFHE's residues come from.        *)
LEMMA NatSummedExists ==
  ASSUME NEW a, NEW n \in Nat
  PROVE  \E f : NatSummed(f, a, n)
<1> DEFINE S == {m \in Nat : \E f : NatSummed(f, a, m)}
<1>1. 0 \in S
  <2> DEFINE f == [i \in 0..0 |-> 0]
  <2>1. NatSummed(f, a, 0)
    BY DEF NatSummed
  <2> QED BY <2>1
<1>2. ASSUME NEW m \in Nat, m \in S PROVE m + 1 \in S
  <2>1. PICK f : NatSummed(f, a, m)
    BY <1>2
  <2> DEFINE g == [i \in 0..(m + 1) |-> IF i = m + 1 THEN f[m] + a[i] ELSE f[i]]
  <2>a. \A i \in 0..(m + 1) : g[i] = IF i = m + 1 THEN f[m] + a[i] ELSE f[i]
    OBVIOUS
  <2>b. \A i \in 0..m : f[i] = IF i = 0 THEN 0 ELSE f[i - 1] + a[i]
    BY <2>1 DEF NatSummed
  <2>2. \A i \in 0..(m + 1) : g[i] = IF i = 0 THEN 0 ELSE g[i - 1] + a[i]
    <3> SUFFICES ASSUME NEW i \in 0..(m + 1)
                 PROVE  g[i] = IF i = 0 THEN 0 ELSE g[i - 1] + a[i]
      OBVIOUS
    <3>1. CASE i = 0
      BY <2>a, <2>b, <3>1
    <3>2. CASE i # 0
      <4> HIDE DEF g
      <4>1. i - 1 \in 0..m /\ i - 1 # m + 1
        BY <3>2
      <4>2. g[i - 1] = f[i - 1]
        BY <2>a, <4>1
      <4>3. CASE i = m + 1
        <5>1. i - 1 = m
          BY <4>3
        <5>2. g[i] = f[m] + a[i]
          BY <2>a, <4>3
        <5> QED BY <3>2, <4>2, <5>1, <5>2
      <4>4. CASE i # m + 1
        <5>1. i \in 0..m
          BY <4>4
        <5>2. g[i] = f[i] /\ f[i] = f[i - 1] + a[i]
          BY <2>a, <2>b, <3>2, <4>4, <5>1
        <5> QED BY <3>2, <4>2, <5>2
      <4> QED BY <4>3, <4>4
    <3> QED BY <3>1, <3>2
  <2>3. NatSummed(g, a, m + 1)
    BY <2>2 DEF NatSummed
  <2>4. \E h : NatSummed(h, a, m + 1)
    <3> HIDE DEF g
    <3> QED BY <2>3
  <2> QED BY <2>4
<1>3. n \in S
  <2> HIDE DEF S
  <2> QED BY <1>1, <1>2, SetInduction
<1> QED BY <1>3

Value(name, i, t, c) == Sampled(<<name, i>>, t, c)
KeySum(key, t, c) ==
  LET sum[d \in 0..Digits] ==
        IF d = 0 THEN 0
        ELSE sum[d - 1] + Value("digit", d - 1, t, c) * Value(key, d - 1, t, c)
  IN  sum[Digits]
Derived(name, t, c) ==
  LET a0 == Value("a0", 0, t, c)
      a1 == Value("a1", 0, t, c)
      b0 == Value("b0", 0, t, c)
      b1 == Value("b1", 0, t, c)
  IN  CASE name = "c0" -> a0 * b0
        [] name = "c1" -> a0 * b1 + a1 * b0
        [] name = "c2" -> a1 * b1
        [] name = "ks_b" -> KeySum("key_b", t, c)
        [] name = "ks_a" -> KeySum("key_a", t, c)
        [] name = "relin_c0" -> a0 * b0 + KeySum("key_b", t, c)
        [] name = "relin_c1" -> (a0 * b1 + a1 * b0) + KeySum("key_a", t, c)

(* What an export as OpenFHE writes it holds, file by file.                *)
LEMMA OpenFHEIs ==
  OpenFHE = [x \in Entries(TowerCount) |->
               IF x[1] \in InputFiles THEN Sampled(x[1], x[2], x[3])
               ELSE Derived(x[1][1], x[2], x[3]) % moduli[x[2] + 1]]
BY DEF OpenFHE, Derived, KeySum, Value

(* Such a sum begins at zero and adds a term at a time.                    *)
LEMMA NatSummedSteps ==
  ASSUME NEW n \in Nat, NEW a \in [1..n -> Nat], NEW f, NatSummed(f, a, n)
  PROVE  /\ f[0] = 0 /\ \A i \in 0..n : f[i] \in Nat
         /\ \A i \in 1..n : f[i] = f[i - 1] + a[i]
<1>1. \A i \in 0..n : f[i] = IF i = 0 THEN 0 ELSE f[i - 1] + a[i]
  BY DEF NatSummed
<1>2. f[0] = 0 /\ \A i \in 1..n : f[i] = f[i - 1] + a[i]
  BY <1>1
<1> DEFINE S == {i \in Nat : i <= n => f[i] \in Nat}
<1>3. 0 \in S
  BY <1>2
<1>4. ASSUME NEW i \in Nat, i \in S PROVE i + 1 \in S
  <2>1. SUFFICES ASSUME i + 1 <= n PROVE f[i + 1] \in Nat
    OBVIOUS
  <2>2. PICK k \in 1..n : k = i + 1 /\ k - 1 = i
    BY <2>1
  <2>3. f[k - 1] \in Nat /\ a[k] \in Nat
    BY <1>4, <2>1, <2>2
  <2>4. f[k] \in Nat
    BY <1>2, <2>3
  <2> QED BY <2>2, <2>4
<1>5. \A i \in Nat : i \in S
  <2> HIDE DEF S
  <2> QED BY <1>3, <1>4, SetInduction
<1> QED BY <1>2, <1>5

(* A sampled residue is a natural.                                         *)
LEMMA ValueTyped ==
  ASSUME moduli \in TowerModuli, NEW name, NEW i, <<name, i>> \in InputFiles,
         NEW t \in 0..(TowerCount - 1), NEW c \in Coefs
  PROVE  Value(name, i, t, c) \in Nat
<1>1. moduli[t + 1] \in Nat \ {0}
  <2>1. moduli \in Seq(Nat \ {0}) /\ t + 1 \in 1..Len(moduli)
    BY PlatformAssumption DEF TowerCount
  <2> QED BY <2>1
<1>2. i \in Nat
  BY VectorAssumption DEF InputFiles, Named, DigitFiles, DigitIndices
<1> DEFINE place == CASE name = "a0" -> 0 [] name = "a1" -> 1 [] name = "b0" -> 2
                      [] name = "b1" -> 3 [] name = "digit" -> 4 + 3 * i
                      [] name = "key_b" -> 5 + 3 * i [] OTHER -> 6 + 3 * i
<1>3. place \in Nat
  BY <1>2
<1>4. Value(name, i, t, c) = (13 * place + 37 * c + 5 * t + 3) % moduli[t + 1]
  BY DEF Value, Sampled
<1> HIDE DEF place
<1>5. 13 * place + 37 * c + 5 * t + 3 \in Nat
  BY <1>3, VectorAssumption DEF Coefs
<1> QED BY <1>1, <1>4, <1>5

(* A key sum is the sum of products of digits and keys, unreduced.         *)
LEMMA KeySumIs ==
  ASSUME moduli \in TowerModuli, NEW key \in {"key_b", "key_a"},
         NEW t \in 0..(TowerCount - 1), NEW c \in Coefs
  PROVE  \E a, f :
           /\ a \in [1..Digits -> Nat]
           /\ NatSummed(f, a, Digits) /\ KeySum(key, t, c) = f[Digits]
           /\ \A i \in 1..Digits : a[i] = Value("digit", i - 1, t, c) * Value(key, i - 1, t, c)
<1> DEFINE Term(i) == Value("digit", i - 1, t, c) * Value(key, i - 1, t, c)
           Body1(f) == f = [d \in 0..Digits |->
              IF d = 0 THEN 0
              ELSE f[d - 1] + Value("digit", d - 1, t, c) * Value(key, d - 1, t, c)]
           a == [i \in 1..Digits |-> Term(i)]
<1>a. Digits \in Nat
  BY VectorAssumption
<1>b. ASSUME NEW i \in 1..Digits PROVE Term(i) \in Nat
  <2>1. <<"digit", i - 1>> \in InputFiles /\ <<key, i - 1>> \in InputFiles
    BY <1>a DEF InputFiles, DigitFiles, DigitIndices
  <2>2. PICK v \in Nat, w \in Nat : v = Value("digit", i - 1, t, c) /\ w = Value(key, i - 1, t, c)
    BY <2>1, ValueTyped
  <2>3. \A x, y \in Nat : x * y \in Nat
    OBVIOUS
  <2> QED BY <2>2, <2>3
<1>c. a \in [1..Digits -> Nat] /\ \A i \in 1..Digits : a[i] = Term(i)
  BY <1>b
<1>1. ASSUME NEW f PROVE Body1(f) <=> NatSummed(f, a, Digits)
  <2>1. \A d \in 0..Digits : (IF d = 0 THEN 0 ELSE f[d - 1] + a[d])
          = (IF d = 0 THEN 0
             ELSE f[d - 1] + Value("digit", d - 1, t, c) * Value(key, d - 1, t, c))
    BY <1>a
  <2> QED BY <2>1 DEF NatSummed
<1>2. \E f : Body1(f)
  <2> HIDE DEF Body1, a
  <2> QED BY <1>a, <1>1, NatSummedExists
<1> DEFINE sum == CHOOSE f : Body1(f)
<1>3. Body1(sum)
  <2> HIDE DEF Body1
  <2> QED BY <1>2
<1>4. KeySum(key, t, c) = sum[Digits]
  BY DEF KeySum
<1>5. NatSummed(sum, a, Digits)
  <2> HIDE DEF Body1, sum, a
  <2> QED BY <1>1, <1>3
<1> HIDE DEF sum, a
<1> QED BY <1>4, <1>5, <1>c

(* It is a natural.                                                        *)
LEMMA KeySumTyped ==
  ASSUME moduli \in TowerModuli, NEW key \in {"key_b", "key_a"},
         NEW t \in 0..(TowerCount - 1), NEW c \in Coefs
  PROVE  KeySum(key, t, c) \in Nat
<1>1. PICK a, f :
        a \in [1..Digits -> Nat] /\ NatSummed(f, a, Digits) /\ KeySum(key, t, c) = f[Digits]
  BY KeySumIs
<1>2. Digits \in Nat /\ Digits \in 0..Digits
  BY VectorAssumption
<1>3. \A i \in 0..Digits : f[i] \in Nat
  BY <1>1, <1>2, NatSummedSteps
<1> QED BY <1>1, <1>2, <1>3

DerivedNames == {"c0", "c1", "c2", "ks_b", "ks_a", "relin_c0", "relin_c1"}

(* So is every polynomial derived from the inputs.                         *)
LEMMA DerivedTyped ==
  ASSUME moduli \in TowerModuli, NEW name \in DerivedNames,
         NEW t \in 0..(TowerCount - 1), NEW c \in Coefs
  PROVE  Derived(name, t, c) \in Nat
<1>1. /\ Value("a0", 0, t, c) \in Nat /\ Value("a1", 0, t, c) \in Nat
      /\ Value("b0", 0, t, c) \in Nat /\ Value("b1", 0, t, c) \in Nat
  <2>1. \A n \in {"a0", "a1", "b0", "b1"} : <<n, 0>> \in InputFiles
    BY DEF InputFiles, Named
  <2> QED BY <2>1, ValueTyped
<1>2. KeySum("key_b", t, c) \in Nat /\ KeySum("key_a", t, c) \in Nat
  BY KeySumTyped
<1>3. PICK a0 \in Nat, a1 \in Nat, b0 \in Nat, b1 \in Nat, kb \in Nat, ka \in Nat :
        /\ a0 = Value("a0", 0, t, c) /\ a1 = Value("a1", 0, t, c)
        /\ b0 = Value("b0", 0, t, c) /\ b1 = Value("b1", 0, t, c)
        /\ kb = KeySum("key_b", t, c) /\ ka = KeySum("key_a", t, c)
  BY <1>1, <1>2
<1>4. /\ a0 * b0 \in Nat /\ a0 * b1 + a1 * b0 \in Nat /\ a1 * b1 \in Nat
      /\ a0 * b0 + kb \in Nat /\ (a0 * b1 + a1 * b0) + ka \in Nat
  <2>1. \A x, y \in Nat : x * y \in Nat
    OBVIOUS
  <2>2. PICK u \in Nat, v \in Nat, w \in Nat :
          u = a0 * b0 /\ v = a0 * b1 /\ w = a1 * b0
    BY <2>1
  <2> QED BY <2>1, <2>2
<1>5. Derived(name, t, c) \in
        {a0 * b0, a0 * b1 + a1 * b0, a1 * b1, kb, ka, a0 * b0 + kb, (a0 * b1 + a1 * b0) + ka}
  BY <1>3 DEF Derived, DerivedNames
<1> QED BY <1>4, <1>5

(* So an export as OpenFHE writes it is one of residues.                   *)
LEMMA OpenFHETyped ==
  ASSUME moduli \in TowerModuli
  PROVE  OpenFHE \in [Entries(TowerCount) -> Nat]
<1>1. ASSUME NEW x \in Entries(TowerCount)
      PROVE  (IF x[1] \in InputFiles THEN Sampled(x[1], x[2], x[3])
              ELSE Derived(x[1][1], x[2], x[3]) % moduli[x[2] + 1]) \in Nat
  <2>1. PICK file \in InputFiles \union DerivedFiles, t \in 0..(TowerCount - 1), c \in Coefs :
          x = <<file, t, c>>
    BY DEF Entries, Coefs
  <2>2. x[1] = file /\ x[2] = t /\ x[3] = c
    BY <2>1
  <2>3. CASE file \in InputFiles
    <3>1. PICK name, i : file = <<name, i>>
      BY <2>3 DEF InputFiles, Named, DigitFiles
    <3>2. Sampled(file, t, c) \in Nat
      BY <2>3, <3>1, ValueTyped DEF Value
    <3> QED BY <2>2, <2>3, <3>2
  <2>4. CASE file \notin InputFiles
    <3>1. PICK name \in DerivedNames : file = <<name, 0>>
      BY <2>4 DEF DerivedFiles, Named, DerivedNames
    <3>2. Derived(name, t, c) \in Nat
      BY DerivedTyped
    <3>3. moduli \in Seq(Nat \ {0}) /\ t + 1 \in 1..Len(moduli)
      BY PlatformAssumption DEF TowerCount
    <3>4. Derived(name, t, c) % moduli[t + 1] \in Nat
      BY <3>2, <3>3
    <3> QED BY <2>2, <2>4, <3>1, <3>4
  <2> QED BY <2>3, <2>4
<1> QED BY <1>1, OpenFHEIs

-----------------------------------------------------------------------------
(* OpenFHE's residues are those of the scripts' modular sums.              *)
LEMMA ModAddResidues ==
  ASSUME NEW x \in Nat, NEW y \in Nat, NEW d \in Nat \ {0}
  PROVE  ModAdd(x % d, y % d, d) = (x + y) % d
<1>1. PICK r \in Nat, s \in Nat : r = x % d /\ s = y % d
  OBVIOUS
<1>2. ((x % d) + s) % d = (x + s) % d /\ ((y % d) + x) % d = (y + x) % d
  BY ModSum
<1>3. (r + s) % d = (x + s) % d /\ (s + x) % d = (y + x) % d
  BY <1>1, <1>2
<1>4. x + s = s + x /\ y + x = x + y
  OBVIOUS
<1>5. (x + s) % d = (s + x) % d /\ (y + x) % d = (x + y) % d
  BY <1>4
<1>6. (r + s) % d = (x + y) % d
  BY <1>3, <1>5
<1> QED BY <1>1, <1>6 DEF ModAdd

(* One lane of a sum of products of words.                                 *)
LaneTerms(t, l, a, n, d) == \A i \in 1..n : t[i][l] = a[i] % d
LaneTotal(f, l, h, n, d) == f[n][l] = h[n] % d

(* A lane of a reduced sum is the residue of the sum of its terms.         *)
LEMMA LaneSum ==
  ASSUME NEW n \in Nat, NEW q \in ModuliPairs, NEW f, NEW t, Accumulates(f, n, t, q),
         NEW l \in Lanes, NEW a \in [1..n -> Nat], NEW h, NatSummed(h, a, n),
         LaneTerms(t, l, a, n, q[l])
  PROVE  LaneTotal(f, l, h, n, q[l])
<1>0. q[l] \in Nat \ {0}
  BY DEF ModuliPairs
<1>1. /\ h[0] = 0 /\ \A i \in 0..n : h[i] \in Nat
      /\ \A i \in 1..n : h[i] = h[i - 1] + a[i]
  BY NatSummedSteps
<1> DEFINE S == {i \in Nat : i <= n => f[i][l] = h[i] % q[l]}
<1>2. 0 \in S
  <2>1. f[0][l] = 0
    BY DEF Accumulates, Nought, Lanes
  <2>2. \A d \in Nat \ {0} : 0 % d = 0
    OBVIOUS
  <2> QED BY <1>0, <1>1, <2>1, <2>2
<1>3. ASSUME NEW i \in Nat, i \in S PROVE i + 1 \in S
  <2>1. SUFFICES ASSUME i + 1 <= n PROVE f[i + 1][l] = h[i + 1] % q[l]
    OBVIOUS
  <2>2. PICK k \in 1..n, j \in 0..n : k = i + 1 /\ j = i /\ k - 1 = j
    <3>1. i + 1 \in 1..n /\ i \in 0..n
      BY <2>1
    <3> QED BY <3>1
  <2>3. f[j][l] = h[j] % q[l]
    BY <1>3, <2>1, <2>2
  <2>4. f[k] = Plus(f[j], t[k], q)
    BY <2>2 DEF Accumulates
  <2>5. f[k][l] = ModAdd(f[j][l], t[k][l], q[l])
    BY <2>4 DEF Plus, ModAdd
  <2>6. f[k][l] = ModAdd(h[j] % q[l], a[k] % q[l], q[l])
    BY <2>3, <2>5 DEF LaneTerms
  <2>7. h[j] \in Nat /\ a[k] \in Nat
    BY <1>1
  <2>8. ModAdd(h[j] % q[l], a[k] % q[l], q[l]) = (h[j] + a[k]) % q[l]
    BY <1>0, <2>7, ModAddResidues
  <2>9. h[k] = h[j] + a[k]
    BY <1>1, <2>2
  <2> QED BY <2>2, <2>6, <2>8, <2>9
<1>4. \A i \in Nat : i \in S
  <2> HIDE DEF S
  <2> QED BY <1>2, <1>3, SetInduction
<1> QED BY <1>4 DEF LaneTotal

(* The tower of each lane of a pair.                                       *)
Side(p, l) == IF l = 1 THEN Tower0(p) ELSE Tower1(p)

(* The tower behind each lane of a pair.                                   *)
LEMMA Sides ==
  ASSUME moduli \in TowerModuli, NEW p \in 0..(PairCount - 1), NEW l \in Lanes
  PROVE  /\ Side(p, l) \in 0..(TowerCount - 1)
         /\ PairModuli(p)[l] = moduli[Side(p, l) + 1] /\ PairModuli(p)[l] \in Nat \ {0}
<1>1. l = 1 \/ l = 2
  BY DEF Lanes
<1> QED BY <1>1, PairTowers DEF Side, ModuliPairs

(* A lane of a word is the residue of its tower.                           *)
LEMMA WordLane ==
  ASSUME moduli \in TowerModuli, NEW source \in [Entries(TowerCount) -> Nat],
         NEW name, NEW i, <<name, i>> \in Files,
         NEW p \in 0..(PairCount - 1), NEW c \in Coefs, NEW l \in Lanes
  PROVE  WordIn(source, name, i, p, c)[l] = Residue(source, name, i, Side(p, l), c)
<1>1. CASE l = 1
  <2>1. Side(p, l) = Tower0(p)
    BY <1>1 DEF Side
  <2>2. WordIn(source, name, i, p, c)[1] = Residue(source, name, i, Tower0(p), c)
    BY WordTyped
  <2> QED BY <1>1, <2>1, <2>2
<1>2. CASE l = 2
  <2>1. Side(p, l) = Tower1(p)
    BY <1>2 DEF Side
  <2>2. WordIn(source, name, i, p, c)[2] = Residue(source, name, i, Tower1(p), c)
    BY WordTyped
  <2> QED BY <1>2, <2>1, <2>2
<1> QED BY <1>1, <1>2 DEF Lanes

(* In OpenFHE's export, a lane of an input word is a sampled residue.      *)
LEMMA InputLane ==
  ASSUME moduli \in TowerModuli, NEW name, NEW i, <<name, i>> \in InputFiles,
         NEW p \in 0..(PairCount - 1), NEW c \in Coefs, NEW l \in Lanes
  PROVE  /\ WordIn(OpenFHE, name, i, p, c)[l] = Value(name, i, Side(p, l), c)
         /\ Value(name, i, Side(p, l), c) \in Nat
<1>1. WordIn(OpenFHE, name, i, p, c)[l] = Residue(OpenFHE, name, i, Side(p, l), c)
  <2>1. OpenFHE \in [Entries(TowerCount) -> Nat] /\ <<name, i>> \in Files
    BY OpenFHETyped DEF Files
  <2> QED BY <2>1, WordLane
<1>2. PICK t \in 0..(TowerCount - 1) : t = Side(p, l)
  BY Sides
<1>3. <<<<name, i>>, t, c>> \in Entries(TowerCount)
  BY DEF Entries, Coefs
<1>4. Residue(OpenFHE, name, i, t, c) = Value(name, i, t, c)
  BY <1>3, OpenFHEIs DEF Value, Residue
<1>5. Value(name, i, t, c) \in Nat
  BY ValueTyped
<1> QED BY <1>1, <1>2, <1>4, <1>5

(* A lane of a derived word is a derived value, reduced.                   *)
LEMMA DerivedLane ==
  ASSUME moduli \in TowerModuli, NEW name \in DerivedNames,
         NEW p \in 0..(PairCount - 1), NEW c \in Coefs, NEW l \in Lanes
  PROVE  WordIn(OpenFHE, name, 0, p, c)[l] = Derived(name, Side(p, l), c) % PairModuli(p)[l]
<1>0. <<name, 0>> \in DerivedFiles /\ <<name, 0>> \notin InputFiles
  BY DEF DerivedFiles, InputFiles, Named, DigitFiles, DerivedNames
<1>1. WordIn(OpenFHE, name, 0, p, c)[l] = Residue(OpenFHE, name, 0, Side(p, l), c)
  <2>1. OpenFHE \in [Entries(TowerCount) -> Nat] /\ <<name, 0>> \in Files
    BY <1>0, OpenFHETyped DEF Files
  <2> QED BY <2>1, WordLane
<1>2. PICK t \in 0..(TowerCount - 1) : t = Side(p, l)
  BY Sides
<1>3. <<<<name, 0>>, t, c>> \in Entries(TowerCount)
  BY <1>0 DEF Entries, Coefs
<1>4. Residue(OpenFHE, name, 0, t, c) = Derived(name, t, c) % moduli[t + 1]
  BY <1>0, <1>3, OpenFHEIs DEF Residue
<1> QED BY <1>1, <1>2, <1>4, Sides

-----------------------------------------------------------------------------
(* What a script computes from the words of a pair at a coefficient.       *)
DigitsAt(source, name, p, c) == [d \in DigitIndices |-> WordIn(source, name, d, p, c)]
KsAt(source, key, p, c) ==
  KeySwitch(DigitsAt(source, "digit", p, c), DigitsAt(source, key, p, c), PairModuli(p))
EvalMulAt(source, p, c) ==
  EvalMul(WordIn(source, "a0", 0, p, c), WordIn(source, "a1", 0, p, c),
          WordIn(source, "b0", 0, p, c), WordIn(source, "b1", 0, p, c), PairModuli(p))
KeyTerm(source, key, p, c, d) ==
  Times(WordIn(source, "digit", d, p, c), WordIn(source, key, d, p, c), PairModuli(p))
KeyTerms(t, source, key, p, c) ==
  \A i \in 1..Digits : t[i] = KeyTerm(source, key, p, c, i - 1)

(* Words are equal when their lanes are.                                   *)
LEMMA VecEqual ==
  ASSUME NEW x \in Vec, NEW y \in Vec, \A l \in Lanes : x[l] = y[l]
  PROVE  x = y
BY DEF Vec

(* A product of words, lane by lane.                                       *)
LEMMA TimesLane ==
  ASSUME NEW x, NEW y, NEW q, NEW l \in Lanes
  PROVE  Times(x, y, q)[l] = (x[l] * y[l]) % q[l]
BY DEF Times

(* The product of a digit and its key is a word.                           *)
LEMMA KeyTermTyped ==
  ASSUME moduli \in TowerModuli, NEW source \in [Entries(TowerCount) -> Nat],
         NEW key \in {"key_b", "key_a"}, NEW p \in 0..(PairCount - 1), NEW c \in Coefs,
         NEW d \in DigitIndices
  PROVE  KeyTerm(source, key, p, c, d) \in Vec
<1>1. <<"digit", d>> \in Files /\ <<key, d>> \in Files
  BY DEF Files, InputFiles, DigitFiles
<1>2. WordIn(source, "digit", d, p, c) \in Vec /\ WordIn(source, key, d, p, c) \in Vec
  BY <1>1, WordTyped
<1>3. PairModuli(p) \in ModuliPairs
  BY PairTowers
<1> QED BY <1>2, <1>3, TimesReduced DEF KeyTerm, Reduced

(* A key switch accumulates the products of its digits.                    *)
LEMMA KsSummed ==
  ASSUME moduli \in TowerModuli, NEW source \in [Entries(TowerCount) -> Nat],
         NEW key \in {"key_b", "key_a"}, NEW p \in 0..(PairCount - 1), NEW c \in Coefs,
         NEW t, KeyTerms(t, source, key, p, c)
  PROVE  \E f : Accumulates(f, Digits, t, PairModuli(p)) /\ KsAt(source, key, p, c) = f[Digits]
<1>1. Digits \in Nat
  BY VectorAssumption
<1>2. ASSUME NEW i \in 1..Digits
      PROVE  /\ t[i] \in Vec
             /\ t[i] = Times(DigitsAt(source, "digit", p, c)[i - 1],
                             DigitsAt(source, key, p, c)[i - 1], PairModuli(p))
  <2>1. PICK d \in DigitIndices : d = i - 1
    BY <1>1 DEF DigitIndices
  <2>2. t[i] = KeyTerm(source, key, p, c, d)
    BY <2>1 DEF KeyTerms
  <2>3. /\ DigitsAt(source, "digit", p, c)[d] = WordIn(source, "digit", d, p, c)
        /\ DigitsAt(source, key, p, c)[d] = WordIn(source, key, d, p, c)
    BY DEF DigitsAt
  <2>4. t[i] \in Vec
    BY <2>2, KeyTermTyped
  <2> QED BY <2>1, <2>2, <2>3, <2>4 DEF KeyTerm
<1> QED BY <1>2, KeySwitchIs DEF KsAt

(* A key switch is a reduced word.                                         *)
LEMMA KsTyped ==
  ASSUME moduli \in TowerModuli, NEW source \in [Entries(TowerCount) -> Nat],
         NEW key \in {"key_b", "key_a"}, NEW p \in 0..(PairCount - 1), NEW c \in Coefs
  PROVE  Reduced(KsAt(source, key, p, c), PairModuli(p))
<1> DEFINE t == [i \in 1..Digits |-> KeyTerm(source, key, p, c, i - 1)]
<1>1. KeyTerms(t, source, key, p, c)
  BY DEF KeyTerms
<1> HIDE DEF t
<1>2. PICK f : Accumulates(f, Digits, t, PairModuli(p)) /\ KsAt(source, key, p, c) = f[Digits]
  BY <1>1, KsSummed
<1>3. Digits \in Nat /\ Digits \in 0..Digits /\ PairModuli(p) \in ModuliPairs
  BY VectorAssumption, PairTowers
<1> QED BY <1>2, <1>3, AccumulatedReduced

(* On OpenFHE's export, its lanes are the residues of the key sums.        *)
LEMMA OpenFHEKeySum ==
  ASSUME moduli \in TowerModuli, NEW key \in {"key_b", "key_a"},
         NEW p \in 0..(PairCount - 1), NEW c \in Coefs, NEW l \in Lanes
  PROVE  KsAt(OpenFHE, key, p, c)[l] = KeySum(key, Side(p, l), c) % PairModuli(p)[l]
<1>0. OpenFHE \in [Entries(TowerCount) -> Nat] /\ Digits \in Nat /\ PairModuli(p) \in ModuliPairs
  BY OpenFHETyped, VectorAssumption, PairTowers
<1>s. PICK side \in 0..(TowerCount - 1) : side = Side(p, l)
  BY Sides
<1> DEFINE t == [i \in 1..Digits |-> KeyTerm(OpenFHE, key, p, c, i - 1)]
<1>1. KeyTerms(t, OpenFHE, key, p, c)
  BY DEF KeyTerms
<1> HIDE DEF t
<1>2. PICK f : /\ Accumulates(f, Digits, t, PairModuli(p))
              /\ KsAt(OpenFHE, key, p, c) = f[Digits]
  BY <1>0, <1>1, KsSummed
<1>3. PICK a, h :
        /\ a \in [1..Digits -> Nat]
        /\ NatSummed(h, a, Digits) /\ KeySum(key, side, c) = h[Digits]
        /\ \A i \in 1..Digits : a[i] = Value("digit", i - 1, side, c) * Value(key, i - 1, side, c)
  BY KeySumIs
<1>4. ASSUME NEW i \in 1..Digits PROVE t[i][l] = a[i] % PairModuli(p)[l]
  <2>1. PICK d \in DigitIndices : d = i - 1
    BY <1>0 DEF DigitIndices
  <2>2. <<"digit", d>> \in InputFiles /\ <<key, d>> \in InputFiles
    BY DEF InputFiles, DigitFiles
  <2>3. /\ WordIn(OpenFHE, "digit", d, p, c)[l] = Value("digit", d, side, c)
        /\ WordIn(OpenFHE, key, d, p, c)[l] = Value(key, d, side, c)
    BY <1>s, <2>2, InputLane
  <2>4. t[i] = KeyTerm(OpenFHE, key, p, c, d)
    BY <1>1, <2>1 DEF KeyTerms
  <2>5. t[i][l] = (Value("digit", d, side, c) * Value(key, d, side, c)) % PairModuli(p)[l]
    BY <2>3, <2>4, TimesLane DEF KeyTerm
  <2>6. a[i] = Value("digit", d, side, c) * Value(key, d, side, c)
    BY <1>3, <2>1
  <2> QED BY <2>5, <2>6
<1>5. LaneTerms(t, l, a, Digits, PairModuli(p)[l])
  BY <1>4 DEF LaneTerms
<1>6. f[Digits][l] = h[Digits] % PairModuli(p)[l]
  <2>1. Digits \in Nat /\ PairModuli(p) \in ModuliPairs /\ l \in Lanes
    BY <1>0
  <2>2. Accumulates(f, Digits, t, PairModuli(p)) /\ NatSummed(h, a, Digits)
    BY <1>2, <1>3
  <2>3. a \in [1..Digits -> Nat]
    BY <1>3
  <2>4. LaneTotal(f, l, h, Digits, PairModuli(p)[l])
    BY <2>1, <2>2, <2>3, <1>5, LaneSum
  <2> QED BY <2>4 DEF LaneTotal
<1> QED BY <1>s, <1>2, <1>3, <1>6

(* The key-switch words of an export are the scripts' own sums.            *)
LEMMA OpenFHEKeySwitch ==
  ASSUME moduli \in TowerModuli, NEW p \in 0..(PairCount - 1), NEW c \in Coefs
  PROVE  /\ KsAt(OpenFHE, "key_b", p, c) = WordIn(OpenFHE, "ks_b", 0, p, c)
         /\ KsAt(OpenFHE, "key_a", p, c) = WordIn(OpenFHE, "ks_a", 0, p, c)
<1>1. /\ KsAt(OpenFHE, "key_b", p, c) \in Vec /\ KsAt(OpenFHE, "key_a", p, c) \in Vec
  BY OpenFHETyped, KsTyped DEF Reduced
<1>2. <<"ks_b", 0>> \in Files /\ <<"ks_a", 0>> \in Files
  BY DEF Files, DerivedFiles, Named
<1>3. WordIn(OpenFHE, "ks_b", 0, p, c) \in Vec /\ WordIn(OpenFHE, "ks_a", 0, p, c) \in Vec
  BY <1>2, OpenFHETyped, WordTyped
<1>4. ASSUME NEW l \in Lanes
      PROVE  /\ KsAt(OpenFHE, "key_b", p, c)[l] = WordIn(OpenFHE, "ks_b", 0, p, c)[l]
             /\ KsAt(OpenFHE, "key_a", p, c)[l] = WordIn(OpenFHE, "ks_a", 0, p, c)[l]
  <2>1. /\ KsAt(OpenFHE, "key_b", p, c)[l] = KeySum("key_b", Side(p, l), c) % PairModuli(p)[l]
        /\ KsAt(OpenFHE, "key_a", p, c)[l] = KeySum("key_a", Side(p, l), c) % PairModuli(p)[l]
    BY OpenFHEKeySum
  <2>2. "ks_b" \in DerivedNames /\ "ks_a" \in DerivedNames
    BY DEF DerivedNames
  <2>3. /\ WordIn(OpenFHE, "ks_b", 0, p, c)[l] = Derived("ks_b", Side(p, l), c) % PairModuli(p)[l]
        /\ WordIn(OpenFHE, "ks_a", 0, p, c)[l] = Derived("ks_a", Side(p, l), c) % PairModuli(p)[l]
    BY <2>2, DerivedLane
  <2>4. /\ Derived("ks_b", Side(p, l), c) = KeySum("key_b", Side(p, l), c)
        /\ Derived("ks_a", Side(p, l), c) = KeySum("key_a", Side(p, l), c)
    BY DEF Derived
  <2> QED BY <2>1, <2>3, <2>4
<1> QED BY <1>1, <1>3, <1>4, VecEqual

(* The components of a tensor product are words.                           *)
LEMMA EvalMulTyped ==
  ASSUME moduli \in TowerModuli, NEW source \in [Entries(TowerCount) -> Nat],
         NEW p \in 0..(PairCount - 1), NEW c \in Coefs
  PROVE  /\ EvalMulAt(source, p, c).c0 \in Vec /\ EvalMulAt(source, p, c).c1 \in Vec
         /\ EvalMulAt(source, p, c).c2 \in Vec
<1>1. \A n \in {"a0", "a1", "b0", "b1"} : <<n, 0>> \in Files
  BY DEF Files, InputFiles, Named
<1>2. PICK a0 \in Vec, a1 \in Vec, b0 \in Vec, b1 \in Vec, q \in ModuliPairs :
        /\ a0 = WordIn(source, "a0", 0, p, c) /\ a1 = WordIn(source, "a1", 0, p, c)
        /\ b0 = WordIn(source, "b0", 0, p, c) /\ b1 = WordIn(source, "b1", 0, p, c)
        /\ q = PairModuli(p)
  BY <1>1, WordTyped, PairTowers
<1>3. ASSUME NEW l \in Lanes PROVE (a0[l] * b1[l] + a1[l] * b0[l]) % q[l] \in Nat
  <2>1. PICK u \in Nat, v \in Nat, w \in Nat, x \in Nat, d \in Nat \ {0} :
          u = a0[l] /\ v = b1[l] /\ w = a1[l] /\ x = b0[l] /\ d = q[l]
    BY DEF Vec, ModuliPairs
  <2>2. \A y, z \in Nat : y * z \in Nat
    OBVIOUS
  <2>3. u * v + w * x \in Nat
    BY <2>2
  <2>4. (u * v + w * x) % d \in Nat
    BY <2>3
  <2> QED BY <2>1, <2>4
<1>4. EvalMulAt(source, p, c) = EvalMul(a0, a1, b0, b1, q)
  BY <1>2 DEF EvalMulAt
<1>5. EvalMul(a0, a1, b0, b1, q).c1 \in Vec
  BY <1>3 DEF EvalMul, Vec
<1>6. Times(a0, b0, q) \in Vec /\ Times(a1, b1, q) \in Vec
  BY TimesReduced DEF Reduced
<1>7. EvalMul(a0, a1, b0, b1, q).c0 \in Vec /\ EvalMul(a0, a1, b0, b1, q).c2 \in Vec
  BY <1>6 DEF EvalMul
<1> QED BY <1>4, <1>5, <1>7

(* On OpenFHE's export, a product of input words lane by lane.             *)
LEMMA OpenFHEProducts ==
  ASSUME moduli \in TowerModuli, NEW p \in 0..(PairCount - 1), NEW c \in Coefs,
         NEW l \in Lanes
  PROVE  /\ EvalMulAt(OpenFHE, p, c).c0[l] = Derived("c0", Side(p, l), c) % PairModuli(p)[l]
         /\ EvalMulAt(OpenFHE, p, c).c1[l] = Derived("c1", Side(p, l), c) % PairModuli(p)[l]
         /\ EvalMulAt(OpenFHE, p, c).c2[l] = Derived("c2", Side(p, l), c) % PairModuli(p)[l]
<1>1. \A n \in {"a0", "a1", "b0", "b1"} : <<n, 0>> \in InputFiles
  BY DEF InputFiles, Named
<1>2. /\ WordIn(OpenFHE, "a0", 0, p, c)[l] = Value("a0", 0, Side(p, l), c)
      /\ WordIn(OpenFHE, "a1", 0, p, c)[l] = Value("a1", 0, Side(p, l), c)
      /\ WordIn(OpenFHE, "b0", 0, p, c)[l] = Value("b0", 0, Side(p, l), c)
      /\ WordIn(OpenFHE, "b1", 0, p, c)[l] = Value("b1", 0, Side(p, l), c)
  BY <1>1, InputLane
<1>3. ASSUME NEW a0, NEW a1, NEW b0, NEW b1, NEW q
      PROVE  /\ EvalMul(a0, a1, b0, b1, q).c0[l] = (a0[l] * b0[l]) % q[l]
             /\ EvalMul(a0, a1, b0, b1, q).c1[l] = (a0[l] * b1[l] + a1[l] * b0[l]) % q[l]
             /\ EvalMul(a0, a1, b0, b1, q).c2[l] = (a1[l] * b1[l]) % q[l]
  BY DEF EvalMul, Times
<1> QED BY <1>2, <1>3 DEF EvalMulAt, Derived

(* The tensor products of an export are the scripts' own.                  *)
LEMMA OpenFHEEvalMul ==
  ASSUME moduli \in TowerModuli, NEW p \in 0..(PairCount - 1), NEW c \in Coefs
  PROVE  /\ EvalMulAt(OpenFHE, p, c).c0 = WordIn(OpenFHE, "c0", 0, p, c)
         /\ EvalMulAt(OpenFHE, p, c).c1 = WordIn(OpenFHE, "c1", 0, p, c)
         /\ EvalMulAt(OpenFHE, p, c).c2 = WordIn(OpenFHE, "c2", 0, p, c)
<1>1. \A n \in {"c0", "c1", "c2"} : <<n, 0>> \in Files /\ n \in DerivedNames
  BY DEF Files, DerivedFiles, Named, DerivedNames
<1>2. \A n \in {"c0", "c1", "c2"} : WordIn(OpenFHE, n, 0, p, c) \in Vec
  BY <1>1, OpenFHETyped, WordTyped
<1>3. \A n \in {"c0", "c1", "c2"}, l \in Lanes :
        WordIn(OpenFHE, n, 0, p, c)[l] = Derived(n, Side(p, l), c) % PairModuli(p)[l]
  BY <1>1, DerivedLane
<1>4. /\ EvalMulAt(OpenFHE, p, c).c0 \in Vec /\ EvalMulAt(OpenFHE, p, c).c1 \in Vec
      /\ EvalMulAt(OpenFHE, p, c).c2 \in Vec
  BY OpenFHETyped, EvalMulTyped
<1>5. ASSUME NEW l \in Lanes
      PROVE  /\ EvalMulAt(OpenFHE, p, c).c0[l] = WordIn(OpenFHE, "c0", 0, p, c)[l]
             /\ EvalMulAt(OpenFHE, p, c).c1[l] = WordIn(OpenFHE, "c1", 0, p, c)[l]
             /\ EvalMulAt(OpenFHE, p, c).c2[l] = WordIn(OpenFHE, "c2", 0, p, c)[l]
  BY <1>3, OpenFHEProducts
<1> QED BY <1>2, <1>4, <1>5, VecEqual

(* So are its relinearized components: each is a component of the tensor   *)
(* product and the key switch by one half of the key.                      *)
LEMMA OpenFHERelinearized ==
  ASSUME moduli \in TowerModuli, NEW p \in 0..(PairCount - 1), NEW c \in Coefs
  PROVE  /\ Plus(EvalMulAt(OpenFHE, p, c).c0, KsAt(OpenFHE, "key_b", p, c), PairModuli(p))
              = WordIn(OpenFHE, "relin_c0", 0, p, c)
         /\ Plus(EvalMulAt(OpenFHE, p, c).c1, KsAt(OpenFHE, "key_a", p, c), PairModuli(p))
              = WordIn(OpenFHE, "relin_c1", 0, p, c)
<1> DEFINE x == EvalMulAt(OpenFHE, p, c).c0
           y == EvalMulAt(OpenFHE, p, c).c1
           kb == KsAt(OpenFHE, "key_b", p, c)
           ka == KsAt(OpenFHE, "key_a", p, c)
           q == PairModuli(p)
           rx == WordIn(OpenFHE, "relin_c0", 0, p, c)
           ry == WordIn(OpenFHE, "relin_c1", 0, p, c)
<1>1. x \in Vec /\ y \in Vec /\ kb \in Vec /\ ka \in Vec /\ q \in ModuliPairs
  BY OpenFHETyped, EvalMulTyped, KsTyped, PairTowers DEF Reduced
<1>2. \A n \in {"relin_c0", "relin_c1"} : <<n, 0>> \in Files /\ n \in DerivedNames
  BY DEF Files, DerivedFiles, Named, DerivedNames
<1>3. rx \in Vec /\ ry \in Vec
  BY <1>2, OpenFHETyped, WordTyped
<1>4. ASSUME NEW l \in Lanes PROVE Plus(x, kb, q)[l] = rx[l] /\ Plus(y, ka, q)[l] = ry[l]
  <2>1. /\ x[l] = Derived("c0", Side(p, l), c) % q[l]
        /\ y[l] = Derived("c1", Side(p, l), c) % q[l]
    BY OpenFHEProducts
  <2>2. /\ kb[l] = KeySum("key_b", Side(p, l), c) % q[l]
        /\ ka[l] = KeySum("key_a", Side(p, l), c) % q[l]
    BY OpenFHEKeySum
  <2>3. /\ rx[l] = Derived("relin_c0", Side(p, l), c) % q[l]
        /\ ry[l] = Derived("relin_c1", Side(p, l), c) % q[l]
    BY <1>2, DerivedLane
  <2>4. /\ Derived("relin_c0", Side(p, l), c)
             = Derived("c0", Side(p, l), c) + KeySum("key_b", Side(p, l), c)
        /\ Derived("relin_c1", Side(p, l), c)
             = Derived("c1", Side(p, l), c) + KeySum("key_a", Side(p, l), c)
    BY DEF Derived
  <2>5. Side(p, l) \in 0..(TowerCount - 1) /\ q[l] \in Nat \ {0}
    BY Sides
  <2>6. "c0" \in DerivedNames /\ "c1" \in DerivedNames
    BY DEF DerivedNames
  <2>7. PICK u \in Nat, v \in Nat, f \in Nat, g \in Nat, d \in Nat \ {0} :
          /\ u = Derived("c0", Side(p, l), c) /\ v = Derived("c1", Side(p, l), c)
          /\ f = KeySum("key_b", Side(p, l), c) /\ g = KeySum("key_a", Side(p, l), c)
          /\ d = q[l]
    BY <2>5, <2>6, DerivedTyped, KeySumTyped
  <2>8. /\ Plus(x, kb, q)[l] = ModAdd(x[l], kb[l], q[l])
        /\ Plus(y, ka, q)[l] = ModAdd(y[l], ka[l], q[l])
    BY DEF Plus, ModAdd
  <2> HIDE DEF x, y, kb, ka, q, rx, ry
  <2>9. ModAdd(u % d, f % d, d) = (u + f) % d /\ ModAdd(v % d, g % d, d) = (v + g) % d
    BY ModAddResidues
  <2>a. x[l] = u % d /\ y[l] = v % d /\ kb[l] = f % d /\ ka[l] = g % d
    BY <2>1, <2>2, <2>7
  <2>b. rx[l] = (u + f) % d /\ ry[l] = (v + g) % d
    BY <2>3, <2>4, <2>7
  <2> QED BY <2>7, <2>8, <2>9, <2>a, <2>b
<1>5. Plus(x, kb, q) \in Vec /\ Plus(y, ka, q) \in Vec
  BY <1>1, PlusReduced DEF Reduced
<1> HIDE DEF x, y, kb, ka, q, rx, ry
<1>6. Plus(x, kb, q) = rx /\ Plus(y, ka, q) = ry
  BY <1>3, <1>4, <1>5, VecEqual
<1> QED BY <1>6 DEF x, y, kb, ka, q, rx, ry

-----------------------------------------------------------------------------
(* What a core answers, when its products are those of a pair's words.     *)
Key(component) == IF component = 0 THEN "key_b" ELSE "key_a"
Tensor(source, p, c, component) ==
  IF component = 0 THEN EvalMulAt(source, p, c).c0 ELSE EvalMulAt(source, p, c).c1
Computed(operands, source, p, c, component) ==
  IF operands = 0 THEN KsAt(source, Key(component), p, c)
  ELSE Plus(Tensor(source, p, c, component), KsAt(source, Key(component), p, c), PairModuli(p))

TensorTerm(source, p, c, i, j) ==
  Times(WordIn(source, i, 0, p, c), WordIn(source, j, 0, p, c), PairModuli(p))
TensorTerms(t, source, p, c, component) ==
  IF component = 0 THEN t[1] = TensorTerm(source, p, c, "a0", "b0")
  ELSE t[1] = TensorTerm(source, p, c, "a0", "b1") /\ t[2] = TensorTerm(source, p, c, "a1", "b0")
OperandNames == {"a0", "a1", "b0", "b1"}
TensorCount(operands, component) == IF operands = 0 THEN 0 ELSE component + 1

(* A product of two operands is a reduced word.                            *)
LEMMA TensorTermTyped ==
  ASSUME moduli \in TowerModuli, NEW source \in [Entries(TowerCount) -> Nat],
         NEW p \in 0..(PairCount - 1), NEW c \in Coefs,
         NEW i \in OperandNames, NEW j \in OperandNames
  PROVE  Reduced(TensorTerm(source, p, c, i, j), PairModuli(p))
<1>1. <<i, 0>> \in Files /\ <<j, 0>> \in Files
  BY DEF Files, InputFiles, Named, OperandNames
<1>2. WordIn(source, i, 0, p, c) \in Vec /\ WordIn(source, j, 0, p, c) \in Vec
  BY <1>1, WordTyped
<1>3. PairModuli(p) \in ModuliPairs
  BY PairTowers
<1> QED BY <1>2, <1>3, TimesReduced DEF TensorTerm

(* Two products reduced one by one, or their sum reduced once.             *)
LEMMA TensorSum ==
  ASSUME moduli \in TowerModuli, NEW source \in [Entries(TowerCount) -> Nat],
         NEW p \in 0..(PairCount - 1), NEW c \in Coefs
  PROVE  Plus(TensorTerm(source, p, c, "a0", "b1"), TensorTerm(source, p, c, "a1", "b0"),
              PairModuli(p)) = EvalMulAt(source, p, c).c1
<1>1. \A n \in OperandNames : <<n, 0>> \in Files
  BY DEF Files, InputFiles, Named, OperandNames
<1>2. PICK a0 \in Vec, a1 \in Vec, b0 \in Vec, b1 \in Vec, q \in ModuliPairs :
        /\ a0 = WordIn(source, "a0", 0, p, c) /\ a1 = WordIn(source, "a1", 0, p, c)
        /\ b0 = WordIn(source, "b0", 0, p, c) /\ b1 = WordIn(source, "b1", 0, p, c)
        /\ q = PairModuli(p)
  BY <1>1, WordTyped, PairTowers DEF OperandNames
<1>3. ASSUME NEW l \in Lanes
      PROVE  ModAdd(Times(a0, b1, q)[l], Times(a1, b0, q)[l], q[l])
               = (a0[l] * b1[l] + a1[l] * b0[l]) % q[l]
  <2>1. PICK u \in Nat, v \in Nat, w \in Nat, x \in Nat, d \in Nat \ {0} :
          u = a0[l] /\ v = b1[l] /\ w = a1[l] /\ x = b0[l] /\ d = q[l]
    BY DEF Vec, ModuliPairs
  <2>2. \A y, z \in Nat : y * z \in Nat
    OBVIOUS
  <2>3. PICK y \in Nat, z \in Nat : y = u * v /\ z = w * x
    BY <2>2
  <2>4. ModAdd(y % d, z % d, d) = (y + z) % d
    BY ModAddResidues
  <2>5. Times(a0, b1, q)[l] = y % d /\ Times(a1, b0, q)[l] = z % d
    BY <2>1, <2>3, TimesLane
  <2> QED BY <2>1, <2>3, <2>4, <2>5
<1>4. \A r, s : (\A l \in Lanes :
                   ModAdd(r[l], s[l], q[l]) = (a0[l] * b1[l] + a1[l] * b0[l]) % q[l])
                => Plus(r, s, q) = EvalMul(a0, a1, b0, b1, q).c1
  BY DEF Plus, ModAdd, EvalMul
<1>5. Plus(Times(a0, b1, q), Times(a1, b0, q), q) = EvalMul(a0, a1, b0, b1, q).c1
  BY <1>3, <1>4, Zenon
<1> QED BY <1>2, <1>5 DEF TensorTerm, EvalMulAt

(* A single product is the sum of itself.                                  *)
LEMMA TensorFirst ==
  ASSUME NEW source, NEW p, NEW c
  PROVE  TensorTerm(source, p, c, "a0", "b0") = EvalMulAt(source, p, c).c0
BY DEF TensorTerm, EvalMulAt, EvalMul

(* The first terms of an answer are the component of the tensor product.   *)
LEMMA TensorAccumulated ==
  ASSUME moduli \in TowerModuli, NEW source \in [Entries(TowerCount) -> Nat],
         NEW p \in 0..(PairCount - 1), NEW c \in Coefs, NEW component \in 0..1,
         NEW n \in Nat, n >= component + 1, NEW t, NEW f, Accumulates(f, n, t, PairModuli(p)),
         TensorTerms(t, source, p, c, component)
  PROVE  f[component + 1] = Tensor(source, p, c, component)
<1>1. PairModuli(p) \in ModuliPairs
  BY PairTowers
<1>2. f[0] = Nought /\ f[1] = Plus(f[0], t[1], PairModuli(p))
  <2>1. 1 \in 1..n /\ 1 - 1 = 0
    OBVIOUS
  <2> QED BY <2>1 DEF Accumulates
<1>3. ASSUME NEW i \in OperandNames, NEW j \in OperandNames,
             t[1] = TensorTerm(source, p, c, i, j)
      PROVE  f[1] = t[1]
  <2>1. Reduced(t[1], PairModuli(p))
    BY <1>3, TensorTermTyped
  <2> QED BY <1>1, <1>2, <2>1, PlusNought
<1>4. CASE component = 0
  <2>1. t[1] = TensorTerm(source, p, c, "a0", "b0")
    BY <1>4 DEF TensorTerms
  <2>2. f[1] = t[1]
    BY <1>3, <2>1 DEF OperandNames
  <2> QED BY <1>4, <2>1, <2>2, TensorFirst DEF Tensor
<1>5. CASE component = 1
  <2>1. /\ t[1] = TensorTerm(source, p, c, "a0", "b1")
        /\ t[2] = TensorTerm(source, p, c, "a1", "b0")
    BY <1>5 DEF TensorTerms
  <2>2. f[1] = t[1]
    BY <1>3, <2>1 DEF OperandNames
  <2>3. f[2] = Plus(f[1], t[2], PairModuli(p))
    <3>1. 2 \in 1..n /\ 2 - 1 = 1
      BY <1>5
    <3> QED BY <3>1 DEF Accumulates
  <2>4. f[2] = EvalMulAt(source, p, c).c1
    BY <2>1, <2>2, <2>3, TensorSum
  <2> QED BY <1>5, <2>4 DEF Tensor
<1> QED BY <1>4, <1>5

(* Terms of an answer: a tensor component's, then the key switch's.        *)
AnswerTerms(t, operands, source, p, c, component) ==
  /\ operands # 0 => TensorTerms(t, source, p, c, component)
  /\ \A i \in 1..Digits :
       t[TensorCount(operands, component) + i] = KeyTerm(source, Key(component), p, c, i - 1)

(* The terms of an answer are reduced words.                               *)
LEMMA AnswerTermsTyped ==
  ASSUME moduli \in TowerModuli, NEW source \in [Entries(TowerCount) -> Nat],
         NEW p \in 0..(PairCount - 1), NEW c \in Coefs, NEW component \in 0..1, NEW operands,
         NEW t, AnswerTerms(t, operands, source, p, c, component)
  PROVE  \A i \in 1..(TensorCount(operands, component) + Digits) : t[i] \in Vec
<1>1. Digits \in Nat /\ Key(component) \in {"key_b", "key_a"}
  BY VectorAssumption DEF Key
<1>2. ASSUME NEW i \in 1..Digits PROVE t[TensorCount(operands, component) + i] \in Vec
  <2>1. PICK d \in DigitIndices : d = i - 1
    BY <1>1 DEF DigitIndices
  <2>2. KeyTerm(source, Key(component), p, c, d) \in Vec
    BY <1>1, KeyTermTyped
  <2> QED BY <2>1, <2>2 DEF AnswerTerms
<1>3. \A i, j \in OperandNames : TensorTerm(source, p, c, i, j) \in Vec
  BY TensorTermTyped DEF Reduced
<1>4. ASSUME NEW i \in 1..TensorCount(operands, component) PROVE t[i] \in Vec
  <2>1. operands # 0 /\ i \in 1..(component + 1)
    BY DEF TensorCount
  <2>2. TensorTerms(t, source, p, c, component)
    BY <2>1 DEF AnswerTerms
  <2>3. CASE component = 0
    BY <1>3, <2>1, <2>2, <2>3 DEF TensorTerms, OperandNames
  <2>4. CASE component = 1
    <3>1. i = 1 \/ i = 2
      BY <2>1, <2>4
    <3> QED BY <1>3, <2>2, <2>4, <3>1 DEF TensorTerms, OperandNames
  <2> QED BY <2>3, <2>4
<1>5. PICK m \in Nat : m = TensorCount(operands, component)
  BY DEF TensorCount
<1>6. ASSUME NEW i \in 1..(m + Digits) PROVE t[i] \in Vec
  <2>1. CASE i <= m
    BY <1>4, <1>5, <2>1
  <2>2. CASE ~(i <= m)
    <3>1. PICK k \in 1..Digits : i = m + k
      <4>1. i - m \in 1..Digits /\ i = m + (i - m)
        BY <1>1, <2>2
      <4> QED BY <4>1
    <3> QED BY <1>2, <1>5, <3>1
  <2> QED BY <2>1, <2>2
<1> QED BY <1>5, <1>6

(* Tensor products and key products add up to the computed word.           *)
LEMMA AnswerComputed ==
  ASSUME moduli \in TowerModuli, NEW source \in [Entries(TowerCount) -> Nat],
         NEW p \in 0..(PairCount - 1), NEW c \in Coefs, NEW component \in 0..1, NEW operands,
         NEW t, AnswerTerms(t, operands, source, p, c, component),
         NEW f, Accumulates(f, TensorCount(operands, component) + Digits, t, PairModuli(p))
  PROVE  f[TensorCount(operands, component) + Digits]
           = Computed(operands, source, p, c, component)
<1>1. /\ Digits \in Nat /\ Key(component) \in {"key_b", "key_a"}
      /\ PairModuli(p) \in ModuliPairs
  BY VectorAssumption, PairTowers DEF Key
<1>2. PICK m \in Nat : m = TensorCount(operands, component)
  BY DEF TensorCount
<1> DEFINE u == [i \in 1..Digits |-> KeyTerm(source, Key(component), p, c, i - 1)]
<1>3. KeyTerms(u, source, Key(component), p, c)
  BY DEF KeyTerms
<1>4. Behind(t, m, u, Digits)
  <2>1. \A i \in 1..Digits : t[m + i] = KeyTerm(source, Key(component), p, c, i - 1)
    BY <1>2 DEF AnswerTerms
  <2>2. \A i \in 1..Digits : u[i] = KeyTerm(source, Key(component), p, c, i - 1)
    OBVIOUS
  <2> HIDE DEF u
  <2> QED BY <2>1, <2>2 DEF Behind
<1> HIDE DEF u
<1>5. PICK g : /\ Accumulates(g, Digits, u, PairModuli(p))
              /\ KsAt(source, Key(component), p, c) = g[Digits]
  BY <1>1, <1>3, KsSummed
<1>6. f[m + Digits] = Plus(f[m], g[Digits], PairModuli(p))
  BY <1>1, <1>2, <1>4, <1>5, AccumulatesSplit
<1>7. CASE operands = 0
  <2>1. m = 0 /\ f[m] = Nought
    BY <1>2, <1>7 DEF TensorCount, Accumulates
  <2>2. Reduced(g[Digits], PairModuli(p))
    BY <1>1, <1>5, KsTyped
  <2>3. Plus(f[m], g[Digits], PairModuli(p)) = g[Digits]
    BY <1>1, <2>1, <2>2, PlusNought
  <2>4. Computed(operands, source, p, c, component) = g[Digits]
    BY <1>5, <1>7 DEF Computed
  <2> QED BY <1>2, <1>6, <2>3, <2>4
<1>8. CASE operands # 0
  <2>1. m = component + 1
    BY <1>2, <1>8 DEF TensorCount
  <2>2. TensorTerms(t, source, p, c, component)
    BY <1>8 DEF AnswerTerms
  <2>3. PICK n \in Nat : n = m + Digits /\ n >= component + 1
    BY <1>1, <2>1
  <2>4. Accumulates(f, n, t, PairModuli(p))
    BY <1>2, <2>3
  <2>5. f[component + 1] = Tensor(source, p, c, component)
    BY <2>2, <2>3, <2>4, TensorAccumulated
  <2>6. f[m] = Tensor(source, p, c, component)
    BY <2>1, <2>5
  <2> QED BY <1>2, <1>5, <1>6, <1>8, <2>6 DEF Computed
<1> QED BY <1>7, <1>8

(* A sum of products of words whose terms are these.                       *)
LEMMA AnswerIs ==
  ASSUME moduli \in TowerModuli, NEW source \in [Entries(TowerCount) -> Nat],
         NEW p \in 0..(PairCount - 1), NEW c \in Coefs, NEW component \in 0..1, NEW operands,
         NEW products, NEW words, Len(products) = TensorCount(operands, component) + Digits,
         NEW t, AnswerTerms(t, operands, source, p, c, component),
         \A i \in 1..Len(products) : t[i] = ProductTerm(products, words, PairModuli(p), i)
  PROVE  SumOfProducts(products, words, PairModuli(p))
           = Computed(operands, source, p, c, component)
<1>1. PICK n \in Nat : n = TensorCount(operands, component) + Digits
  BY VectorAssumption DEF TensorCount
<1>2. \A i \in 1..n : t[i] \in Vec /\ t[i] = ProductTerm(products, words, PairModuli(p), i)
  BY <1>1, AnswerTermsTyped
<1>3. PICK f : /\ Accumulates(f, n, t, PairModuli(p))
              /\ SumOfProducts(products, words, PairModuli(p)) = f[n]
  BY <1>1, <1>2, SumOfProductsIs
<1> QED BY <1>1, <1>3, AnswerComputed

-----------------------------------------------------------------------------
(* The products of an answer, as pairs of payload words.                   *)
Mult(frame, i, j, q) ==
  Layout!Product(Layout!Payload(frame, i), Layout!Payload(frame, j), q)
Mults(q) == {Mult(1, i, j, q) : i \in Nat, j \in Nat}

(* A product of payload words, by their indices.                           *)
LEMMA MultTerm ==
  ASSUME NEW products, NEW words, NEW q, NEW k, NEW i, NEW j, products[k] = Mult(1, i, j, q)
  PROVE  ProductTerm(products, words, q, k) = Times(words[i + 1], words[j + 1], q)
BY DEF ProductTerm, Mult, Layout!Product, Layout!Payload

(* The words a ciphertext-major core reads for one coefficient.            *)
OperandsAt(w, first, source, p, c) ==
  /\ w[first + 1] = WordIn(source, "a0", 0, p, c)
  /\ w[first + 2] = WordIn(source, "a1", 0, p, c)
  /\ w[first + 3] = WordIn(source, "b0", 0, p, c)
  /\ w[first + 4] = WordIn(source, "b1", 0, p, c)
TripleAt(w, k, source, p, c, d) ==
  /\ w[k + 1] = WordIn(source, "digit", d, p, c)
  /\ w[k + 2] = WordIn(source, "key_b", d, p, c)
  /\ w[k + 3] = WordIn(source, "key_a", d, p, c)
OperandsIfAny(w, first, operands, source, p, c) ==
  operands # 0 => OperandsAt(w, first, source, p, c)
CiphertextBlock(w, first, operands, source, p, c) ==
  /\ OperandsIfAny(w, first, operands, source, p, c)
  /\ \A d \in DigitIndices : TripleAt(w, first + operands + 3 * d, source, p, c, d)

TensorMults(first, q, component) ==
  IF component = 0 THEN <<Mult(1, first + 0, first + 2, q)>>
  ELSE <<Mult(1, first + 0, first + 3, q), Mult(1, first + 1, first + 2, q)>>

(* The products of a tensor component are pairs of payload words.          *)
LEMMA TensorMultsAre ==
  ASSUME NEW first \in Nat, NEW q, NEW component \in 0..1
  PROVE  /\ TensorMults(first, q, component) \in Seq(Mults(q))
         /\ Len(TensorMults(first, q, component)) = component + 1
<1>1. /\ Mult(1, first + 0, first + 2, q) \in Mults(q)
      /\ Mult(1, first + 0, first + 3, q) \in Mults(q)
      /\ Mult(1, first + 1, first + 2, q) \in Mults(q)
  <2>1. first + 0 \in Nat /\ first + 1 \in Nat /\ first + 2 \in Nat /\ first + 3 \in Nat
    OBVIOUS
  <2> QED BY <2>1 DEF Mults
<1>2. component = 0 \/ component = 1
  OBVIOUS
<1> QED BY <1>1, <1>2 DEF TensorMults

(* On the operands of a coefficient they are its tensor terms.             *)
LEMMA TensorMultsTerms ==
  ASSUME NEW first \in Nat, NEW component \in 0..1, NEW source, NEW p, NEW c, NEW w,
         OperandsAt(w, first, source, p, c), NEW products, NEW n \in Nat,
         NEW rest \in Seq(Mults(PairModuli(p))),
         Joins(products, TensorMults(first, PairModuli(p), component), rest, Mults(PairModuli(p)),
               component + 1, n),
         NEW t, \A i \in 1..Len(products) : t[i] = ProductTerm(products, w, PairModuli(p), i)
  PROVE  TensorTerms(t, source, p, c, component)
<1> DEFINE q == PairModuli(p)
<1>1. /\ Len(products) = (component + 1) + n
      /\ \A k \in 1..(component + 1) : products[k] = TensorMults(first, q, component)[k]
  BY DEF Joins
<1>2. first + 0 + 1 = first + 1 /\ first + 1 + 1 = first + 2 /\ first + 2 + 1 = first + 3
      /\ first + 3 + 1 = first + 4
  OBVIOUS
<1> HIDE DEF q
<1>3. CASE component = 0
  <2>1. 1 \in 1..(component + 1) /\ 1 \in 1..Len(products)
    BY <1>1, <1>3
  <2>2. products[1] = Mult(1, first + 0, first + 2, q)
    BY <1>1, <1>3, <2>1 DEF TensorMults
  <2>3. ProductTerm(products, w, q, 1) = Times(w[first + 0 + 1], w[first + 2 + 1], q)
    BY <2>2, MultTerm
  <2>4. t[1] = Times(w[first + 1], w[first + 3], q)
    BY <1>2, <2>1, <2>3 DEF q
  <2> QED BY <1>3, <2>4 DEF TensorTerms, TensorTerm, OperandsAt, q
<1>4. CASE component = 1
  <2>1. /\ 1 \in 1..(component + 1) /\ 1 \in 1..Len(products)
        /\ 2 \in 1..(component + 1) /\ 2 \in 1..Len(products)
    BY <1>1, <1>4
  <2>2. /\ products[1] = Mult(1, first + 0, first + 3, q)
        /\ products[2] = Mult(1, first + 1, first + 2, q)
    BY <1>1, <1>4, <2>1 DEF TensorMults
  <2>3. /\ ProductTerm(products, w, q, 1) = Times(w[first + 0 + 1], w[first + 3 + 1], q)
        /\ ProductTerm(products, w, q, 2) = Times(w[first + 1 + 1], w[first + 2 + 1], q)
    BY <2>2, MultTerm
  <2>4. /\ t[1] = Times(w[first + 1], w[first + 4], q)
        /\ t[2] = Times(w[first + 2], w[first + 3], q)
    BY <1>2, <2>1, <2>3 DEF q
  <2> QED BY <1>4, <2>4 DEF TensorTerms, TensorTerm, OperandsAt, q
<1> QED BY <1>3, <1>4

(* The products of a key switch, wherever its words lie.                   *)
KeyMult(x, w, source, p, c, component, d) ==
  \E i, j \in Nat :
    /\ x = Mult(1, i, j, PairModuli(p))
    /\ w[i + 1] = WordIn(source, "digit", d, p, c)
    /\ w[j + 1] = WordIn(source, Key(component), d, p, c)
KeyMults(s, w, source, p, c, component) ==
  /\ s \in [1..Digits -> Mults(PairModuli(p))]
  /\ \A i \in 1..Digits : KeyMult(s[i], w, source, p, c, component, i - 1)
Products(operands, first, s, p, component) ==
  (IF operands = 0 THEN <<>> ELSE TensorMults(first, PairModuli(p), component)) \o s

(* Products read from a coefficient's words answer what is computed of it. *)
LEMMA BlockAnswer ==
  ASSUME moduli \in TowerModuli, NEW source \in [Entries(TowerCount) -> Nat],
         NEW p \in 0..(PairCount - 1), NEW c \in Coefs, NEW component \in 0..1, NEW operands,
         NEW w, NEW first \in Nat, OperandsIfAny(w, first, operands, source, p, c),
         NEW s, KeyMults(s, w, source, p, c, component)
  PROVE  SumOfProducts(Products(operands, first, s, p, component), w, PairModuli(p))
           = Computed(operands, source, p, c, component)
<1> DEFINE q == PairModuli(p)
           tensor == IF operands = 0 THEN <<>> ELSE TensorMults(first, q, component)
           products == Products(operands, first, s, p, component)
           A == Mults(q)
           m == TensorCount(operands, component)
           t == [i \in 1..(m + Digits) |-> ProductTerm(products, w, q, i)]
<1>1. Digits \in Nat /\ m \in Nat
  BY VectorAssumption DEF TensorCount
<1>2. tensor \in Seq(A) /\ Len(tensor) = m
  <2>1. CASE operands = 0
    BY <2>1 DEF TensorCount
  <2>2. CASE operands # 0
    <3>1. tensor = TensorMults(first, q, component) /\ m = component + 1
      BY <2>2 DEF TensorCount
    <3> HIDE DEF tensor, m
    <3> QED BY <3>1, TensorMultsAre
  <2> QED BY <2>1, <2>2
<1>3. s \in Seq(A) /\ Len(s) = Digits
  <2> HIDE DEF A
  <2>1. s \in [1..Digits -> A]
    BY DEF KeyMults, A
  <2> QED BY <1>1, <2>1
<1>4. Joins(products, tensor, s, A, m, Digits)
  <2>1. products = tensor \o s
    BY DEF Products
  <2> HIDE DEF A, m, tensor, products
  <2> QED BY <1>1, <1>2, <1>3, <2>1, Joined
<1>5. Len(products) = m + Digits
  BY <1>4 DEF Joins
<1>6. \A i \in 1..Len(products) : t[i] = ProductTerm(products, w, q, i)
  BY <1>5
<1>7. operands # 0 => TensorTerms(t, source, p, c, component)
  <2> HAVE operands # 0
  <2>1. m = component + 1 /\ tensor = TensorMults(first, q, component)
    BY DEF TensorCount
  <2>2. Joins(products, TensorMults(first, q, component), s, A, component + 1, Digits)
    BY <1>4, <2>1
  <2>3. OperandsAt(w, first, source, p, c)
    BY DEF OperandsIfAny
  <2> HIDE DEF products, m, t, tensor
  <2> QED BY <1>1, <1>3, <1>6, <2>2, <2>3, TensorMultsTerms
<1>8. ASSUME NEW i \in 1..Digits PROVE t[m + i] = KeyTerm(source, Key(component), p, c, i - 1)
  <2>1. products[m + i] = s[i]
    BY <1>4 DEF Joins
  <2>2. PICK x \in Nat, y \in Nat :
          /\ s[i] = Mult(1, x, y, q)
          /\ w[x + 1] = WordIn(source, "digit", i - 1, p, c)
          /\ w[y + 1] = WordIn(source, Key(component), i - 1, p, c)
    BY DEF KeyMults, KeyMult
  <2>3. PICK k \in 1..Len(products) : k = m + i
    BY <1>1, <1>5
  <2> HIDE DEF products, m, t, q
  <2>4. ProductTerm(products, w, q, k) = Times(w[x + 1], w[y + 1], q)
    BY <2>1, <2>2, <2>3, MultTerm
  <2>5. t[k] = Times(WordIn(source, "digit", i - 1, p, c),
                     WordIn(source, Key(component), i - 1, p, c), q)
    BY <1>6, <2>2, <2>4
  <2> QED BY <2>3, <2>5 DEF KeyTerm, q
<1>9. AnswerTerms(t, operands, source, p, c, component)
  <2> HIDE DEF t, products
  <2> QED BY <1>7, <1>8 DEF AnswerTerms
<1>10. SumOfProducts(products, w, q) = Computed(operands, source, p, c, component)
  <2> HIDE DEF t, products
  <2> QED BY <1>5, <1>6, <1>9, AnswerIs
<1> QED BY <1>10

(* A ciphertext-major core answers what was computed from its block.       *)
LEMMA CiphertextAnswer ==
  ASSUME moduli \in TowerModuli, NEW source \in [Entries(TowerCount) -> Nat],
         NEW p \in 0..(PairCount - 1), NEW c \in Coefs, NEW operands \in {0, 4},
         NEW w, NEW n \in Nat, NEW first \in Nat, first = (n \div 2) * (operands + 3 * Digits),
         CiphertextBlock(w, first, operands, source, p, c)
  PROVE  CiphertextMajorAnswer(w, operands, PairModuli(p), n)
           = Computed(operands, source, p, c, n % 2)
<1>1. PICK component \in 0..1 : component = n % 2
  OBVIOUS
<1>2. Digits \in Nat
  BY VectorAssumption
<1> DEFINE q == PairModuli(p)
           s == [d \in 1..Digits |-> Mult(1, first + (operands + 3 * (d - 1)),
                                          first + (operands + 3 * (d - 1) + 1 + component), q)]
<1>3. ASSUME NEW d \in 1..Digits
      PROVE  s[d] \in Mults(q) /\ KeyMult(s[d], w, source, p, c, component, d - 1)
  <2>1. PICK i \in Nat, j \in Nat, k \in Nat, e \in DigitIndices :
          /\ i = first + (operands + 3 * (d - 1))
          /\ j = first + (operands + 3 * (d - 1) + 1 + component)
          /\ k = first + operands + 3 * e /\ e = d - 1
          /\ i = k /\ j + 1 = k + 2 + component
    <3>1. /\ first + (operands + 3 * (d - 1)) \in Nat
          /\ first + (operands + 3 * (d - 1) + 1 + component) \in Nat
          /\ first + operands + 3 * (d - 1) \in Nat /\ d - 1 \in DigitIndices
          /\ first + (operands + 3 * (d - 1)) = first + operands + 3 * (d - 1)
          /\ first + (operands + 3 * (d - 1) + 1 + component) + 1
               = first + operands + 3 * (d - 1) + 2 + component
      BY <1>2 DEF DigitIndices
    <3> QED BY <3>1
  <2>2. s[d] = Mult(1, i, j, q)
    BY <2>1
  <2>3. TripleAt(w, k, source, p, c, e)
    BY <2>1 DEF CiphertextBlock
  <2>4. w[i + 1] = WordIn(source, "digit", e, p, c)
    BY <2>1, <2>3 DEF TripleAt
  <2>5. w[j + 1] = WordIn(source, Key(component), e, p, c)
    <3>1. CASE component = 0
      <4>1. j + 1 = k + 2
        BY <2>1, <3>1
      <4> QED BY <2>3, <3>1, <4>1 DEF TripleAt, Key
    <3>2. CASE component = 1
      <4>1. j + 1 = k + 3
        BY <2>1, <3>2
      <4> QED BY <2>3, <3>2, <4>1 DEF TripleAt, Key
    <3> QED BY <3>1, <3>2
  <2> HIDE DEF s
  <2>6. s[d] \in Mults(q)
    BY <2>2 DEF Mults
  <2>7. KeyMult(s[d], w, source, p, c, component, e)
    BY <2>2, <2>4, <2>5 DEF KeyMult
  <2> QED BY <2>1, <2>6, <2>7
<1>4. KeyMults(s, w, source, p, c, component)
  <2>1. s \in [1..Digits -> Mults(q)]
    BY <1>3
  <2> HIDE DEF s
  <2> QED BY <1>3, <2>1 DEF KeyMults
<1>5. CiphertextMajorAnswer(w, operands, q, n)
        = SumOfProducts(Products(operands, first, s, p, component), w, q)
  BY <1>1 DEF CiphertextMajorAnswer, Products, TensorMults, Mult
<1>6. OperandsIfAny(w, first, operands, source, p, c)
  BY DEF CiphertextBlock
<1>7. SumOfProducts(Products(operands, first, s, p, component), w, q)
        = Computed(operands, source, p, c, component)
  <2> HIDE DEF s
  <2> QED BY <1>4, <1>6, BlockAnswer
<1> QED BY <1>1, <1>5, <1>7

(* The words a coefficient-major core reads for one coefficient.           *)
KeyGroup(w, k, count, source, p, c, d) ==
  /\ w[k + 1] = WordIn(source, "key_b", d, p, c)
  /\ w[k + 2] = WordIn(source, "key_a", d, p, c)
  /\ \A h \in 0..(count - 1) : w[k + 2 + h + 1] = WordIn(source, "digit", d, p, c)
MajorBlock(w, base, count, source, p, c) ==
  /\ \A h \in 0..(count - 1) : OperandsAt(w, base + 4 * h, source, p, c)
  /\ \A d \in DigitIndices :
       KeyGroup(w, base + 4 * count + d * (count + 2), count, source, p, c, d)

Counts(count) == [count |-> count, digits |-> Digits]

(* A coefficient-major core answers what was computed from its block.      *)
LEMMA MajorAnswer ==
  ASSUME moduli \in TowerModuli, NEW source \in [Entries(TowerCount) -> Nat],
         NEW p \in 0..(PairCount - 1), NEW c \in Coefs, NEW count \in Nat \ {0},
         NEW w, NEW n \in Nat, NEW base \in Nat,
         base = (n \div (2 * count)) * Layout!CoefficientWords(Counts(count)),
         MajorBlock(w, base, count, source, p, c)
  PROVE  CoefficientMajorAnswer(w, count, PairModuli(p), n)
           = Computed(4, source, p, c, n % 2)
<1>1. PICK component \in 0..1 : component = n % 2
  OBVIOUS
<1>2. Digits \in Nat
  BY VectorAssumption
<1>3. PICK ciphertext \in 0..(count - 1) : ciphertext = (n % (2 * count)) \div 2
  <2>1. n % (2 * count) \in 0..(2 * count - 1)
    OBVIOUS
  <2>2. PICK r \in 0..(2 * count - 1) : r = n % (2 * count)
    BY <2>1
  <2>3. r \div 2 \in 0..(count - 1)
    OBVIOUS
  <2> QED BY <2>2, <2>3
<1>4. PICK first \in Nat : first = base + 4 * ciphertext
  OBVIOUS
<1> DEFINE q == PairModuli(p)
           turn == n \div (2 * count)
           Dig(d) == Layout!DigitIndex(Counts(count), turn, d - 1, ciphertext)
           Ky(d) == Layout!KeyIndex(Counts(count), turn, d - 1, component)
           s == [d \in 1..Digits |-> Mult(1, Dig(d), Ky(d), q)]
<1>5. Counts(count).count = count /\ Counts(count).digits = Digits
  BY DEF Counts
<1>6. /\ Layout!OperandIndex(Counts(count), turn, ciphertext, 0) = first + 0
      /\ Layout!OperandIndex(Counts(count), turn, ciphertext, 1) = first + 1
      /\ Layout!OperandIndex(Counts(count), turn, ciphertext, 2) = first + 2
      /\ Layout!OperandIndex(Counts(count), turn, ciphertext, 3) = first + 3
  BY <1>4 DEF Layout!OperandIndex
<1>7. ASSUME NEW d \in 1..Digits
      PROVE  s[d] \in Mults(q) /\ KeyMult(s[d], w, source, p, c, component, d - 1)
  <2>1. PICK e \in DigitIndices : e = d - 1
    BY <1>2 DEF DigitIndices
  <2>2. PICK k \in Nat : k = base + 4 * count + e * (count + 2)
    <3>1. \A x, y \in Nat : x * y \in Nat
      OBVIOUS
    <3>2. e \in Nat /\ count + 2 \in Nat
      BY <1>2 DEF DigitIndices
    <3>3. e * (count + 2) \in Nat
      BY <3>1, <3>2
    <3> QED BY <3>3
  <2>3. KeyGroup(w, k, count, source, p, c, e)
    BY <2>2 DEF MajorBlock
  <2>4. /\ Layout!KeyIndex(Counts(count), turn, e, component) = k + component
        /\ Layout!KeyIndex(Counts(count), turn, e, 0) = k + 0
    BY <1>5, <2>2 DEF Layout!KeyIndex
  <2>5. Layout!DigitIndex(Counts(count), turn, e, ciphertext) = k + 0 + 2 + ciphertext
    BY <2>4 DEF Layout!DigitIndex
  <2>6. PICK i \in Nat, j \in Nat : i = k + 2 + ciphertext /\ j = k + component
    OBVIOUS
  <2>7. s[d] = Mult(1, i, j, q)
    <3>1. Dig(d) = i /\ Ky(d) = j
      BY <2>1, <2>4, <2>5, <2>6
    <3> QED BY <3>1
  <2>8. w[i + 1] = WordIn(source, "digit", e, p, c)
    BY <2>3, <2>6 DEF KeyGroup
  <2>9. w[j + 1] = WordIn(source, Key(component), e, p, c)
    <3>1. CASE component = 0
      <4>1. j + 1 = k + 1
        BY <2>6, <3>1
      <4> QED BY <2>3, <3>1, <4>1 DEF KeyGroup, Key
    <3>2. CASE component = 1
      <4>1. j + 1 = k + 2
        BY <2>6, <3>2
      <4> QED BY <2>3, <3>2, <4>1 DEF KeyGroup, Key
    <3> QED BY <3>1, <3>2
  <2> HIDE DEF s
  <2>10. s[d] \in Mults(q)
    BY <2>7 DEF Mults
  <2>11. KeyMult(s[d], w, source, p, c, component, e)
    BY <2>7, <2>8, <2>9 DEF KeyMult
  <2> QED BY <2>1, <2>10, <2>11
<1>8. KeyMults(s, w, source, p, c, component)
  <2>1. s \in [1..Digits -> Mults(q)]
    BY <1>7
  <2> HIDE DEF s
  <2> QED BY <1>7, <2>1 DEF KeyMults
<1>9. CoefficientMajorAnswer(w, count, q, n)
        = SumOfProducts(Products(4, first, s, p, component), w, q)
  <2>1. Products(4, first, s, p, component) = TensorMults(first, q, component) \o s
    BY DEF Products
  <2> DEFINE job == [frame |-> 1, counts |-> Counts(count), profile |-> q]
  <2>2. Layout!Relinearized(job, n) = TensorMults(first, q, component) \o s
    BY <1>1, <1>3, <1>5, <1>6 DEF Layout!Relinearized, TensorMults, Mult
  <2>3. CoefficientMajorAnswer(w, count, q, n) = SumOfProducts(Layout!Relinearized(job, n), w, q)
    BY DEF CoefficientMajorAnswer, Counts
  <2> QED BY <2>1, <2>2, <2>3
<1>10. OperandsIfAny(w, first, 4, source, p, c)
  BY <1>3, <1>4 DEF MajorBlock, OperandsIfAny
<1>11. SumOfProducts(Products(4, first, s, p, component), w, q)
        = Computed(4, source, p, c, component)
  <2> HIDE DEF s
  <2> QED BY <1>8, <1>10, BlockAnswer
<1> QED BY <1>1, <1>9, <1>11

-----------------------------------------------------------------------------
(* The words the scripts emit for one coefficient.                         *)
Repeated(u, words, A, count, width) ==
  /\ u \in Seq(A) /\ Len(u) = count * width
  /\ \A i \in 1..count, j \in 1..width : u[(i - 1) * width + j] = words[j]

(* Words repeated.                                                         *)
LEMMA RepeatIs ==
  ASSUME NEW A, NEW words \in Seq(A), NEW width \in Nat, Len(words) = width, NEW count \in Nat
  PROVE  Repeated(Repeat(count, words), words, A, count, width)
<1> DEFINE seqs == [i \in 1..count |-> words]
<1>1. Uniform(seqs, A, count, width)
  BY DEF Uniform
<1>2. \A i \in 1..count : seqs[i] = words
  OBVIOUS
<1>3. Repeat(count, words) = FlattenSeq(seqs)
  BY DEF Repeat
<1> HIDE DEF seqs
<1>4. Concatenates(FlattenSeq(seqs), seqs, A, count, width)
  BY <1>1, FlattenUniform
<1> QED BY <1>2, <1>3, <1>4 DEF Concatenates, Repeated

DigitBlocks(u, blocks, A, width) ==
  /\ u \in Seq(A) /\ Len(u) = Digits * width
  /\ \A d \in DigitIndices, j \in 1..width : u[d * width + j] = blocks[d][j]

(* One block per digit, in the order of the digits.                        *)
LEMMA PerDigitIs ==
  ASSUME NEW A, NEW width \in Nat, NEW blocks,
         \A d \in DigitIndices : blocks[d] \in Seq(A) /\ Len(blocks[d]) = width
  PROVE  DigitBlocks(PerDigit(blocks), blocks, A, width)
<1> DEFINE seqs == [d \in 1..Digits |-> blocks[d - 1]]
<1>1. Digits \in Nat
  BY VectorAssumption
<1>2. \A d \in 1..Digits : d - 1 \in DigitIndices
  BY <1>1 DEF DigitIndices
<1>3. Uniform(seqs, A, Digits, width)
  BY <1>2 DEF Uniform
<1>4. \A d \in 1..Digits : seqs[d] = blocks[d - 1]
  OBVIOUS
<1>5. PerDigit(blocks) = FlattenSeq(seqs)
  BY DEF PerDigit
<1> HIDE DEF seqs
<1>6. Concatenates(FlattenSeq(seqs), seqs, A, Digits, width)
  BY <1>1, <1>3, FlattenUniform
<1>7. ASSUME NEW d \in DigitIndices, NEW j \in 1..width
      PROVE  FlattenSeq(seqs)[d * width + j] = blocks[d][j]
  <2>1. PICK i \in 1..Digits : i = d + 1 /\ i - 1 = d
    BY <1>1 DEF DigitIndices
  <2>2. FlattenSeq(seqs)[(i - 1) * width + j] = seqs[i][j]
    BY <1>6 DEF Concatenates
  <2>3. seqs[i] = blocks[d]
    BY <1>4, <2>1
  <2> QED BY <2>1, <2>2, <2>3
<1> QED BY <1>5, <1>6, <1>7 DEF Concatenates, DigitBlocks

Embeds(w, base, x, width) == \A j \in 1..width : w[base + j] = x[j]

OperandSeq(source, p, c) ==
  <<WordIn(source, "a0", 0, p, c), WordIn(source, "a1", 0, p, c),
    WordIn(source, "b0", 0, p, c), WordIn(source, "b1", 0, p, c)>>
TripleSeq(source, p, c) ==
  PerDigit([d \in DigitIndices |->
              <<WordIn(source, "digit", d, p, c), WordIn(source, "key_b", d, p, c),
                WordIn(source, "key_a", d, p, c)>>])
CiphertextWords(operands, source, p, c) ==
  IF operands = 0 THEN TripleSeq(source, p, c)
  ELSE OperandSeq(source, p, c) \o TripleSeq(source, p, c)
MajorWords(count, source, p, c) ==
  Repeat(count, OperandSeq(source, p, c))
    \o PerDigit([d \in DigitIndices |->
                   <<WordIn(source, "key_b", d, p, c), WordIn(source, "key_a", d, p, c)>>
                     \o Repeat(count, <<WordIn(source, "digit", d, p, c)>>)])

(* The input words of a coefficient are words.                             *)
LEMMA BlockWordsTyped ==
  ASSUME moduli \in TowerModuli, NEW source \in [Entries(TowerCount) -> Nat],
         NEW p \in 0..(PairCount - 1), NEW c \in Coefs
  PROVE  /\ \A n \in OperandNames : WordIn(source, n, 0, p, c) \in Vec
         /\ \A n \in {"digit", "key_b", "key_a"}, d \in DigitIndices :
              WordIn(source, n, d, p, c) \in Vec
<1>1. \A n \in OperandNames : <<n, 0>> \in Files
  BY DEF Files, InputFiles, Named, OperandNames
<1>2. \A n \in {"digit", "key_b", "key_a"}, d \in DigitIndices : <<n, d>> \in Files
  BY DEF Files, InputFiles, DigitFiles
<1>3. \A n \in OperandNames : WordIn(source, n, 0, p, c) \in Vec
  BY <1>1, WordTyped
<1>4. \A n \in {"digit", "key_b", "key_a"}, d \in DigitIndices : WordIn(source, n, d, p, c) \in Vec
  BY <1>2, WordTyped
<1> QED BY <1>3, <1>4

(* Four operand words.                                                     *)
LEMMA OperandSeqIs ==
  ASSUME moduli \in TowerModuli, NEW source \in [Entries(TowerCount) -> Nat],
         NEW p \in 0..(PairCount - 1), NEW c \in Coefs
  PROVE  OperandSeq(source, p, c) \in Seq(Vec) /\ Len(OperandSeq(source, p, c)) = 4
BY BlockWordsTyped DEF OperandSeq, OperandNames

(* Where they lie, a core reads its operands.                              *)
LEMMA OperandsEmbed ==
  ASSUME NEW source, NEW p, NEW c, NEW w, NEW base \in Nat,
         Embeds(w, base, OperandSeq(source, p, c), 4)
  PROVE  OperandsAt(w, base, source, p, c)
BY DEF Embeds, OperandSeq, OperandsAt

(* A digit and its two keys, digit after digit.                            *)
LEMMA TripleSeqIs ==
  ASSUME moduli \in TowerModuli, NEW source \in [Entries(TowerCount) -> Nat],
         NEW p \in 0..(PairCount - 1), NEW c \in Coefs
  PROVE  /\ TripleSeq(source, p, c) \in Seq(Vec) /\ Len(TripleSeq(source, p, c)) = 3 * Digits
         /\ \A d \in DigitIndices : TripleAt(TripleSeq(source, p, c), 3 * d, source, p, c, d)
<1> DEFINE blocks == [d \in DigitIndices |->
              <<WordIn(source, "digit", d, p, c), WordIn(source, "key_b", d, p, c),
                WordIn(source, "key_a", d, p, c)>>]
<1>1. \A d \in DigitIndices : blocks[d] \in Seq(Vec) /\ Len(blocks[d]) = 3
  BY BlockWordsTyped
<1>2. \A d \in DigitIndices : /\ blocks[d][1] = WordIn(source, "digit", d, p, c)
                              /\ blocks[d][2] = WordIn(source, "key_b", d, p, c)
                              /\ blocks[d][3] = WordIn(source, "key_a", d, p, c)
  OBVIOUS
<1>3. TripleSeq(source, p, c) = PerDigit(blocks)
  BY DEF TripleSeq
<1> HIDE DEF blocks
<1>4. DigitBlocks(PerDigit(blocks), blocks, Vec, 3)
  BY <1>1, PerDigitIs
<1>5. Digits \in Nat /\ DigitIndices \subseteq Nat
  BY VectorAssumption DEF DigitIndices
<1>6. ASSUME NEW d \in DigitIndices PROVE TripleAt(TripleSeq(source, p, c), 3 * d, source, p, c, d)
  <2>1. \A j \in 1..3 : PerDigit(blocks)[d * 3 + j] = blocks[d][j]
    BY <1>4 DEF DigitBlocks
  <2>2. d * 3 = 3 * d
    BY <1>5
  <2>3. \A j \in 1..3 : TripleSeq(source, p, c)[3 * d + j] = blocks[d][j]
    BY <1>3, <2>1, <2>2
  <2> QED BY <1>2, <2>3 DEF TripleAt
<1>7. Digits * 3 = 3 * Digits
  BY <1>5
<1> QED BY <1>3, <1>4, <1>6, <1>7 DEF DigitBlocks

(* A block of the ciphertext-major scripts is one their core reads.        *)
CiphertextWidth(operands) == operands + 3 * Digits

(* A block of the ciphertext-major scripts is one their cores read.        *)
LEMMA CiphertextWordsAre ==
  ASSUME moduli \in TowerModuli, NEW source \in [Entries(TowerCount) -> Nat],
         NEW p \in 0..(PairCount - 1), NEW c \in Coefs, NEW operands \in {0, 4}
  PROVE  /\ CiphertextWords(operands, source, p, c) \in Seq(Vec)
         /\ Len(CiphertextWords(operands, source, p, c)) = CiphertextWidth(operands)
         /\ operands # 0 =>
              \A j \in 1..4 :
                CiphertextWords(operands, source, p, c)[j] = OperandSeq(source, p, c)[j]
         /\ \A d \in DigitIndices :
              TripleAt(CiphertextWords(operands, source, p, c), operands + 3 * d, source, p, c, d)
<1> DEFINE x == CiphertextWords(operands, source, p, c)
           s == OperandSeq(source, p, c)
           t == TripleSeq(source, p, c)
<1>1. PICK n \in Nat : n = 3 * Digits
  BY VectorAssumption
<1>2. /\ t \in Seq(Vec) /\ Len(t) = n
      /\ \A d \in DigitIndices : TripleAt(t, 3 * d, source, p, c, d)
  BY <1>1, TripleSeqIs
<1>3. CASE operands = 0
  <2>1. x = t
    BY <1>3 DEF CiphertextWords
  <2>2. \A d \in DigitIndices : 0 + 3 * d = 3 * d
    BY VectorAssumption DEF DigitIndices
  <2> HIDE DEF x, t
  <2>3. Len(x) = 0 + n
    BY <1>1, <1>2, <2>1
  <2>4. \A d \in DigitIndices : TripleAt(x, 0 + 3 * d, source, p, c, d)
    BY <1>2, <2>1, <2>2
  <2> QED BY <1>1, <1>2, <1>3, <2>1, <2>3, <2>4 DEF CiphertextWidth, x
<1>4. CASE operands = 4
  <2>1. x = s \o t
    BY <1>4 DEF CiphertextWords
  <2>2. s \in Seq(Vec) /\ Len(s) = 4
    BY OperandSeqIs
  <2> HIDE DEF x, s, t
  <2>3. Joins(x, s, t, Vec, 4, n)
    BY <1>2, <2>1, <2>2, Joined
  <2>4. ASSUME NEW d \in DigitIndices PROVE TripleAt(x, 4 + 3 * d, source, p, c, d)
    <3>1. PICK k \in Nat : k = 3 * d /\ k + 1 \in 1..n /\ k + 2 \in 1..n /\ k + 3 \in 1..n
      BY <1>1, VectorAssumption DEF DigitIndices
    <3>2. x[4 + (k + 1)] = t[k + 1] /\ x[4 + (k + 2)] = t[k + 2] /\ x[4 + (k + 3)] = t[k + 3]
      BY <2>3, <3>1 DEF Joins
    <3>3. 4 + (k + 1) = 4 + k + 1 /\ 4 + (k + 2) = 4 + k + 2 /\ 4 + (k + 3) = 4 + k + 3
      OBVIOUS
    <3>4. TripleAt(t, k, source, p, c, d)
      BY <1>2, <3>1
    <3>5. TripleAt(x, 4 + k, source, p, c, d)
      BY <3>2, <3>3, <3>4 DEF TripleAt
    <3> QED BY <3>1, <3>5
  <2> QED BY <1>1, <1>4, <2>3, <2>4 DEF Joins, CiphertextWidth, x, s
<1> QED BY <1>3, <1>4

(* Where such a block lies, a core reads its words.                        *)
LEMMA CiphertextEmbeds ==
  ASSUME moduli \in TowerModuli, NEW source \in [Entries(TowerCount) -> Nat],
         NEW p \in 0..(PairCount - 1), NEW c \in Coefs, NEW operands \in {0, 4},
         NEW w, NEW base \in Nat,
         Embeds(w, base, CiphertextWords(operands, source, p, c), CiphertextWidth(operands))
  PROVE  CiphertextBlock(w, base, operands, source, p, c)
<1> DEFINE x == CiphertextWords(operands, source, p, c)
<1>1. PICK n \in Nat : n = CiphertextWidth(operands) /\ n = operands + 3 * Digits
  BY VectorAssumption DEF CiphertextWidth
<1>2. /\ operands # 0 => \A j \in 1..4 : x[j] = OperandSeq(source, p, c)[j]
      /\ \A d \in DigitIndices : TripleAt(x, operands + 3 * d, source, p, c, d)
  BY CiphertextWordsAre
<1>3. \A j \in 1..n : w[base + j] = x[j]
  BY <1>1 DEF Embeds
<1> HIDE DEF x
<1>4. OperandsIfAny(w, base, operands, source, p, c)
  <2> SUFFICES ASSUME operands # 0 PROVE OperandsAt(w, base, source, p, c)
    BY DEF OperandsIfAny
  <2>1. \A j \in 1..4 : j \in 1..n
    BY <1>1, VectorAssumption
  <2>2. Embeds(w, base, OperandSeq(source, p, c), 4)
    BY <1>2, <1>3, <2>1 DEF Embeds
  <2> QED BY <2>2, OperandsEmbed
<1>5. ASSUME NEW d \in DigitIndices
      PROVE  TripleAt(w, base + operands + 3 * d, source, p, c, d)
  <2>1. PICK k \in Nat : k = operands + 3 * d /\ k + 1 \in 1..n /\ k + 2 \in 1..n /\ k + 3 \in 1..n
    BY <1>1, VectorAssumption DEF DigitIndices
  <2>2. base + k = base + operands + 3 * d
    BY <2>1, VectorAssumption DEF DigitIndices
  <2>3. /\ base + (k + 1) = base + k + 1 /\ base + (k + 2) = base + k + 2
        /\ base + (k + 3) = base + k + 3
    OBVIOUS
  <2>4. TripleAt(x, k, source, p, c, d)
    BY <1>2, <2>1
  <2>5. TripleAt(w, base + k, source, p, c, d)
    BY <1>3, <2>1, <2>3, <2>4 DEF TripleAt
  <2> QED BY <2>2, <2>5
<1> QED BY <1>4, <1>5 DEF CiphertextBlock

(* A digit's group: both key words, and the digit for every ciphertext.    *)
GroupSeq(count, source, p, c, d) ==
  <<WordIn(source, "key_b", d, p, c), WordIn(source, "key_a", d, p, c)>>
    \o Repeat(count, <<WordIn(source, "digit", d, p, c)>>)

(* The two keys of a digit, then its digit word for every ciphertext.      *)
LEMMA GroupSeqIs ==
  ASSUME moduli \in TowerModuli, NEW source \in [Entries(TowerCount) -> Nat],
         NEW p \in 0..(PairCount - 1), NEW c \in Coefs, NEW count \in Nat,
         NEW d \in DigitIndices
  PROVE  /\ GroupSeq(count, source, p, c, d) \in Seq(Vec)
         /\ Len(GroupSeq(count, source, p, c, d)) = count + 2
         /\ GroupSeq(count, source, p, c, d)[1] = WordIn(source, "key_b", d, p, c)
         /\ GroupSeq(count, source, p, c, d)[2] = WordIn(source, "key_a", d, p, c)
         /\ \A h \in 1..count :
              GroupSeq(count, source, p, c, d)[2 + h] = WordIn(source, "digit", d, p, c)
<1>1. PICK kb \in Vec, ka \in Vec, x \in Vec :
        /\ kb = WordIn(source, "key_b", d, p, c) /\ ka = WordIn(source, "key_a", d, p, c)
        /\ x = WordIn(source, "digit", d, p, c)
  BY BlockWordsTyped
<1> DEFINE keys == <<kb, ka>>
           one == <<x>>
           all == Repeat(count, one)
<1>2. keys \in Seq(Vec) /\ Len(keys) = 2 /\ keys[1] = kb /\ keys[2] = ka
  OBVIOUS
<1>3. one \in Seq(Vec) /\ Len(one) = 1 /\ one[1] = x
  OBVIOUS
<1>4. GroupSeq(count, source, p, c, d) = keys \o all
  BY <1>1 DEF GroupSeq
<1>5. Repeated(all, one, Vec, count, 1)
  <2> HIDE DEF one
  <2> QED BY <1>3, RepeatIs
<1>6. /\ all \in Seq(Vec) /\ Len(all) = count
      /\ \A h \in 1..count : all[h] = x
  <2> HIDE DEF all, one
  <2>1. all \in Seq(Vec) /\ Len(all) = count * 1
    BY <1>5 DEF Repeated
  <2>2. ASSUME NEW h \in 1..count PROVE all[h] = x
    <3>1. all[(h - 1) * 1 + 1] = one[1]
      BY <1>5 DEF Repeated
    <3>2. (h - 1) * 1 + 1 = h
      OBVIOUS
    <3> QED BY <1>3, <3>1, <3>2
  <2> QED BY <2>1, <2>2
<1> HIDE DEF keys, one, all
<1>7. Joins(GroupSeq(count, source, p, c, d), keys, all, Vec, 2, count)
  BY <1>2, <1>4, <1>6, Joined
<1>8. 2 + count = count + 2 /\ 1 \in 1..2 /\ 2 \in 1..2
  OBVIOUS
<1> QED BY <1>1, <1>2, <1>6, <1>7, <1>8 DEF Joins

MajorWidth(count) == Layout!CoefficientWords(Counts(count))

(* A block of the coefficient-major script is one its core reads.          *)
LEMMA MajorWordsAre ==
  ASSUME moduli \in TowerModuli, NEW source \in [Entries(TowerCount) -> Nat],
         NEW p \in 0..(PairCount - 1), NEW c \in Coefs, NEW count \in Nat
  PROVE  /\ MajorWidth(count) \in Nat
         /\ MajorWords(count, source, p, c) \in Seq(Vec)
         /\ Len(MajorWords(count, source, p, c)) = MajorWidth(count)
         /\ MajorBlock(MajorWords(count, source, p, c), 0, count, source, p, c)
<1> DEFINE u == Repeat(count, OperandSeq(source, p, c))
           blocks == [d \in DigitIndices |-> GroupSeq(count, source, p, c, d)]
           v == PerDigit(blocks)
           x == MajorWords(count, source, p, c)
<1>1. Digits \in Nat /\ DigitIndices \subseteq Nat
  BY VectorAssumption DEF DigitIndices
<1>2. PICK m \in Nat, n \in Nat, g \in Nat :
        m = 4 * count /\ n = Digits * (count + 2) /\ g = count + 2
  <2>1. \A a, b \in Nat : a * b \in Nat
    OBVIOUS
  <2>2. count + 2 \in Nat /\ 4 * count \in Nat
    OBVIOUS
  <2>3. Digits * (count + 2) \in Nat
    BY <1>1, <2>1, <2>2
  <2> QED BY <2>2, <2>3, Zenon
<1>3. MajorWidth(count) = m + n
  BY <1>2 DEF MajorWidth, Layout!CoefficientWords, Counts
<1>4. x = u \o v
  BY DEF MajorWords, GroupSeq
<1>5. Repeated(u, OperandSeq(source, p, c), Vec, count, 4)
  BY OperandSeqIs, RepeatIs
<1>6. DigitBlocks(v, blocks, Vec, g)
  <2>1. \A d \in DigitIndices : blocks[d] \in Seq(Vec) /\ Len(blocks[d]) = g
    BY <1>2, GroupSeqIs
  <2> HIDE DEF blocks
  <2> QED BY <2>1, PerDigitIs
<1>7. \A d \in DigitIndices : blocks[d] = GroupSeq(count, source, p, c, d)
  OBVIOUS
<1> HIDE DEF u, v, blocks, x
<1>8. Joins(x, u, v, Vec, m, n)
  <2>1. u \in Seq(Vec) /\ Len(u) = m
    BY <1>2, <1>5 DEF Repeated
  <2>2. v \in Seq(Vec) /\ Len(v) = n
    BY <1>2, <1>6 DEF DigitBlocks
  <2> QED BY <1>4, <2>1, <2>2, Joined
<1>9. ASSUME NEW h \in 0..(count - 1) PROVE OperandsAt(x, 0 + 4 * h, source, p, c)
  <2>1. PICK k \in Nat, i \in 1..count : k = (i - 1) * 4 /\ k = 4 * h /\ i - 1 = h /\ k + 4 <= m
    <3>1. h + 1 \in 1..count /\ (h + 1 - 1) * 4 = 4 * h /\ h + 1 - 1 = h /\ 4 * h + 4 <= m
          /\ 4 * h \in Nat
      BY <1>2
    <3> QED BY <3>1
  <2>2. ASSUME NEW j \in 1..4 PROVE x[k + j] = OperandSeq(source, p, c)[j]
    <3>1. u[(i - 1) * 4 + j] = OperandSeq(source, p, c)[j]
      BY <1>5 DEF Repeated
    <3>2. k + j \in 1..m
      BY <2>1
    <3>3. x[k + j] = u[k + j]
      BY <1>8, <3>2 DEF Joins
    <3> QED BY <2>1, <3>1, <3>3
  <2>3. OperandsAt(x, k, source, p, c)
    BY <2>2, OperandsEmbed DEF Embeds
  <2>4. 0 + 4 * h = k
    BY <2>1
  <2> QED BY <2>3, <2>4
<1>10. ASSUME NEW d \in DigitIndices
       PROVE  KeyGroup(x, 0 + 4 * count + d * (count + 2), count, source, p, c, d)
  <2>1. PICK k \in Nat : k = d * g /\ k + g <= n
    <3>1. \A a, b, e \in Nat : a + 1 <= b => a * e + e <= b * e /\ a * e \in Nat
      OBVIOUS
    <3>2. d + 1 <= Digits /\ d \in Nat
      BY <1>1 DEF DigitIndices
    <3>3. d * g + g <= Digits * g /\ d * g \in Nat
      BY <1>1, <3>1, <3>2
    <3> QED BY <1>2, <3>3
  <2>2. ASSUME NEW j \in 1..g PROVE x[(m + k) + j] = GroupSeq(count, source, p, c, d)[j]
    <3>1. v[k + j] = blocks[d][j]
      BY <1>6, <2>1 DEF DigitBlocks
    <3>2. PICK i \in 1..n : i = k + j
      BY <2>1
    <3>3. x[m + i] = v[i]
      BY <1>8 DEF Joins
    <3>4. m + i = (m + k) + j
      BY <3>2
    <3> QED BY <1>7, <3>1, <3>2, <3>3, <3>4
  <2>3. PICK r \in Nat : r = m + k
    OBVIOUS
  <2>4. 1 \in 1..g /\ 2 \in 1..g
    BY <1>2
  <2>5. x[r + 1] = WordIn(source, "key_b", d, p, c) /\ x[r + 2] = WordIn(source, "key_a", d, p, c)
    <3>1. /\ GroupSeq(count, source, p, c, d)[1] = WordIn(source, "key_b", d, p, c)
          /\ GroupSeq(count, source, p, c, d)[2] = WordIn(source, "key_a", d, p, c)
      BY GroupSeqIs
    <3>2. /\ x[(m + k) + 1] = GroupSeq(count, source, p, c, d)[1]
          /\ x[(m + k) + 2] = GroupSeq(count, source, p, c, d)[2]
      BY <2>2, <2>4
    <3> QED BY <2>3, <3>1, <3>2
  <2>6. ASSUME NEW h \in 0..(count - 1) PROVE x[r + 2 + h + 1] = WordIn(source, "digit", d, p, c)
    <3>1. PICK i \in 1..count, j \in 1..g : i = h + 1 /\ j = 2 + i /\ r + j = r + 2 + h + 1
      <4>1. h + 1 \in 1..count /\ 2 + (h + 1) \in 1..g /\ r + (2 + (h + 1)) = r + 2 + h + 1
        BY <1>2
      <4> QED BY <4>1
    <3>2. x[r + j] = GroupSeq(count, source, p, c, d)[j]
      BY <2>2, <2>3
    <3>3. GroupSeq(count, source, p, c, d)[2 + i] = WordIn(source, "digit", d, p, c)
      BY GroupSeqIs
    <3> QED BY <3>1, <3>2, <3>3
  <2>7. KeyGroup(x, r, count, source, p, c, d)
    BY <2>5, <2>6 DEF KeyGroup
  <2>8. 0 + 4 * count + d * (count + 2) = r
    BY <1>2, <2>1, <2>3
  <2> QED BY <2>7, <2>8
<1>11. MajorBlock(x, 0, count, source, p, c)
  BY <1>9, <1>10 DEF MajorBlock
<1> QED BY <1>3, <1>8, <1>11 DEF Joins, x

(* Where a coefficient-major block lies, its core reads its words.         *)
LEMMA MajorEmbeds ==
  ASSUME moduli \in TowerModuli, NEW source \in [Entries(TowerCount) -> Nat],
         NEW p \in 0..(PairCount - 1), NEW c \in Coefs, NEW count \in Nat,
         NEW w, NEW base \in Nat,
         Embeds(w, base, MajorWords(count, source, p, c), MajorWidth(count))
  PROVE  MajorBlock(w, base, count, source, p, c)
<1> DEFINE x == MajorWords(count, source, p, c)
<1>1. Digits \in Nat /\ DigitIndices \subseteq Nat
  BY VectorAssumption DEF DigitIndices
<1>2. PICK m \in Nat, n \in Nat, g \in Nat :
        /\ m = 4 * count /\ n = Digits * (count + 2) /\ g = count + 2
        /\ MajorWidth(count) = m + n
  <2>1. \A a, b \in Nat : a * b \in Nat
    OBVIOUS
  <2>2. count + 2 \in Nat /\ 4 * count \in Nat
    OBVIOUS
  <2>3. Digits * (count + 2) \in Nat
    BY <1>1, <2>1, <2>2
  <2>4. MajorWidth(count) = 4 * count + Digits * (count + 2)
    BY DEF MajorWidth, Layout!CoefficientWords, Counts
  <2> QED BY <2>2, <2>3, <2>4, Zenon
<1>3. MajorBlock(x, 0, count, source, p, c)
  BY MajorWordsAre
<1>4. \A j \in 1..(m + n) : w[base + j] = x[j]
  BY <1>2 DEF Embeds
<1> HIDE DEF x
<1>5. ASSUME NEW h \in 0..(count - 1) PROVE OperandsAt(w, base + 4 * h, source, p, c)
  <2>1. PICK k \in Nat : k = 4 * h /\ k + 4 <= m
    BY <1>2
  <2>2. OperandsAt(x, k, source, p, c)
    <3>1. OperandsAt(x, 0 + 4 * h, source, p, c)
      BY <1>3 DEF MajorBlock
    <3>2. 0 + 4 * h = k
      BY <2>1
    <3> QED BY <3>1, <3>2
  <2>3. \A j \in 1..4 : w[base + k + j] = x[k + j]
    <3> TAKE j \in 1..4
    <3>1. k + j \in 1..(m + n) /\ base + (k + j) = base + k + j
      BY <2>1
    <3> QED BY <1>4, <3>1
  <2>4. OperandsAt(w, base + k, source, p, c)
    BY <2>2, <2>3 DEF OperandsAt
  <2> QED BY <2>1, <2>4
<1>6. ASSUME NEW d \in DigitIndices
      PROVE  KeyGroup(w, base + 4 * count + d * (count + 2), count, source, p, c, d)
  <2>1. PICK k \in Nat : k = d * g /\ k + g <= n
    <3>1. \A a, b, e \in Nat : a + 1 <= b => a * e + e <= b * e /\ a * e \in Nat
      OBVIOUS
    <3>2. d + 1 <= Digits /\ d \in Nat
      BY <1>1 DEF DigitIndices
    <3>3. d * g + g <= Digits * g /\ d * g \in Nat
      BY <1>1, <3>1, <3>2
    <3> QED BY <1>2, <3>3
  <2>2. PICK r \in Nat : r = m + k /\ r + g <= m + n
    BY <2>1
  <2>3. KeyGroup(x, r, count, source, p, c, d)
    <3>1. KeyGroup(x, 0 + 4 * count + d * (count + 2), count, source, p, c, d)
      BY <1>3 DEF MajorBlock
    <3>2. 0 + 4 * count + d * (count + 2) = r
      BY <1>2, <2>1, <2>2
    <3> QED BY <3>1, <3>2
  <2>4. \A j \in 1..g : w[base + r + j] = x[r + j]
    <3> TAKE j \in 1..g
    <3>1. r + j \in 1..(m + n) /\ base + (r + j) = base + r + j
      BY <2>2
    <3> QED BY <1>4, <3>1
  <2>5. w[base + r + 1] = x[r + 1] /\ w[base + r + 2] = x[r + 2]
    <3>1. 1 \in 1..g /\ 2 \in 1..g
      BY <1>2
    <3> QED BY <2>4, <3>1
  <2>6. ASSUME NEW h \in 0..(count - 1)
        PROVE  w[base + r + 2 + h + 1] = WordIn(source, "digit", d, p, c)
    <3>1. PICK j \in 1..g : j = 2 + h + 1
      BY <1>2
    <3>2. base + r + j = base + r + 2 + h + 1 /\ r + j = r + 2 + h + 1
      BY <3>1
    <3>3. x[r + 2 + h + 1] = WordIn(source, "digit", d, p, c)
      BY <2>3 DEF KeyGroup
    <3> QED BY <2>4, <3>2, <3>3
  <2>7. KeyGroup(w, base + r, count, source, p, c, d)
    BY <2>3, <2>5, <2>6 DEF KeyGroup
  <2>8. base + 4 * count + d * (count + 2) = base + r
    BY <1>2, <2>1, <2>2
  <2> QED BY <2>7, <2>8
<1> QED BY <1>5, <1>6 DEF MajorBlock

-----------------------------------------------------------------------------
(* Blocks put behind others, and found again.                              *)
Blocks(s, A, e, width) == s \in Seq(A) /\ Len(s) = e * width
Extends(s, t, x, A, e, width) ==
  /\ Blocks(s, A, e + 1, width) /\ Embeds(s, e * width, x, width)
  /\ \A b \in 0..(e - 1) : \A y :
       Embeds(t, b * width, y, width) => Embeds(s, b * width, y, width)

(* A block of the same width behind e others leaves those where they are.  *)
LEMMA Appended ==
  ASSUME NEW A, NEW s, NEW x \in Seq(A), NEW e \in Nat, NEW width \in Nat,
         Blocks(s, A, e, width), Len(x) = width
  PROVE  Extends(s \o x, s, x, A, e, width)
<1>0. s \in Seq(A) /\ Len(s) = e * width
  BY DEF Blocks
<1>1. PICK size \in Nat : size = e * width
  <2>1. e * width \in Nat
    OBVIOUS
  <2> QED BY <2>1
<1>2. Joins(s \o x, s, x, A, size, width)
  BY <1>0, <1>1, Joined
<1>3. size + width = (e + 1) * width
  BY <1>1
<1>4. Embeds(s \o x, size, x, width)
  BY <1>2 DEF Joins, Embeds
<1>5. ASSUME NEW b \in 0..(e - 1), NEW y, Embeds(s, b * width, y, width)
      PROVE  Embeds(s \o x, b * width, y, width)
  <2>1. PICK k \in Nat : k = b * width /\ k + width <= size
    <3>1. \A i, j, l \in Nat : i + 1 <= j => i * l + l <= j * l /\ i * l \in Nat
      OBVIOUS
    <3>2. b \in Nat /\ b + 1 <= e
      OBVIOUS
    <3>3. b * width + width <= e * width /\ b * width \in Nat
      BY <3>1, <3>2
    <3> QED BY <1>1, <3>3
  <2>2. ASSUME NEW j \in 1..width PROVE (s \o x)[k + j] = y[j]
    <3>1. k + j \in 1..size
      BY <2>1
    <3>2. s[k + j] = y[j]
      BY <1>5, <2>1 DEF Embeds
    <3> QED BY <1>2, <3>1, <3>2 DEF Joins
  <2> QED BY <2>1, <2>2 DEF Embeds
<1> QED BY <1>1, <1>2, <1>3, <1>4, <1>5 DEF Joins, Blocks, Extends

(* The block an element lies in, and its place there.                      *)
LEMMA Places ==
  ASSUME NEW width \in Nat \ {0}, NEW count \in Nat, NEW n \in 1..(count * width)
  PROVE  /\ (n - 1) \div width \in 0..(count - 1) /\ (n - 1) % width \in 0..(width - 1)
         /\ n - 1 = ((n - 1) \div width) * width + ((n - 1) % width)
<1>1. PICK k \in Nat : k = n - 1 /\ k < count * width
  <2>1. count * width \in Nat
    OBVIOUS
  <2> QED BY <2>1
<1>2. PICK b \in Nat, r \in 0..(width - 1) :
        b = k \div width /\ r = k % width /\ k = width * b + r
  <2>1. k \div width \in Nat /\ k % width \in 0..(width - 1)
        /\ k = width * (k \div width) + (k % width)
    OBVIOUS
  <2> QED BY <2>1
<1>3. b < count
  <2>1. SUFFICES ASSUME count <= b PROVE FALSE
    OBVIOUS
  <2>2. \A i, j, l \in Nat : i <= j => i * l <= l * j
    OBVIOUS
  <2>3. count * width <= width * b
    BY <2>1, <2>2
  <2>4. width * b \in Nat /\ count * width \in Nat
    OBVIOUS
  <2> QED BY <1>1, <1>2, <2>3, <2>4
<1>4. width * b = b * width
  OBVIOUS
<1> QED BY <1>1, <1>2, <1>3, <1>4

-----------------------------------------------------------------------------
(* What a script has written when it has been through some blocks.         *)
Major == program = "prepare_coefficient_major"
OperandCount == IF program = "prepare_keyswitch_mac" THEN 0 ELSE 4
WordWidth == IF Major THEN MajorWidth(ciphertexts) ELSE CiphertextWidth(OperandCount)
OutputWidth == IF Major THEN ciphertexts * 2 ELSE 2
BlockWords(p, c) ==
  IF Major THEN MajorWords(ciphertexts, export, p, c)
  ELSE CiphertextWords(OperandCount, export, p, c)
BothOutputs(p, c) ==
  IF program = "prepare_keyswitch_mac"
    THEN <<WordIn(export, "ks_b", 0, p, c), WordIn(export, "ks_a", 0, p, c)>>
    ELSE <<WordIn(export, "relin_c0", 0, p, c), WordIn(export, "relin_c1", 0, p, c)>>
BlockOutputs(p, c) == IF Major THEN Repeat(ciphertexts, BothOutputs(p, c)) ELSE BothOutputs(p, c)

BlockExact(p, c) ==
  /\ Computed(OperandCount, export, p, c, 0) = BothOutputs(p, c)[1]
  /\ Computed(OperandCount, export, p, c, 1) = BothOutputs(p, c)[2]
BlockDone(p, c, at) ==
  /\ Embeds(payload, at * WordWidth, BlockWords(p, c), WordWidth)
  /\ Embeds(expectedWords, at * OutputWidth, BlockOutputs(p, c), OutputWidth)
  /\ ~Major => BlockExact(p, c)

At2(p, c) == p * Coefficients + c
Packed(e) ==
  /\ payload \in Seq(Vec) /\ Len(payload) = e * WordWidth
  /\ expectedWords \in Seq(Vec) /\ Len(expectedWords) = e * OutputWidth
  /\ \A p \in 0..(PairCount - 1), c \in Coefs : At2(p, c) < e => BlockDone(p, c, At2(p, c))

ScriptTyped ==
  /\ moduli \in TowerModuli
  /\ export \in [Entries(TowerCount) -> Nat] /\ ciphertexts \in Nat
  /\ pair \in 0..(PairCount - 1) /\ coefficient \in Coefs

ScriptInv ==
  program \in Scripts =>
    /\ ScriptTyped
    /\ pc \in {"prepare", "pack", "ended"}
    /\ pc # "ended" => outcome = "running" /\ Packed(At2(pair, coefficient))
    /\ Major /\ (pc = "pack" \/ outcome = "passed") => ciphertexts # 0
    /\ outcome = "passed" => Packed(PairCount * Coefficients)
    /\ outcome = "raised" => export # OpenFHE

(* The two expected words of a coefficient are words.                      *)
LEMMA BothOutputsTyped ==
  ASSUME ScriptTyped, NEW p \in 0..(PairCount - 1), NEW c \in Coefs
  PROVE  BothOutputs(p, c) \in Seq(Vec) /\ Len(BothOutputs(p, c)) = 2
<1>1. \A n \in {"ks_b", "ks_a", "relin_c0", "relin_c1"} : <<n, 0>> \in Files
  BY DEF Files, DerivedFiles, Named
<1>2. \A n \in {"ks_b", "ks_a", "relin_c0", "relin_c1"} : WordIn(export, n, 0, p, c) \in Vec
  BY <1>1, WordTyped DEF ScriptTyped
<1> QED BY <1>2 DEF BothOutputs

(* The words emitted per coefficient, and expected of it.                  *)
LEMMA WidthsTyped ==
  ASSUME ScriptTyped
  PROVE  WordWidth \in Nat /\ OutputWidth \in Nat /\ OperandCount \in {0, 4}
<1>1. PairCount - 1 \in Nat /\ 0 \in 0..(PairCount - 1) /\ 0 \in Coefs
  BY PairTowers, VectorAssumption DEF ScriptTyped, Coefs
<1>2. MajorWidth(ciphertexts) \in Nat
  BY <1>1, MajorWordsAre DEF ScriptTyped
<1>3. OperandCount \in {0, 4}
  BY DEF OperandCount
<1>4. CiphertextWidth(OperandCount) \in Nat
  BY <1>3, VectorAssumption DEF CiphertextWidth
<1> QED BY <1>2, <1>3, <1>4 DEF WordWidth, OutputWidth, ScriptTyped

(* A script emits blocks of one width, and expects blocks of one width.    *)
LEMMA BlockTyped ==
  ASSUME ScriptTyped, NEW p \in 0..(PairCount - 1), NEW c \in Coefs
  PROVE  /\ BlockWords(p, c) \in Seq(Vec) /\ Len(BlockWords(p, c)) = WordWidth
         /\ BlockOutputs(p, c) \in Seq(Vec) /\ Len(BlockOutputs(p, c)) = OutputWidth
<1>1. moduli \in TowerModuli /\ export \in [Entries(TowerCount) -> Nat] /\ ciphertexts \in Nat
  BY DEF ScriptTyped
<1>2. OperandCount \in {0, 4}
  BY DEF OperandCount
<1>3. BothOutputs(p, c) \in Seq(Vec) /\ Len(BothOutputs(p, c)) = 2
  BY BothOutputsTyped
<1>4. CASE Major
  <2>1. /\ MajorWords(ciphertexts, export, p, c) \in Seq(Vec)
        /\ Len(MajorWords(ciphertexts, export, p, c)) = MajorWidth(ciphertexts)
    BY <1>1, MajorWordsAre
  <2>2. Repeated(Repeat(ciphertexts, BothOutputs(p, c)), BothOutputs(p, c), Vec, ciphertexts, 2)
    BY <1>1, <1>3, RepeatIs
  <2> QED BY <1>4, <2>1, <2>2 DEF BlockWords, BlockOutputs, WordWidth, OutputWidth, Repeated
<1>5. CASE ~Major
  <2>1. /\ CiphertextWords(OperandCount, export, p, c) \in Seq(Vec)
        /\ Len(CiphertextWords(OperandCount, export, p, c)) = CiphertextWidth(OperandCount)
    BY <1>1, <1>2, CiphertextWordsAre
  <2> QED BY <1>3, <1>5, <2>1 DEF BlockWords, BlockOutputs, WordWidth, OutputWidth
<1> QED BY <1>4, <1>5

(* What no step of a script changes, and what depends on it only.          *)
LEMMA ScriptSame ==
  ASSUME UNCHANGED <<program, moduli, export, ciphertexts>>
  PROVE  /\ UNCHANGED <<TowerCount, PairCount, OpenFHE, Major, WordWidth, OutputWidth>>
         /\ \A p, c : /\ BlockWords(p, c)' = BlockWords(p, c)
                      /\ BlockOutputs(p, c)' = BlockOutputs(p, c)
                      /\ BlockExact(p, c)' = BlockExact(p, c)
<1>1. UNCHANGED <<TowerCount, PairCount, Major, WordWidth, OutputWidth, OperandCount>>
  BY DEF TowerCount, PairCount, Major, WordWidth, OutputWidth, OperandCount
<1>2. \A name, i, p, c : WordIn(export, name, i, p, c)' = WordIn(export, name, i, p, c)
  BY Zenon DEF WordIn, Tower0, Tower1, Tower1Real, TowerCount
<1>3. \A p : PairModuli(p)' = PairModuli(p)
  BY DEF PairModuli, Tower0, Tower1, Tower1Real, TowerCount
<1>4. \A p, c : BothOutputs(p, c)' = BothOutputs(p, c)
  BY <1>2 DEF BothOutputs
<1>5. \A p, c : BlockOutputs(p, c)' = BlockOutputs(p, c)
  BY <1>1, <1>4 DEF BlockOutputs
<1>6. \A p, c : BlockWords(p, c)' = BlockWords(p, c)
  <2>1. \A p, c : OperandSeq(export, p, c)' = OperandSeq(export, p, c)
    BY <1>2 DEF OperandSeq
  <2>2. \A p, c : TripleSeq(export, p, c)' = TripleSeq(export, p, c)
    BY <1>2 DEF TripleSeq
  <2>3. \A p, c : MajorWords(ciphertexts, export, p, c)' = MajorWords(ciphertexts, export, p, c)
    BY <1>2, <2>1 DEF MajorWords
  <2>4. \A p, c : CiphertextWords(OperandCount, export, p, c)'
                     = CiphertextWords(OperandCount, export, p, c)
    BY <1>1, <2>1, <2>2 DEF CiphertextWords
  <2> QED BY <1>1, <2>3, <2>4 DEF BlockWords
<1>7. \A key, p, c : KsAt(export, key, p, c)' = KsAt(export, key, p, c)
  BY <1>2, <1>3 DEF KsAt, DigitsAt
<1>8. \A p, c : EvalMulAt(export, p, c)' = EvalMulAt(export, p, c)
  BY <1>2, <1>3 DEF EvalMulAt
<1>9. \A p, c : BlockExact(p, c)' = BlockExact(p, c)
  BY <1>1, <1>3, <1>4, <1>7, <1>8 DEF BlockExact, Computed, Tensor
<1>10. OpenFHE' = OpenFHE
  BY <1>1 DEF OpenFHE, Sampled
<1> QED BY <1>1, <1>5, <1>6, <1>9, <1>10

-----------------------------------------------------------------------------
(* What a script checks and emits, at the pair and coefficient in hand.    *)
LEMMA InHand ==
  /\ \A key : CalculatedKs(key) = KsAt(export, key, pair, coefficient)
  /\ Calculated = EvalMulAt(export, pair, coefficient)
  /\ Operands = OperandSeq(export, pair, coefficient)
  /\ DigitTriples = TripleSeq(export, pair, coefficient)
  /\ CoefficientMajorPayload = MajorWords(ciphertexts, export, pair, coefficient)
<1>1. \A name : DigitWords(name) = DigitsAt(export, name, pair, coefficient)
  BY DEF DigitWords, DigitsAt
<1>2. \A name, d : d \in DigitIndices =>
        DigitWords(name)[d] = WordIn(export, name, d, pair, coefficient)
  BY DEF DigitWords
<1>3. \A key : CalculatedKs(key) = KsAt(export, key, pair, coefficient)
  BY <1>1 DEF CalculatedKs, KsAt
<1>4. Calculated = EvalMulAt(export, pair, coefficient)
  BY DEF Calculated, EvalMulAt, Word
<1>5. Operands = OperandSeq(export, pair, coefficient)
  BY DEF Operands, OperandSeq, Word
<1>6. DigitTriples = TripleSeq(export, pair, coefficient)
  BY <1>2 DEF DigitTriples, TripleSeq
<1>7. CoefficientMajorPayload = MajorWords(ciphertexts, export, pair, coefficient)
  BY <1>2, <1>5 DEF CoefficientMajorPayload, MajorWords
<1> QED BY <1>3, <1>4, <1>5, <1>6, <1>7

(* A script that compared and found no difference has an exact block.      *)
LEMMA MatchedExact ==
  ASSUME program = "prepare_relinearized" => RelinearizedMatches,
         program = "prepare_keyswitch_mac" => KeySwitchMatches,
         program \in Scripts, ~Major
  PROVE  BlockExact(pair, coefficient)
<1>1. CASE program = "prepare_relinearized"
  <2>1. /\ Plus(Calculated.c0, CalculatedKs("key_b"), PairModuli(pair)) = Word("relin_c0")
        /\ Plus(Calculated.c1, CalculatedKs("key_a"), PairModuli(pair)) = Word("relin_c1")
    BY <1>1 DEF RelinearizedMatches
  <2>2. /\ Computed(4, export, pair, coefficient, 0) = Word("relin_c0")
        /\ Computed(4, export, pair, coefficient, 1) = Word("relin_c1")
    BY <2>1, InHand DEF Computed, Tensor, Key
  <2> QED BY <1>1, <2>2 DEF BlockExact, BothOutputs, OperandCount, Word
<1>2. CASE program = "prepare_keyswitch_mac"
  <2>1. CalculatedKs("key_b") = Word("ks_b") /\ CalculatedKs("key_a") = Word("ks_a")
    BY <1>2 DEF KeySwitchMatches
  <2>2. /\ Computed(0, export, pair, coefficient, 0) = Word("ks_b")
        /\ Computed(0, export, pair, coefficient, 1) = Word("ks_a")
    BY <2>1, InHand DEF Computed, Key
  <2> QED BY <1>2, <2>2 DEF BlockExact, BothOutputs, OperandCount, Word
<1> QED BY <1>1, <1>2 DEF Scripts, Major

(* What OpenFHE writes matches, so a script raises on another export only. *)
LEMMA OpenFHEMatches ==
  ASSUME ScriptTyped, export = OpenFHE
  PROVE  RelinearizedMatches /\ KeySwitchMatches
<1>1. /\ moduli \in TowerModuli /\ pair \in 0..(PairCount - 1) /\ coefficient \in Coefs
  BY DEF ScriptTyped
<1>2. KeySwitchMatches
  BY <1>1, InHand, OpenFHEKeySwitch DEF KeySwitchMatches, Word
<1>3. Calculated.c0 = Word("c0") /\ Calculated.c1 = Word("c1") /\ Calculated.c2 = Word("c2")
  BY <1>1, InHand, OpenFHEEvalMul DEF Word
<1>4. /\ Plus(Calculated.c0, CalculatedKs("key_b"), PairModuli(pair)) = Word("relin_c0")
      /\ Plus(Calculated.c1, CalculatedKs("key_a"), PairModuli(pair)) = Word("relin_c1")
  BY <1>1, InHand, OpenFHERelinearized DEF Word
<1> QED BY <1>2, <1>3, <1>4 DEF RelinearizedMatches

(* On OpenFHE's export the computed words are the relinearized ones.       *)
LEMMA OpenFHEExact ==
  ASSUME moduli \in TowerModuli, NEW p \in 0..(PairCount - 1), NEW c \in Coefs
  PROVE  \A component \in 0..1 :
           Computed(4, OpenFHE, p, c, component)
             = WordIn(OpenFHE, IF component = 0 THEN "relin_c0" ELSE "relin_c1", 0, p, c)
<1>1. \A component \in 0..1 : component = 0 \/ component = 1
  OBVIOUS
<1> QED BY <1>1, OpenFHERelinearized DEF Computed, Tensor, Key

(* The words of the block a step emits are those of its pair and place.    *)
LEMMA EmittedBlock ==
  ASSUME program \in Scripts
  PROVE  /\ BlockWords(pair, coefficient) =
              CASE program = "prepare_relinearized" -> RelinearizedPayload
                [] program = "prepare_keyswitch_mac" -> DigitTriples
                [] program = "prepare_coefficient_major" -> CoefficientMajorPayload
         /\ BlockOutputs(pair, coefficient) =
              CASE program = "prepare_relinearized" -> RelinearizedExpected
                [] program = "prepare_keyswitch_mac" -> <<Word("ks_b"), Word("ks_a")>>
                [] program = "prepare_coefficient_major" ->
                     Repeat(ciphertexts, RelinearizedExpected)
<1>1. /\ RelinearizedPayload = CiphertextWords(4, export, pair, coefficient)
      /\ DigitTriples = CiphertextWords(0, export, pair, coefficient)
  BY InHand DEF RelinearizedPayload, CiphertextWords
<1>2. RelinearizedExpected
        = <<WordIn(export, "relin_c0", 0, pair, coefficient),
            WordIn(export, "relin_c1", 0, pair, coefficient)>>
  BY DEF RelinearizedExpected, Word
<1>3. CASE program = "prepare_relinearized"
  BY <1>1, <1>2, <1>3 DEF BlockWords, BlockOutputs, BothOutputs, Major, OperandCount
<1>4. CASE program = "prepare_keyswitch_mac"
  BY <1>1, <1>4 DEF BlockWords, BlockOutputs, BothOutputs, Major, OperandCount, Word
<1>5. CASE program = "prepare_coefficient_major"
  BY <1>2, <1>5, InHand DEF BlockWords, BlockOutputs, BothOutputs, Major
<1> QED BY <1>3, <1>4, <1>5 DEF Scripts

-----------------------------------------------------------------------------
(* A step of the loops puts its block behind those before it.              *)
LEMMA PlaceUnique ==
  ASSUME NEW p \in Nat, NEW r \in Nat, NEW c \in Coefs, NEW d \in Coefs
  PROVE  /\ At2(p, c) \in Nat
         /\ At2(p, c) = At2(r, d) => p = r /\ c = d
<1>1. PICK n \in Nat \ {0} : n = Coefficients /\ c \in 0..(n - 1) /\ d \in 0..(n - 1)
  BY VectorAssumption DEF Coefs
<1>2. p * n \in Nat /\ r * n \in Nat
  OBVIOUS
<1>3. \A i, j \in Nat : i < j => i * n + n <= j * n
  <2> TAKE i, j \in Nat
  <2> HAVE i < j
  <2>1. i + 1 <= j
    OBVIOUS
  <2>2. \A x, y, z \in Nat : x + 1 <= y => x * z + z <= y * z
    OBVIOUS
  <2> QED BY <2>1, <2>2
<1>4. ASSUME p * n + c = r * n + d PROVE p = r /\ c = d
  <2>1. ~(p < r)
    <3> SUFFICES ASSUME p < r PROVE FALSE
      OBVIOUS
    <3>1. p * n + n <= r * n
      BY <1>3
    <3> QED BY <1>1, <1>2, <1>4, <3>1
  <2>2. ~(r < p)
    <3> SUFFICES ASSUME r < p PROVE FALSE
      OBVIOUS
    <3>1. r * n + n <= p * n
      BY <1>3
    <3> QED BY <1>1, <1>2, <1>4, <3>1
  <2>3. p = r
    BY <2>1, <2>2
  <2> QED BY <1>1, <1>2, <1>4, <2>3
<1> QED BY <1>1, <1>2, <1>4 DEF At2

(* A block put behind e exact ones makes e + 1.                            *)
LEMMA EmitPacks ==
  ASSUME ScriptTyped, NEW e \in Nat, e = At2(pair, coefficient), Packed(e),
         Major \/ BlockExact(pair, coefficient),
         payload' = payload \o BlockWords(pair, coefficient),
         expectedWords' = expectedWords \o BlockOutputs(pair, coefficient),
         UNCHANGED <<program, moduli, export, ciphertexts>>
  PROVE  Packed(e + 1)'
<1>1. PICK w \in Nat, u \in Nat : w = WordWidth /\ u = OutputWidth
  BY WidthsTyped
<1>2. /\ PairCount' = PairCount /\ WordWidth' = w /\ OutputWidth' = u /\ Major' = Major
      /\ \A p, c : /\ BlockWords(p, c)' = BlockWords(p, c)
                   /\ BlockOutputs(p, c)' = BlockOutputs(p, c)
                   /\ BlockExact(p, c)' = BlockExact(p, c)
  BY <1>1, ScriptSame
<1>3. pair \in 0..(PairCount - 1) /\ coefficient \in Coefs /\ pair \in Nat
  BY DEF ScriptTyped
<1> DEFINE x == BlockWords(pair, coefficient)
           y == BlockOutputs(pair, coefficient)
<1>4. x \in Seq(Vec) /\ Len(x) = w /\ y \in Seq(Vec) /\ Len(y) = u
  BY <1>1, <1>3, BlockTyped
<1>5. Blocks(payload, Vec, e, w) /\ Blocks(expectedWords, Vec, e, u)
  BY <1>1 DEF Packed, Blocks
<1> HIDE DEF x, y
<1>6. Extends(payload \o x, payload, x, Vec, e, w)
  BY <1>4, <1>5, Appended
<1>7. Extends(expectedWords \o y, expectedWords, y, Vec, e, u)
  BY <1>4, <1>5, Appended
<1>8. payload' = payload \o x /\ expectedWords' = expectedWords \o y
  BY DEF x, y
<1>9. ASSUME NEW p \in 0..(PairCount - 1), NEW c \in Coefs, At2(p, c) < e + 1
      PROVE  /\ Embeds(payload', At2(p, c) * w, BlockWords(p, c), w)
             /\ Embeds(expectedWords', At2(p, c) * u, BlockOutputs(p, c), u)
             /\ ~Major => BlockExact(p, c)
  <2>1. PICK b \in Nat : b = At2(p, c) /\ b < e + 1
    BY <1>3, <1>9, PlaceUnique
  <2>2. CASE b = e
    <3>1. p = pair /\ c = coefficient
      <4>1. p \in Nat /\ At2(p, c) = At2(pair, coefficient)
        BY <2>1, <2>2
      <4> QED BY <1>3, <4>1, PlaceUnique
    <3>2. BlockWords(p, c) = x /\ BlockOutputs(p, c) = y
      BY <3>1 DEF x, y
    <3> QED BY <1>6, <1>7, <1>8, <2>1, <2>2, <3>1, <3>2 DEF Extends
  <2>3. CASE b # e
    <3>1. b \in 0..(e - 1) /\ b < e
      BY <2>1, <2>3
    <3>2. BlockDone(p, c, b)
      BY <2>1, <3>1 DEF Packed
    <3>3. /\ Embeds(payload, b * w, BlockWords(p, c), w)
          /\ Embeds(expectedWords, b * u, BlockOutputs(p, c), u)
          /\ ~Major => BlockExact(p, c)
      BY <1>1, <3>2 DEF BlockDone
    <3> QED BY <1>6, <1>7, <1>8, <2>1, <3>1, <3>3 DEF Extends
  <2> QED BY <2>2, <2>3
<1>10. \A p, c : At2(p, c)' = At2(p, c)
  BY DEF At2
<1>11. ASSUME NEW p \in 0..(PairCount - 1), NEW c \in Coefs, At2(p, c) < e + 1
       PROVE  BlockDone(p, c, At2(p, c))'
  BY <1>2, <1>9, <1>10, <1>11 DEF BlockDone
<1> QED BY <1>2, <1>6, <1>7, <1>8, <1>10, <1>11 DEF Packed, Extends, Blocks

(* A step of a script reads the metadata, stops at a difference, or moves on. *)
Reads ==
  /\ pc = "prepare"
  /\ \/ pc' = "ended" /\ outcome' = "rejected"
     \/ pc' = "pack" /\ outcome' = outcome /\ (Major => ciphertexts # 0)
  /\ UNCHANGED <<pair, coefficient, payload, expectedWords>>
Stops ==
  /\ pc = "pack" /\ pc' = "ended" /\ outcome' = "raised" /\ export # OpenFHE
  /\ UNCHANGED <<pair, coefficient, payload, expectedWords>>
Moves ==
  /\ pc = "pack" /\ (Major \/ BlockExact(pair, coefficient))
  /\ payload' = payload \o BlockWords(pair, coefficient)
  /\ expectedWords' = expectedWords \o BlockOutputs(pair, coefficient)
  /\ coefficient' = (coefficient + 1) % Coefficients
  /\ IF coefficient + 1 < Coefficients THEN UNCHANGED <<pc, outcome, pair>>
     ELSE IF pair + 1 < PairCount THEN pair' = pair + 1 /\ UNCHANGED <<pc, outcome>>
     ELSE pc' = "ended" /\ outcome' = "passed" /\ UNCHANGED pair

(* Those are the steps of the three scripts.                               *)
LEMMA ScriptSteps ==
  ASSUME ScriptInv, VectorNext
  PROVE  /\ program \in Scripts /\ UNCHANGED <<program, moduli, export, ciphertexts>>
         /\ Reads \/ Stops \/ Moves
<1>1. program \in Scripts /\ UNCHANGED <<program, moduli, export, ciphertexts>>
  BY DEF VectorNext, PrepareRelinearized, PrepareKeyswitchMac, PrepareCoefficientMajor,
     PrepareIf, Emit, Scripts, progVars, vectorVars
<1>2. ScriptTyped
  BY <1>1 DEF ScriptInv
<1>3. CASE PrepareRelinearized
  <2>1. program = "prepare_relinearized" /\ ~Major
    BY <1>3 DEF PrepareRelinearized, Major
  <2>2. CASE PrepareIf(MetadataAccepted)
    BY <1>1, <2>1, <2>2 DEF PrepareIf, Reads, At, Goto, loopVars, vectorVars
  <2>3. CASE Emit(RelinearizedMatches, RelinearizedPayload, RelinearizedExpected)
    <3>1. CASE ~RelinearizedMatches
      BY <1>1, <1>2, <2>3, <3>1, OpenFHEMatches DEF Emit, Stops, At
    <3>2. CASE RelinearizedMatches
      <4>1. BlockExact(pair, coefficient)
        BY <1>1, <2>1, <3>2, MatchedExact
      <4>2. /\ BlockWords(pair, coefficient) = RelinearizedPayload
            /\ BlockOutputs(pair, coefficient) = RelinearizedExpected
        BY <1>1, <2>1, EmittedBlock
      <4> QED BY <1>1, <2>3, <3>2, <4>1, <4>2 DEF Emit, Moves, At
    <3> QED BY <3>1, <3>2
  <2> QED BY <1>1, <1>3, <2>2, <2>3 DEF PrepareRelinearized
<1>4. CASE PrepareKeyswitchMac
  <2>1. program = "prepare_keyswitch_mac" /\ ~Major
    BY <1>4 DEF PrepareKeyswitchMac, Major
  <2>2. CASE PrepareIf(MetadataAccepted)
    BY <1>1, <2>1, <2>2 DEF PrepareIf, Reads, At, Goto, loopVars, vectorVars
  <2>3. CASE Emit(KeySwitchMatches, DigitTriples, <<Word("ks_b"), Word("ks_a")>>)
    <3>1. CASE ~KeySwitchMatches
      BY <1>1, <1>2, <2>3, <3>1, OpenFHEMatches DEF Emit, Stops, At
    <3>2. CASE KeySwitchMatches
      <4>1. BlockExact(pair, coefficient)
        BY <1>1, <2>1, <3>2, MatchedExact
      <4>2. /\ BlockWords(pair, coefficient) = DigitTriples
            /\ BlockOutputs(pair, coefficient) = <<Word("ks_b"), Word("ks_a")>>
        BY <1>1, <2>1, EmittedBlock
      <4> QED BY <1>1, <2>3, <3>2, <4>1, <4>2 DEF Emit, Moves, At
    <3> QED BY <3>1, <3>2
  <2> QED BY <1>1, <1>4, <2>2, <2>3 DEF PrepareKeyswitchMac
<1>5. CASE PrepareCoefficientMajor
  <2>1. program = "prepare_coefficient_major" /\ Major
    BY <1>5 DEF PrepareCoefficientMajor, Major
  <2>2. CASE PrepareIf(ciphertexts >= MinCiphertexts /\ MetadataAccepted)
    <3>1. ciphertexts >= MinCiphertexts => ciphertexts # 0
      BY VectorAssumption
    <3> QED BY <1>1, <2>2, <3>1 DEF PrepareIf, Reads, At, Goto, loopVars, vectorVars
  <2>3. CASE Emit(TRUE, CoefficientMajorPayload, Repeat(ciphertexts, RelinearizedExpected))
    <3>1. /\ BlockWords(pair, coefficient) = CoefficientMajorPayload
          /\ BlockOutputs(pair, coefficient) = Repeat(ciphertexts, RelinearizedExpected)
      BY <1>1, <2>1, EmittedBlock
    <3> QED BY <1>1, <2>1, <2>3, <3>1 DEF Emit, Moves, At
  <2> QED BY <1>1, <1>5, <2>2, <2>3 DEF PrepareCoefficientMajor
<1> QED BY <1>1, <1>3, <1>4, <1>5 DEF VectorNext

(* What is written stays exact while the export stays what it is.          *)
LEMMA PackedKept ==
  ASSUME NEW e \in Nat, Packed(e),
         UNCHANGED <<program, moduli, export, ciphertexts, payload, expectedWords>>
  PROVE  Packed(e)'
<1>1. /\ UNCHANGED <<PairCount, WordWidth, OutputWidth, Major>>
      /\ \A p, c : /\ BlockWords(p, c)' = BlockWords(p, c)
                   /\ BlockOutputs(p, c)' = BlockOutputs(p, c)
                   /\ BlockExact(p, c)' = BlockExact(p, c)
  BY ScriptSame
<1>2. \A p, c : At2(p, c)' = At2(p, c)
  BY DEF At2
<1>3. \A p, c : BlockDone(p, c, At2(p, c)) => BlockDone(p, c, At2(p, c))'
  BY <1>1, <1>2 DEF BlockDone
<1> QED BY <1>1, <1>2, <1>3 DEF Packed

(* The script's state after a step that leaves moduli, export and counts.  *)
LEMMA ScriptTypedKept ==
  ASSUME ScriptTyped, UNCHANGED <<program, moduli, export, ciphertexts>>,
         pair' \in 0..(PairCount - 1), coefficient' \in Coefs
  PROVE  ScriptTyped'
<1>1. UNCHANGED <<TowerCount, PairCount>>
  BY ScriptSame
<1>2. Entries(TowerCount)' = Entries(TowerCount) /\ Coefs' = Coefs
  BY <1>1 DEF Entries, Coefs
<1> QED BY <1>1, <1>2 DEF ScriptTyped

(* Moving on emits the next block, in the loops' order.                    *)
LEMMA MovesKeep ==
  ASSUME ScriptInv, program \in Scripts, UNCHANGED <<program, moduli, export, ciphertexts>>, Moves
  PROVE  ScriptInv'
<1>1. /\ ScriptTyped /\ pc = "pack" /\ outcome = "running"
      /\ Packed(At2(pair, coefficient)) /\ (Major => ciphertexts # 0)
  BY DEF ScriptInv, Moves
<1>2. /\ pair \in 0..(PairCount - 1) /\ pair \in Nat /\ coefficient \in Coefs
      /\ At2(pair, coefficient) \in Nat
  <2>1. pair \in 0..(PairCount - 1) /\ pair \in Nat /\ coefficient \in Coefs
    BY <1>1 DEF ScriptTyped
  <2> QED BY <2>1, PlaceUnique
<1>3. PICK e \in Nat : e = At2(pair, coefficient)
  BY <1>2
<1>4. Packed(e + 1)'
  BY <1>1, <1>3, EmitPacks DEF Moves
<1>5. UNCHANGED <<PairCount, Major>>
  BY ScriptSame
<1>6. PICK n \in Nat \ {0}, c \in Nat : n = Coefficients /\ c = coefficient /\ c < n
  BY <1>2, VectorAssumption DEF Coefs
<1>7. PICK count \in Nat \ {0} : count = PairCount
  BY <1>1, PairTowers DEF ScriptTyped
<1>8. e = pair * n + c
  BY <1>3, <1>6 DEF At2
<1>9. CASE c + 1 < n
  <2>1. pc' = "pack" /\ outcome' = "running" /\ pair' = pair /\ coefficient' = c + 1
    <3>1. (c + 1) % n = c + 1
      BY <1>9
    <3> QED BY <1>1, <1>6, <1>9, <3>1 DEF Moves
  <2>2. At2(pair, coefficient)' = e + 1
    <3>1. At2(pair, coefficient)' = pair' * n + coefficient'
      BY <1>6 DEF At2
    <3>2. pair * n \in Nat
      BY <1>2
    <3>3. pair * n + (c + 1) = (pair * n + c) + 1
      BY <3>2
    <3> QED BY <1>8, <2>1, <3>1, <3>3
  <2>3. Packed(At2(pair, coefficient))'
    BY <1>4, <2>2 DEF Packed
  <2>4. ScriptTyped'
    <3>1. coefficient' \in Coefs
      BY <1>6, <1>9, <2>1 DEF Coefs
    <3> QED BY <1>1, <1>2, <2>1, <3>1, ScriptTypedKept
  <2> QED BY <1>1, <1>5, <2>1, <2>3, <2>4 DEF ScriptInv
<1>10. CASE ~(c + 1 < n) /\ pair + 1 < PairCount
  <2>1. pc' = "pack" /\ outcome' = "running" /\ pair' = pair + 1 /\ coefficient' = 0
    <3>1. (c + 1) % n = 0
      BY <1>6, <1>10
    <3> QED BY <1>1, <1>6, <1>10, <3>1 DEF Moves
  <2>2. At2(pair, coefficient)' = e + 1
    <3>1. At2(pair, coefficient)' = pair' * n + coefficient'
      BY <1>6 DEF At2
    <3>2. (pair + 1) * n = pair * n + n /\ pair * n \in Nat
      BY <1>2
    <3>3. n = c + 1
      BY <1>6, <1>10
    <3>4. (pair + 1) * n + 0 = (pair * n + c) + 1
      BY <3>2, <3>3
    <3> QED BY <1>8, <2>1, <3>1, <3>4
  <2>3. Packed(At2(pair, coefficient))'
    BY <1>4, <2>2 DEF Packed
  <2>4. ScriptTyped'
    <3>1. coefficient' \in Coefs /\ pair' \in 0..(PairCount - 1)
      BY <1>2, <1>6, <1>7, <1>10, <2>1 DEF Coefs
    <3> QED BY <1>1, <3>1, ScriptTypedKept
  <2> QED BY <1>1, <1>5, <2>1, <2>3, <2>4 DEF ScriptInv
<1>11. CASE ~(c + 1 < n) /\ ~(pair + 1 < PairCount)
  <2>1. pc' = "ended" /\ outcome' = "passed" /\ pair' = pair /\ coefficient' = 0
    <3>1. (c + 1) % n = 0
      BY <1>6, <1>11
    <3> QED BY <1>1, <1>6, <1>11, <3>1 DEF Moves
  <2>2. e + 1 = count * n
    <3>1. count = pair + 1 /\ n = c + 1
      BY <1>2, <1>6, <1>7, <1>11
    <3>2. (pair + 1) * n = pair * n + n /\ pair * n \in Nat
      BY <1>2
    <3>3. pair * n + n = (pair * n + c) + 1
      BY <3>1, <3>2
    <3> QED BY <1>8, <3>1, <3>2, <3>3
  <2>3. (PairCount * Coefficients)' = e + 1
    BY <1>5, <1>6, <1>7, <2>2
  <2>4. Packed(PairCount * Coefficients)'
    BY <1>4, <2>3 DEF Packed
  <2>5. ScriptTyped'
    <3>1. coefficient' \in Coefs
      BY <1>6, <2>1 DEF Coefs
    <3> QED BY <1>1, <1>2, <2>1, <3>1, ScriptTypedKept
  <2> QED BY <1>1, <1>5, <2>1, <2>4, <2>5 DEF ScriptInv
<1> QED BY <1>9, <1>10, <1>11

(* Every other step of a script leaves what is written alone.              *)
LEMMA RestKeeps ==
  ASSUME ScriptInv, program \in Scripts, UNCHANGED <<program, moduli, export, ciphertexts>>,
         \/ Reads \/ Stops
         \/ UNCHANGED <<pc, outcome, pair, coefficient, payload, expectedWords>>
  PROVE  ScriptInv'
<1>1. UNCHANGED <<pair, coefficient, payload, expectedWords>>
  BY DEF Reads, Stops
<1>2. /\ UNCHANGED <<TowerCount, PairCount, OpenFHE, Major>>
      /\ At2(pair, coefficient)' = At2(pair, coefficient)
  BY <1>1, ScriptSame DEF At2
<1>3. ScriptTyped
  BY DEF ScriptInv
<1>4. ScriptTyped'
  BY <1>1, <1>3, ScriptTypedKept DEF ScriptTyped
<1>5. /\ At2(pair, coefficient) \in Nat /\ PairCount * Coefficients \in Nat
      /\ (PairCount * Coefficients)' = PairCount * Coefficients
  <2>1. pair \in Nat /\ coefficient \in Coefs
    BY <1>3 DEF ScriptTyped
  <2>2. At2(pair, coefficient) \in Nat
    BY <2>1, PlaceUnique
  <2>3. PairCount \in Nat /\ Coefficients \in Nat
    BY <1>3, PairTowers, VectorAssumption DEF ScriptTyped
  <2> QED BY <1>2, <2>2, <2>3
<1>6. \A e \in Nat : Packed(e) => Packed(e)'
  BY <1>1, PackedKept
<1>7. PICK e \in Nat, u \in Nat : e = At2(pair, coefficient) /\ u = PairCount * Coefficients
  BY <1>5
<1>8. /\ Packed(At2(pair, coefficient)) => Packed(At2(pair, coefficient))'
      /\ Packed(PairCount * Coefficients) => Packed(PairCount * Coefficients)'
  <2>1. (Packed(e) => Packed(e)') /\ (Packed(u) => Packed(u)')
    BY <1>6
  <2>2. At2(pair, coefficient)' = e /\ (PairCount * Coefficients)' = u
    BY <1>2, <1>5, <1>7
  <2> QED BY <1>7, <2>1, <2>2 DEF Packed
<1> QED BY <1>1, <1>2, <1>4, <1>8 DEF ScriptInv, Reads, Stops

(* No step changes what runs or on which towers.                           *)
LEMMA RelinProgram ==
  ASSUME RelinNext
  PROVE  program \in RelinPrograms /\ UNCHANGED progVars
<1>1. program \in RelinPrograms /\ (PrepareRelin \/ AllocateRelin \/ Batch \/ Finally)
  BY DEF RelinNext, RelinPrograms, DrainOverlap, CoefficientMajorSetup,
         CoefficientMajorBatch, PingpongSetup, PingpongBatch, RelinearizedSetup,
         RelinearizedBatch
<1>2. PrepareRelin \/ AllocateRelin \/ Finally => UNCHANGED progVars
  BY DEF PrepareRelin, AllocateRelin, Allocate, Finally
<1>3. Batch => UNCHANGED progVars
  BY DEF Batch, UploadProfile, Fill, SendOnly, SentOnly, FillBatch, RunFrame, ZeroReceive, Arm,
         SendFrame, FrameSent, Received, ValidateRelin, Validate
<1> QED BY <1>1, <1>2, <1>3

(* The same of the batch runners.                                          *)
LEMMA BatchProgram ==
  ASSUME BatchNext
  PROVE  program \in BatchPrograms /\ UNCHANGED progVars
<1>1. /\ program \in BatchPrograms
      /\ PrepareBatch \/ BeginPair \/ UploadIfNew \/ AllocatePair \/ RunPair \/ Finally
  BY DEF BatchNext, BatchPrograms, MultitowerUpload, MultitowerPairs, CiphertextUpload,
         CiphertextPairs, EvalMul3Upload, EvalMul3Pairs
<1>2. PrepareBatch \/ BeginPair \/ UploadIfNew \/ AllocatePair \/ Finally => UNCHANGED progVars
  BY DEF PrepareBatch, BeginPair, UploadIfNew, FreeProfile, Fill, SendOnly, SentOnly,
         AllocatePair, Allocate, Finally
<1>3. RunPair => UNCHANGED progVars
  BY DEF RunPair, FillPair, Fill, RunFrame, ZeroReceive, Arm, SendFrame, FrameSent, Received,
         ValidatePair, Validate, WritePair, EndPair
<1> QED BY <1>1, <1>2, <1>3

(* The same of the product runners.                                        *)
LEMMA ProductProgram ==
  ASSUME ProductNext
  PROVE  program \in ProductPrograms /\ UNCHANGED progVars
<1>1. CASE Tower
  BY <1>1 DEF Tower, PrepareTower, RunTower, ValidateTower, WriteTower, Finally, Allocate, Fill,
     RunFrame, ZeroReceive, Arm, SendFrame, FrameSent, Received, Validate, ProductPrograms
<1>2. CASE TwoTower
  BY <1>2 DEF TwoTower, PrepareTwoTower, AllocateTwoTower, RunTwoTower, WriteTwoTower, Finally,
     Allocate, Fill, SendOnly, SentOnly, RunFrame, ZeroReceive, Arm, SendFrame, FrameSent,
     Received, Validate, ProductPrograms
<1>3. CASE EvalMul3AllPairs
  BY <1>3 DEF EvalMul3AllPairs, UploadTable, RunAllPairs, ValidateAllPairs, Finally, Allocate,
     Fill, Free, SendOnly, SentOnly, RunFrame, ZeroReceive, Arm, SendFrame, FrameSent, Received,
     ProductPrograms
<1> QED BY <1>1, <1>2, <1>3 DEF ProductNext

(* No step of the system breaks what a script has written.                 *)
LEMMA ScriptInductive ==
  ASSUME ScriptInv, [Next]_HostVars
  PROVE  ScriptInv'
<1>1. CASE VectorNext
  <2>1. /\ program \in Scripts /\ UNCHANGED <<program, moduli, export, ciphertexts>>
        /\ Reads \/ Stops \/ Moves
    BY <1>1, ScriptSteps
  <2>2. CASE Moves
    BY <2>1, <2>2, MovesKeep
  <2>3. CASE Reads \/ Stops
    BY <2>1, <2>3, RestKeeps
  <2> QED BY <2>1, <2>2, <2>3
<1>2. CASE RelinNext \/ BatchNext \/ ProductNext
  <2>1. /\ program \in RelinPrograms \union BatchPrograms \union ProductPrograms
        /\ UNCHANGED progVars
    BY <1>2, RelinProgram, BatchProgram, ProductProgram
  <2>2. program' \notin Scripts
    BY <2>1 DEF Scripts, RelinPrograms, BatchPrograms, ProductPrograms, progVars
  <2> QED BY <2>2 DEF ScriptInv
<1>3. CASE WaitRaises /\ UNCHANGED vectorVars
  <2>1. pc \in {"sendingOnly", "sending", "receiving"} /\ UNCHANGED program
    BY <1>3 DEF WaitRaises, progVars
  <2> QED BY <2>1 DEF ScriptInv
<1>4. CASE DeviceNext \/ CacheNext \/ UNCHANGED HostVars
  <2>1. UNCHANGED <<program, moduli, pc, outcome, pair, export, ciphertexts, coefficient,
                    payload, expectedWords>>
    BY <1>4 DEF DeviceNext, CacheNext, Consume, Deliver, Evict, Fetch, HostVars, vars, progVars,
       loopVars, vectorVars
  <2>2. CASE program \in Scripts
    BY <2>1, <2>2, RestKeeps
  <2>3. CASE program \notin Scripts
    BY <2>1, <2>3 DEF ScriptInv
  <2> QED BY <2>2, <2>3
<1> QED BY <1>1, <1>2, <1>3, <1>4 DEF Next, HostNext, RunnerNext, WaitFails

(* Nothing is written at first, and what is read is an export.             *)
LEMMA InitScript == ASSUME Init PROVE ScriptInv
<1> SUFFICES ASSUME program \in Scripts PROVE ScriptInv
  BY DEF ScriptInv
<1>1. /\ moduli \in TowerModuli /\ pc = "prepare" /\ outcome = "running" /\ pair = 0
      /\ coefficient = 0 /\ payload = <<>> /\ expectedWords = <<>>
      /\ ciphertexts \in CiphertextCounts
      /\ export = OpenFHE \/ \E x \in Entries(TowerCount) : export = Damaged(OpenFHE, x)
  BY DEF Init, PlatformInit, VectorInit
<1>2. OpenFHE \in [Entries(TowerCount) -> Nat]
  BY <1>1, OpenFHETyped
<1>3. export \in [Entries(TowerCount) -> Nat]
  <2>1. ASSUME NEW x \in Entries(TowerCount)
        PROVE  Damaged(OpenFHE, x) \in [Entries(TowerCount) -> Nat]
    <3>1. PICK q \in Nat \ {0} : q = moduli[x[2] + 1]
      <4>1. x[2] \in 0..(TowerCount - 1)
        BY DEF Entries
      <4>2. moduli \in Seq(Nat \ {0}) /\ x[2] + 1 \in 1..Len(moduli)
        BY <1>1, <4>1, PlatformAssumption, PairTowers DEF TowerCount
      <4> QED BY <4>2
    <3>2. PICK a \in Nat : a = OpenFHE[x]
      BY <1>2
    <3>3. (a + 1) % q \in Nat
      OBVIOUS
    <3> QED BY <1>2, <3>1, <3>2, <3>3 DEF Damaged
  <2> QED BY <1>1, <1>2, <2>1
<1>4. ScriptTyped
  <2>1. PairCount \in Nat \ {0} /\ Coefficients \in Nat \ {0} /\ ciphertexts \in Nat
    BY <1>1, PairTowers, VectorAssumption
  <2> QED BY <1>1, <1>3, <2>1 DEF ScriptTyped, Coefs
<1>5. Packed(At2(pair, coefficient))
  <2>1. At2(pair, coefficient) = 0
    BY <1>1, VectorAssumption DEF At2
  <2>2. WordWidth \in Nat /\ OutputWidth \in Nat
    BY <1>4, WidthsTyped
  <2>3. \A p \in 0..(PairCount - 1), c \in Coefs : ~(At2(p, c) < 0)
    <3> TAKE p \in 0..(PairCount - 1), c \in Coefs
    <3>1. p \in Nat
      BY <1>1, PairTowers
    <3>2. At2(p, c) \in Nat
      BY <3>1, PlaceUnique
    <3> QED BY <3>2
  <2> QED BY <1>1, <2>1, <2>2, <2>3 DEF Packed
<1> QED BY <1>1, <1>4, <1>5 DEF ScriptInv

-----------------------------------------------------------------------------
(* A pair's share of what a script has written.                            *)
LEMMA ShareIs ==
  ASSUME ScriptTyped, NEW A, NEW s, NEW width \in Nat,
         Blocks(s, A, PairCount * Coefficients, width), NEW p \in 0..(PairCount - 1)
  PROVE  /\ Len(Share(s, p)) = Coefficients * width
         /\ \A c \in Coefs : \A x :
              Embeds(s, At2(p, c) * width, x, width) => Embeds(Share(s, p), c * width, x, width)
<1>1. PICK n \in Nat \ {0}, count \in Nat \ {0}, size \in Nat :
        n = Coefficients /\ count = PairCount /\ size = n * width
  <2>1. Coefficients * width \in Nat
    BY VectorAssumption
  <2> QED BY <2>1, PairTowers, VectorAssumption DEF ScriptTyped
<1>2. s \in Seq(A) /\ Len(s) = count * size
  <2>1. (count * n) * width = count * (n * width)
    OBVIOUS
  <2> QED BY <1>1, <2>1 DEF Blocks
<1>3. Len(s) \div count = size
  <2>1. \A k \in Nat : (count * k) \div count = k
    OBVIOUS
  <2> QED BY <1>2, <2>1
<1>4. PICK start \in Nat, end \in Nat :
        /\ start = p * size /\ end = (p + 1) * size /\ end = start + size /\ end <= Len(s)
  <2>1. \A i, j, k \in Nat : i + 1 <= j => i * k + k <= j * k /\ i * k \in Nat
    OBVIOUS
  <2>2. p \in Nat /\ p + 1 <= count
    BY <1>1
  <2>3. p * size + size <= count * size /\ p * size \in Nat
    BY <2>1, <2>2
  <2>4. (p + 1) * size = p * size + size
    BY <2>2
  <2> QED BY <1>2, <2>3, <2>4
<1>5. Share(s, p) = SubSeq(s, start + 1, end)
  BY <1>1, <1>3, <1>4 DEF Share
<1>6. /\ Len(Share(s, p)) = size
      /\ \A k \in 1..size : Share(s, p)[k] = s[start + k]
  <2>1. /\ Len(SubSeq(s, start + 1, end)) = end - start
        /\ \A k \in 1..(end - start) : SubSeq(s, start + 1, end)[k] = s[start + k]
    BY <1>2, <1>4
  <2> QED BY <1>4, <1>5, <2>1
<1>7. ASSUME NEW c \in Coefs, NEW x, Embeds(s, At2(p, c) * width, x, width)
      PROVE  Embeds(Share(s, p), c * width, x, width)
  <2>1. PICK k \in Nat : k = c * width /\ k + width <= size
    <3>1. \A i, j, l \in Nat : i + 1 <= j => i * l + l <= j * l /\ i * l \in Nat
      OBVIOUS
    <3>2. c \in Nat /\ c + 1 <= n
      BY <1>1 DEF Coefs
    <3>3. c * width + width <= n * width /\ c * width \in Nat
      BY <3>1, <3>2
    <3> QED BY <1>1, <3>3
  <2>2. At2(p, c) * width = start + k
    <3>1. p \in Nat /\ c \in Nat
      BY <1>1 DEF Coefs
    <3>2. (p * n + c) * width = p * (n * width) + c * width
      BY <3>1
    <3> QED BY <1>1, <1>4, <2>1, <3>2 DEF At2
  <2>3. ASSUME NEW j \in 1..width PROVE Share(s, p)[k + j] = x[j]
    <3>1. k + j \in 1..size /\ start + (k + j) = (start + k) + j
      BY <2>1
    <3>2. s[(start + k) + j] = x[j]
      BY <1>7, <2>2 DEF Embeds
    <3> QED BY <1>6, <3>1, <3>2
  <2> QED BY <2>1, <2>3 DEF Embeds
<1> QED BY <1>1, <1>6, <1>7

(* An answer to what a script wrote is the word it wrote beside it.        *)
LEMMA AnswersExpected ==
  ASSUME ScriptTyped, Packed(PairCount * Coefficients), program \in Scripts,
         Major => ciphertexts # 0 /\ export = OpenFHE,
         NEW p \in 0..(PairCount - 1), NEW n \in 1..Len(Share(expectedWords, p))
  PROVE  Answer(Share(payload, p), PairModuli(p), n - 1) = Share(expectedWords, p)[n]
<1> DEFINE w == Share(payload, p)
           outputs == Share(expectedWords, p)
<1>1. /\ moduli \in TowerModuli /\ export \in [Entries(TowerCount) -> Nat] /\ ciphertexts \in Nat
  BY DEF ScriptTyped
<1>2. PICK a \in Nat, u \in Nat, size \in Nat :
        a = WordWidth /\ u = OutputWidth /\ size = Coefficients
  BY WidthsTyped, VectorAssumption
<1>3. Blocks(payload, Vec, PairCount * Coefficients, a)
      /\ Blocks(expectedWords, Vec, PairCount * Coefficients, u)
  BY <1>2 DEF Packed, Blocks
<1>4. /\ Len(outputs) = size * u
      /\ \A c \in Coefs : \A x :
           /\ Embeds(payload, At2(p, c) * a, x, a) => Embeds(w, c * a, x, a)
           /\ Embeds(expectedWords, At2(p, c) * u, x, u) => Embeds(outputs, c * u, x, u)
  BY <1>2, <1>3, ShareIs
<1>5. u \in Nat \ {0}
  <2>1. Major => ciphertexts * 2 # 0
    BY <1>1
  <2> QED BY <1>2, <2>1 DEF OutputWidth
<1>6. PICK k \in Nat : k = n - 1 /\ n = k + 1 /\ n \in 1..(size * u)
  BY <1>4
<1> HIDE DEF w, outputs
<1>7. PICK c \in Coefs, r \in 0..(u - 1) :
        c = k \div u /\ r = k % u /\ k = c * u + r
  <2>1. /\ (n - 1) \div u \in 0..(size - 1) /\ (n - 1) % u \in 0..(u - 1)
        /\ n - 1 = ((n - 1) \div u) * u + ((n - 1) % u)
    BY <1>5, <1>6, Places
  <2> QED BY <1>2, <1>6, <2>1 DEF Coefs
<1>8. PICK b \in Nat, at \in Nat : b = c * a /\ at = c * u
  <2>1. c \in Nat
    BY DEF Coefs
  <2>2. c * a \in Nat /\ c * u \in Nat
    BY <2>1
  <2> QED BY <2>2
<1>9. BlockDone(p, c, At2(p, c))
  <2>1. At2(p, c) < PairCount * Coefficients
    <3>1. PICK i \in Nat, j \in Nat, m \in Nat, l \in Nat :
            i = p /\ j = PairCount /\ m = c /\ l = Coefficients /\ i + 1 <= j /\ m < l
      <4>1. PairCount \in Nat \ {0}
        BY <1>1, PairTowers
      <4>2. p \in Nat /\ p + 1 <= PairCount
        BY <4>1
      <4>3. c \in Nat /\ c < Coefficients
        BY VectorAssumption DEF Coefs
      <4> QED BY <4>1, <4>2, <4>3, VectorAssumption
    <3>2. \A x, y, z \in Nat : x + 1 <= y => x * z + z <= y * z /\ x * z \in Nat /\ y * z \in Nat
      OBVIOUS
    <3>3. i * l + l <= j * l /\ i * l \in Nat /\ j * l \in Nat
      BY <3>1, <3>2
    <3>4. i * l + m < j * l
      BY <3>1, <3>3
    <3> QED BY <3>1, <3>4 DEF At2
  <2> QED BY <2>1 DEF Packed
<1>10. /\ Embeds(w, b, BlockWords(p, c), a) /\ Embeds(outputs, at, BlockOutputs(p, c), u)
       /\ ~Major => BlockExact(p, c)
  BY <1>2, <1>4, <1>8, <1>9 DEF BlockDone
<1>11. outputs[n] = BlockOutputs(p, c)[r + 1]
  <2>1. r + 1 \in 1..u /\ at + (r + 1) = n
    BY <1>6, <1>7, <1>8
  <2> QED BY <1>10, <2>1 DEF Embeds
<1>12. CASE ~Major
  <2>1. u = 2 /\ BlockOutputs(p, c) = BothOutputs(p, c) /\ BlockExact(p, c)
        /\ a = CiphertextWidth(OperandCount)
        /\ BlockWords(p, c) = CiphertextWords(OperandCount, export, p, c)
    BY <1>2, <1>10, <1>12 DEF OutputWidth, BlockOutputs, WordWidth, BlockWords
  <2>2. OperandCount \in {0, 4}
    BY WidthsTyped
  <2>3. CiphertextBlock(w, b, OperandCount, export, p, c)
    BY <1>1, <1>10, <2>1, <2>2, CiphertextEmbeds
  <2>4. b = (k \div 2) * (OperandCount + 3 * Digits)
    BY <1>7, <1>8, <2>1 DEF CiphertextWidth
  <2>5. CiphertextMajorAnswer(w, OperandCount, PairModuli(p), k)
          = Computed(OperandCount, export, p, c, k % 2)
    BY <1>1, <2>2, <2>3, <2>4, CiphertextAnswer
  <2>6. Computed(OperandCount, export, p, c, k % 2) = BothOutputs(p, c)[r + 1]
    <3>1. r \in 0..1 /\ k % 2 = r
      BY <1>7, <2>1
    <3>2. r = 0 \/ r = 1
      BY <3>1
    <3>3. 0 + 1 = 1 /\ 1 + 1 = 2
      OBVIOUS
    <3> QED BY <2>1, <3>1, <3>2, <3>3 DEF BlockExact
  <2>7. Answer(w, PairModuli(p), k) = CiphertextMajorAnswer(w, OperandCount, PairModuli(p), k)
    BY <1>12 DEF Answer, OperandCount, Scripts, Major
  <2> QED BY <1>6, <1>11, <2>1, <2>5, <2>6, <2>7 DEF w, outputs
<1>13. CASE Major
  <2>1. PICK count \in Nat \ {0} : count = ciphertexts /\ u = count * 2 /\ u = 2 * count
    BY <1>1, <1>2, <1>13 DEF OutputWidth
  <2>2. /\ a = MajorWidth(count) /\ BlockWords(p, c) = MajorWords(count, export, p, c)
        /\ BlockOutputs(p, c) = Repeat(count, BothOutputs(p, c))
    BY <1>2, <1>13, <2>1 DEF WordWidth, BlockWords, BlockOutputs
  <2>3. MajorBlock(w, b, count, export, p, c)
    BY <1>1, <1>10, <2>2, MajorEmbeds
  <2>4. b = (k \div (2 * count)) * Layout!CoefficientWords(Counts(count))
    BY <1>7, <1>8, <2>1, <2>2 DEF MajorWidth
  <2>5. CoefficientMajorAnswer(w, count, PairModuli(p), k) = Computed(4, export, p, c, k % 2)
    BY <1>1, <2>3, <2>4, MajorAnswer
  <2>6. PICK component \in 0..1 : component = k % 2
    OBVIOUS
  <2>7. Computed(4, export, p, c, component) = BothOutputs(p, c)[component + 1]
    <3>1. Computed(4, export, p, c, component)
            = WordIn(export, IF component = 0 THEN "relin_c0" ELSE "relin_c1", 0, p, c)
      BY <1>1, <1>13, OpenFHEExact
    <3>2. component = 0 \/ component = 1
      OBVIOUS
    <3>3. BothOutputs(p, c)
            = <<WordIn(export, "relin_c0", 0, p, c), WordIn(export, "relin_c1", 0, p, c)>>
      BY <1>13 DEF BothOutputs, Major
    <3> QED BY <3>1, <3>2, <3>3
  <2>8. BlockOutputs(p, c)[r + 1] = BothOutputs(p, c)[component + 1]
    <3>1. Repeated(BlockOutputs(p, c), BothOutputs(p, c), Vec, count, 2)
      BY <2>2, BothOutputsTyped, RepeatIs
    <3>2. PICK i \in 1..count, j \in 1..2 : (i - 1) * 2 + j = r + 1 /\ j = component + 1
      <4>1. r % 2 = component
        <5>1. PICK m \in Nat : m = c * count
          <6>1. c \in Nat
            BY DEF Coefs
          <6>2. c * count \in Nat
            BY <6>1
          <6> QED BY <6>2
        <5>2. c * (count * 2) = 2 * (c * count)
          BY DEF Coefs
        <5>3. k = 2 * m + r
          BY <1>7, <2>1, <5>1, <5>2
        <5>4. (2 * m + r) % 2 = r % 2
          OBVIOUS
        <5> QED BY <2>6, <5>3, <5>4
      <4>2. (r \div 2) + 1 \in 1..count
        BY <2>1
      <4>3. r = 2 * (r \div 2) + (r % 2)
        OBVIOUS
      <4>4. PICK i \in 1..count : i = (r \div 2) + 1
        BY <4>2
      <4>5. PICK j \in 1..2 : j = component + 1
        OBVIOUS
      <4>6. (i - 1) * 2 + j = r + 1
        BY <4>1, <4>3, <4>4, <4>5
      <4> QED BY <4>5, <4>6
    <3>3. BlockOutputs(p, c)[(i - 1) * 2 + j] = BothOutputs(p, c)[j]
      BY <3>1 DEF Repeated
    <3> QED BY <3>2, <3>3
  <2>9. Answer(w, PairModuli(p), k) = CoefficientMajorAnswer(w, count, PairModuli(p), k)
    BY <1>13, <2>1 DEF Answer, Major
  <2> QED BY <1>6, <1>11, <2>5, <2>6, <2>7, <2>8, <2>9 DEF w, outputs
<1> QED BY <1>12, <1>13

(* A vector script that prints PASS has written, for every pair and in the *)
(* order of its core's answers, the words that core computes from the      *)
(* payload beside them, for any moduli, coefficients, digits and           *)
(* ciphertexts; and none stops on an export as OpenFHE writes it.          *)
THEOREM ScriptsPreparedExact == Spec => []PreparedExact
<1>1. ScriptInv => PreparedExact
  <2> SUFFICES ASSUME ScriptInv, program \in Scripts, pc = "ended" PROVE PreparedExact
    BY DEF PreparedExact
  <2>1. outcome = "raised" => export # OpenFHE
    BY DEF ScriptInv
  <2>2. ASSUME outcome = "passed", program = "prepare_coefficient_major" => export = OpenFHE,
               NEW p \in 0..(PairCount - 1), NEW n \in 1..Len(Share(expectedWords, p))
        PROVE  Answer(Share(payload, p), PairModuli(p), n - 1) = Share(expectedWords, p)[n]
    BY <2>2, AnswersExpected DEF ScriptInv, Major
  <2> QED BY <2>1, <2>2, Zenon DEF PreparedExact
<1>2. Init => ScriptInv
  BY InitScript
<1>3. ScriptInv /\ [Next]_HostVars => ScriptInv'
  BY ScriptInductive
<1> QED BY <1>1, <1>2, <1>3, PTL DEF Spec

-----------------------------------------------------------------------------
(* A frame is its two header words and a body.                             *)
LEMMA BodyIs ==
  ASSUME NEW A, NEW x, NEW y, NEW t \in Seq(A), NEW size \in Nat, Len(t) = size
  PROVE  /\ Len(<<x, y>> \o t) = 2 + size
         /\ \A k \in 1..size : Body(<<x, y>> \o t)[k] = t[k]
<1> DEFINE B == A \union {x, y}
           h == <<x, y>>
           f == h \o t
<1>1. h \in Seq(B) /\ Len(h) = 2
  OBVIOUS
<1>2. t \in Seq(B)
  OBVIOUS
<1> HIDE DEF B, h, f
<1>3. Joins(h \o t, h, t, B, 2, size)
  BY <1>1, <1>2, Joined
<1>4. Joins(f, h, t, B, 2, size)
  BY <1>3 DEF f
<1>5. f \in Seq(B) /\ Len(f) = 2 + size /\ \A k \in 1..size : f[2 + k] = t[k]
  BY <1>4 DEF Joins
<1>6. \A k \in 1..size : SubSeq(f, 3, Len(f))[k] = f[2 + k]
  BY <1>5
<1> QED BY <1>5, <1>6 DEF Body, f, h

(* A coefficient-major frame: the block of each coefficient in its place.  *)
LEMMA MajorFrameIs ==
  ASSUME moduli \in TowerModuli, export \in [Entries(TowerCount) -> Nat],
         NEW p \in 0..(PairCount - 1), NEW count \in Nat
  PROVE  /\ Len(FillCoefficientMajor(p, count)) = 2 + Layout!PayloadWords(Counts(count))
         /\ \A c \in Coefs :
              Embeds(Body(FillCoefficientMajor(p, count)), c * MajorWidth(count),
                     MajorWords(count, export, p, c), MajorWidth(count))
<1> DEFINE seqs == [c \in 1..Coefficients |-> MajorWords(count, export, p, c - 1)]
           t == FlattenSeq(seqs)
<1>1. PICK n \in Nat \ {0} : n = Coefficients
  BY VectorAssumption
<1>2. \A c \in Coefs : /\ MajorWords(count, export, p, c) \in Seq(Vec)
                       /\ Len(MajorWords(count, export, p, c)) = MajorWidth(count)
  BY MajorWordsAre
<1>3. PICK width \in Nat : width = MajorWidth(count)
  <2>1. 0 \in Coefs
    BY VectorAssumption DEF Coefs
  <2> QED BY <2>1, MajorWordsAre
<1>4. \A c \in 1..n : c - 1 \in Coefs
  BY <1>1 DEF Coefs
<1>5. Uniform(seqs, Vec, n, width)
  BY <1>1, <1>2, <1>3, <1>4 DEF Uniform
<1>6. \A c \in 1..n : seqs[c] = MajorWords(count, export, p, c - 1)
  BY <1>1
<1>7. FillCoefficientMajor(p, count) = <<"command", <<count, Digits>>>> \o t
  BY DEF FillCoefficientMajor, Header, MajorWords, OperandSeq
<1> HIDE DEF seqs
<1>8. Concatenates(t, seqs, Vec, n, width)
  BY <1>1, <1>3, <1>5, FlattenUniform
<1> HIDE DEF t
<1>9. PICK size \in Nat : size = n * width
  <2>1. n * width \in Nat
    OBVIOUS
  <2> QED BY <2>1
<1>10. t \in Seq(Vec) /\ Len(t) = size
  BY <1>8, <1>9 DEF Concatenates
<1>11. /\ Len(FillCoefficientMajor(p, count)) = 2 + size
       /\ \A k \in 1..size : Body(FillCoefficientMajor(p, count))[k] = t[k]
  BY <1>7, <1>10, BodyIs
<1>12. size = Layout!PayloadWords(Counts(count))
  BY <1>1, <1>3, <1>9 DEF Layout!PayloadWords, MajorWidth
<1>13. ASSUME NEW c \in Coefs, NEW j \in 1..width
       PROVE  Body(FillCoefficientMajor(p, count))[c * width + j]
                = MajorWords(count, export, p, c)[j]
  <2>1. PICK i \in 1..n : i = c + 1 /\ i - 1 = c
    BY <1>1 DEF Coefs
  <2>2. t[(i - 1) * width + j] = seqs[i][j]
    BY <1>8 DEF Concatenates
  <2>3. c * width + j \in 1..size
    <3>1. \A x, y, z \in Nat : x + 1 <= y => x * z + z <= y * z /\ x * z \in Nat
      OBVIOUS
    <3>2. c \in Nat /\ c + 1 <= n
      BY <1>1 DEF Coefs
    <3>3. c * width + width <= n * width /\ c * width \in Nat
      BY <3>1, <3>2
    <3> QED BY <1>9, <3>3
  <2> QED BY <1>6, <1>11, <2>1, <2>2, <2>3
<1> QED BY <1>3, <1>11, <1>12, <1>13 DEF Embeds

(* A row of a ciphertext-major payload holds operands, then digit triples. *)
LEMMA ColumnsAre ==
  ASSUME NEW p, NEW c
  PROVE  /\ Column(p, c, 0) = WordIn(export, "a0", 0, p, c)
         /\ Column(p, c, 1) = WordIn(export, "a1", 0, p, c)
         /\ Column(p, c, 2) = WordIn(export, "b0", 0, p, c)
         /\ Column(p, c, 3) = WordIn(export, "b1", 0, p, c)
         /\ \A d \in DigitIndices :
              /\ Column(p, c, 4 + 3 * d) = WordIn(export, "digit", d, p, c)
              /\ Column(p, c, 4 + 3 * d + 1) = WordIn(export, "key_b", d, p, c)
              /\ Column(p, c, 4 + 3 * d + 2) = WordIn(export, "key_a", d, p, c)
<1> DEFINE names == <<"a0", "a1", "b0", "b1">>
           keys == <<"digit", "key_b", "key_a">>
<1>1. /\ names[1] = "a0" /\ names[2] = "a1" /\ names[3] = "b0" /\ names[4] = "b1"
      /\ keys[1] = "digit" /\ keys[2] = "key_b" /\ keys[3] = "key_a"
  OBVIOUS
<1>2. \A k \in 0..3 : Column(p, c, k) = WordIn(export, names[k + 1], 0, p, c)
  BY DEF Column
<1>3. ASSUME NEW k \in Nat, k >= 4
      PROVE  Column(p, c, k)
               = WordIn(export, keys[1 + ((k - 4) % 3)], (k - 4) \div 3, p, c)
  BY <1>3 DEF Column
<1> HIDE DEF names, keys
<1>4. /\ Column(p, c, 0) = WordIn(export, names[1], 0, p, c)
      /\ Column(p, c, 1) = WordIn(export, names[2], 0, p, c)
      /\ Column(p, c, 2) = WordIn(export, names[3], 0, p, c)
      /\ Column(p, c, 3) = WordIn(export, names[4], 0, p, c)
  <2>1. 0 + 1 = 1 /\ 1 + 1 = 2 /\ 2 + 1 = 3 /\ 3 + 1 = 4 /\ {0, 1, 2, 3} \subseteq 0..3
    OBVIOUS
  <2> QED BY <1>2, <2>1
<1>5. ASSUME NEW d \in DigitIndices, NEW e \in 0..2
      PROVE  Column(p, c, 4 + 3 * d + e) = WordIn(export, keys[1 + e], d, p, c)
  <2>1. PICK k \in Nat : k = 4 + 3 * d + e /\ k >= 4
    BY DEF DigitIndices
  <2>2. (k - 4) % 3 = e /\ (k - 4) \div 3 = d
    BY <2>1 DEF DigitIndices
  <2> QED BY <1>3, <2>1, <2>2
<1>6. ASSUME NEW d \in DigitIndices
      PROVE  /\ Column(p, c, 4 + 3 * d) = WordIn(export, keys[1], d, p, c)
             /\ Column(p, c, 4 + 3 * d + 1) = WordIn(export, keys[2], d, p, c)
             /\ Column(p, c, 4 + 3 * d + 2) = WordIn(export, keys[3], d, p, c)
  <2>0. 0 \in 0..2 /\ 1 \in 0..2 /\ 2 \in 0..2
    OBVIOUS
  <2>1. /\ Column(p, c, 4 + 3 * d + 0) = WordIn(export, keys[1 + 0], d, p, c)
        /\ Column(p, c, 4 + 3 * d + 1) = WordIn(export, keys[1 + 1], d, p, c)
        /\ Column(p, c, 4 + 3 * d + 2) = WordIn(export, keys[1 + 2], d, p, c)
    BY <1>5, <2>0, Zenon
  <2>2. 4 + 3 * d + 0 = 4 + 3 * d /\ 1 + 0 = 1 /\ 1 + 1 = 2 /\ 1 + 2 = 3
    BY DEF DigitIndices
  <2> QED BY <2>1, <2>2
<1> QED BY <1>1, <1>4, <1>6

(* Quotient and remainder of a place told as row and column.               *)
LEMMA RowColumn ==
  ASSUME NEW d \in Nat \ {0}, NEW i \in Nat, NEW r \in 0..(d - 1)
  PROVE  (i * d + r) \div d = i /\ (i * d + r) % d = r
<1>1. PICK k \in Nat : k = i * d + r
  <2>1. i * d \in Nat
    OBVIOUS
  <2>2. i * d + r \in Nat
    BY <2>1
  <2> QED BY <2>2
<1>2. PICK q \in Nat, s \in 0..(d - 1) : q = k \div d /\ s = k % d /\ k = d * q + s
  <2>1. k \div d \in Nat /\ k % d \in 0..(d - 1) /\ k = d * (k \div d) + (k % d)
    OBVIOUS
  <2> QED BY <2>1
<1>3. \A x, y \in Nat : x < y => x * d + d <= y * d
  <2> TAKE x, y \in Nat
  <2> HAVE x < y
  <2>1. x + 1 <= y
    OBVIOUS
  <2>2. \A a, b, c \in Nat : a + 1 <= b => a * c + c <= b * c
    OBVIOUS
  <2> QED BY <2>1, <2>2
<1>4. PICK m \in Nat, n \in Nat : m = i * d /\ n = q * d /\ n = d * q
  <2>1. i * d \in Nat /\ q * d \in Nat /\ q * d = d * q
    OBVIOUS
  <2> QED BY <2>1
<1>5. m + r = n + s
  BY <1>1, <1>2, <1>4
<1>6. ~(i < q)
  <2> SUFFICES ASSUME i < q PROVE FALSE
    OBVIOUS
  <2>1. m + d <= n
    BY <1>3, <1>4
  <2> QED BY <1>5, <2>1
<1>7. ~(q < i)
  <2> SUFFICES ASSUME q < i PROVE FALSE
    OBVIOUS
  <2>1. n + d <= m
    BY <1>3, <1>4
  <2> QED BY <1>5, <2>1
<1>8. i = q /\ r = s
  <2>1. i = q
    BY <1>6, <1>7
  <2>2. m = n
    BY <1>4, <2>1
  <2> QED BY <1>5, <2>1, <2>2
<1> QED BY <1>1, <1>2, <1>8

(* A column of a row is a word.                                            *)
LEMMA ColumnTyped ==
  ASSUME moduli \in TowerModuli, export \in [Entries(TowerCount) -> Nat],
         NEW p \in 0..(PairCount - 1), NEW c \in Coefs, NEW k \in 0..(Columns - 1)
  PROVE  Column(p, c, k) \in Vec
<1>1. /\ \A n \in OperandNames : WordIn(export, n, 0, p, c) \in Vec
      /\ \A n \in {"digit", "key_b", "key_a"}, d \in DigitIndices :
           WordIn(export, n, d, p, c) \in Vec
  BY BlockWordsTyped
<1>2. CASE k < 4
  <2>1. k = 0 \/ k = 1 \/ k = 2 \/ k = 3
    BY <1>2
  <2> QED BY <1>1, <2>1, ColumnsAre DEF OperandNames
<1>3. CASE ~(k < 4)
  <2>1. PICK d \in DigitIndices, e \in 0..2 : k = 4 + 3 * d + e
    <3>1. PICK size \in Nat : size = Digits /\ k - 4 \in 0..(3 * size - 1)
      BY <1>3, VectorAssumption DEF Columns
    <3>2. /\ (k - 4) \div 3 \in 0..(size - 1) /\ (k - 4) % 3 \in 0..2
          /\ k = 4 + 3 * ((k - 4) \div 3) + ((k - 4) % 3)
      BY <1>3, <3>1
    <3> QED BY <3>1, <3>2 DEF DigitIndices
  <2>2. k = 4 + 3 * d \/ k = 4 + 3 * d + 1 \/ k = 4 + 3 * d + 2
    BY <2>1 DEF DigitIndices
  <2> QED BY <1>1, <2>2, ColumnsAre
<1> QED BY <1>2, <1>3

(* A ciphertext's payload is its rows, column by column.                   *)
LEMMA SinglePayloadIs ==
  ASSUME moduli \in TowerModuli, export \in [Entries(TowerCount) -> Nat],
         NEW p \in 0..(PairCount - 1)
  PROVE  /\ SinglePayload(p) \in Seq(Vec) /\ Len(SinglePayload(p)) = Coefficients * Columns
         /\ \A c \in Coefs, j \in 1..Columns :
              SinglePayload(p)[c * Columns + j] = Column(p, c, j - 1)
<1>1. PICK n \in Nat \ {0}, m \in Nat \ {0}, size \in Nat :
        n = Coefficients /\ m = Columns /\ size = n * m
  <2>1. Columns \in Nat \ {0} /\ Coefficients \in Nat \ {0}
    BY VectorAssumption DEF Columns
  <2>2. Coefficients * Columns \in Nat
    BY <2>1
  <2> QED BY <2>1, <2>2
<1>2. SinglePayload(p) = [k \in 1..size |-> Column(p, (k - 1) \div m, (k - 1) % m)]
  BY <1>1 DEF SinglePayload
<1>3. ASSUME NEW k \in 1..size PROVE Column(p, (k - 1) \div m, (k - 1) % m) \in Vec
  <2>1. (k - 1) \div m \in 0..(n - 1) /\ (k - 1) % m \in 0..(m - 1)
    BY <1>1, Places
  <2> QED BY <1>1, <2>1, ColumnTyped DEF Coefs
<1>4. SinglePayload(p) \in Seq(Vec) /\ Len(SinglePayload(p)) = size
  BY <1>2, <1>3
<1>5. ASSUME NEW c \in Coefs, NEW j \in 1..m
      PROVE  SinglePayload(p)[c * m + j] = Column(p, c, j - 1)
  <2>1. PICK r \in 0..(m - 1) : r = j - 1 /\ j = r + 1
    OBVIOUS
  <2>2. PICK x \in Nat : x = c * m /\ x + m <= size
    <3>1. \A a, b, l \in Nat : a + 1 <= b => a * l + l <= b * l /\ a * l \in Nat
      OBVIOUS
    <3>2. c \in Nat /\ c + 1 <= n
      BY <1>1 DEF Coefs
    <3>3. c * m + m <= n * m /\ c * m \in Nat
      BY <3>1, <3>2
    <3> QED BY <1>1, <3>3
  <2>3. (x + r) \div m = c /\ (x + r) % m = r
    <3>1. c \in Nat
      BY DEF Coefs
    <3> QED BY <2>2, <3>1, RowColumn
  <2>4. x + j \in 1..size /\ (x + j) - 1 = x + r
    BY <2>1, <2>2
  <2>5. SinglePayload(p)[x + j] = Column(p, ((x + j) - 1) \div m, ((x + j) - 1) % m)
    BY <1>2, <2>4
  <2> QED BY <2>1, <2>2, <2>3, <2>4, <2>5
<1> QED BY <1>1, <1>4, <1>5

(* The words of a row are those a ciphertext-major core reads.             *)
LEMMA RowFeeds ==
  ASSUME NEW p, NEW c, NEW w, NEW first \in Nat,
         \A j \in 1..Columns : w[first + j] = Column(p, c, j - 1)
  PROVE  CiphertextBlock(w, first, 4, export, p, c)
<1>1. PICK m \in Nat : m = 3 * Digits /\ Columns = 4 + m
  BY VectorAssumption DEF Columns
<1>2. ASSUME NEW j \in Nat, j \in 1..(4 + m), NEW k, k = j - 1 PROVE w[first + j] = Column(p, c, k)
  BY <1>1, <1>2
<1>3. OperandsAt(w, first, export, p, c)
  <2>1. /\ w[first + 1] = Column(p, c, 0) /\ w[first + 2] = Column(p, c, 1)
        /\ w[first + 3] = Column(p, c, 2) /\ w[first + 4] = Column(p, c, 3)
    BY <1>2
  <2> QED BY <2>1, ColumnsAre DEF OperandsAt
<1>4. ASSUME NEW d \in DigitIndices PROVE TripleAt(w, first + 4 + 3 * d, export, p, c, d)
  <2>1. PICK k \in Nat : k = 4 + 3 * d /\ k + 3 <= 4 + m /\ first + 4 + 3 * d = first + k
    BY <1>1, VectorAssumption DEF DigitIndices
  <2>2. /\ w[first + (k + 1)] = Column(p, c, k) /\ w[first + (k + 2)] = Column(p, c, k + 1)
        /\ w[first + (k + 3)] = Column(p, c, k + 2)
    BY <1>2, <2>1
  <2>3. /\ first + (k + 1) = first + k + 1 /\ first + (k + 2) = first + k + 2
        /\ first + (k + 3) = first + k + 3
    OBVIOUS
  <2>4. TripleAt(w, first + k, export, p, c, d)
    BY <2>1, <2>2, <2>3, ColumnsAre DEF TripleAt
  <2> QED BY <2>1, <2>4
<1> QED BY <1>3, <1>4 DEF CiphertextBlock, OperandsIfAny

(* A batch frame: the payload of one ciphertext after another.             *)
LEMMA BatchFrameIs ==
  ASSUME moduli \in TowerModuli, export \in [Entries(TowerCount) -> Nat],
         NEW p \in 0..(PairCount - 1), NEW count \in Nat
  PROVE  /\ Len(FillBatchFrame(p, count)) = 2 + count * Coefficients * (4 + 3 * Digits)
         /\ \A h \in 0..(count - 1), c \in Coefs :
              CiphertextBlock(Body(FillBatchFrame(p, count)), At2(h, c) * (4 + 3 * Digits), 4,
                              export, p, c)
<1> DEFINE row == SinglePayload(p)
           t == Repeat(count, row)
<1>1. PICK n \in Nat \ {0}, m \in Nat \ {0}, width \in Nat, size \in Nat :
        /\ n = Coefficients /\ m = Columns /\ m = 4 + 3 * Digits
        /\ width = n * m /\ size = count * width /\ size = count * n * m
  <2>1. Columns \in Nat \ {0} /\ Coefficients \in Nat \ {0} /\ Columns = 4 + 3 * Digits
    BY VectorAssumption DEF Columns
  <2>2. \A x, y, z \in Nat : x * y \in Nat /\ x * (y * z) = x * y * z
    OBVIOUS
  <2>3. Coefficients * Columns \in Nat /\ count * (Coefficients * Columns) \in Nat
    BY <2>1, <2>2
  <2>4. count * (Coefficients * Columns) = count * Coefficients * Columns
    BY <2>1, <2>2
  <2> QED BY <2>1, <2>3, <2>4, Zenon
<1>2. /\ row \in Seq(Vec) /\ Len(row) = width
      /\ \A c \in Coefs, j \in 1..m : row[c * m + j] = Column(p, c, j - 1)
  BY <1>1, SinglePayloadIs
<1> HIDE DEF row
<1>3. Repeated(t, row, Vec, count, width)
  BY <1>2, RepeatIs
<1>4. FillBatchFrame(p, count) = <<"command", <<count, Digits>>>> \o t
  BY DEF FillBatchFrame, Header, row
<1> HIDE DEF t
<1>5. t \in Seq(Vec) /\ Len(t) = size
  BY <1>1, <1>3 DEF Repeated
<1>6. /\ Len(FillBatchFrame(p, count)) = 2 + size
      /\ \A k \in 1..size : Body(FillBatchFrame(p, count))[k] = t[k]
  BY <1>4, <1>5, BodyIs
<1>7. ASSUME NEW h \in 0..(count - 1), NEW c \in Coefs
      PROVE  CiphertextBlock(Body(FillBatchFrame(p, count)), At2(h, c) * (4 + 3 * Digits), 4,
                             export, p, c)
  <2>1. h \in Nat /\ c \in Nat /\ h + 1 <= count /\ c + 1 <= n
    BY <1>1 DEF Coefs
  <2>2. \A x, y, z \in Nat : x + 1 <= y => x * z + z <= y * z /\ x * z \in Nat
    OBVIOUS
  <2>3. PICK a \in Nat : a = h * width /\ a + width <= size
    <3>1. h * width + width <= count * width /\ h * width \in Nat
      BY <2>1, <2>2
    <3> QED BY <1>1, <3>1
  <2>4. PICK b \in Nat : b = c * m /\ b + m <= width
    <3>1. c * m + m <= n * m /\ c * m \in Nat
      BY <2>1, <2>2
    <3> QED BY <1>1, <3>1
  <2>5. PICK first \in Nat : first = At2(h, c) * (4 + 3 * Digits) /\ first = a + b
    <3>1. (h * n + c) * m = h * (n * m) + c * m
      BY <2>1
    <3> QED BY <1>1, <2>3, <2>4, <3>1 DEF At2
  <2>6. ASSUME NEW j \in 1..m
        PROVE  Body(FillBatchFrame(p, count))[first + j] = Column(p, c, j - 1)
    <3>1. PICK k \in 1..width : k = b + j
      BY <2>4
    <3>2. first + j \in 1..size /\ first + j = a + k
      BY <2>3, <2>5, <3>1
    <3>3. PICK i \in 1..count : i = h + 1 /\ i - 1 = h
      BY <2>1
    <3>4. t[(i - 1) * width + k] = row[k]
      BY <1>3 DEF Repeated
    <3>5. row[k] = Column(p, c, j - 1)
      BY <1>2, <2>4, <3>1
    <3> QED BY <1>6, <2>3, <3>2, <3>3, <3>4, <3>5
  <2>7. \A j \in 1..Columns : Body(FillBatchFrame(p, count))[first + j] = Column(p, c, j - 1)
    BY <1>1, <2>6
  <2> QED BY <2>5, <2>7, RowFeeds
<1> QED BY <1>1, <1>6, <1>7

(* The answers to a frame stand where its runner looks for them.           *)
LEMMA ExpectedIs ==
  ASSUME moduli \in TowerModuli, export = OpenFHE,
         NEW p \in 0..(PairCount - 1), NEW c \in Coefs, NEW n \in Nat
  PROVE  Computed(4, export, p, c, n % 2) = Expected(p, c, n % 2)
<1>1. n % 2 \in 0..1
  OBVIOUS
<1> QED BY <1>1, OpenFHEExact DEF Expected

(* A coefficient-major core's answer n is what its runner compares it with.*)
LEMMA MajorFrameAnswer ==
  ASSUME moduli \in TowerModuli, export = OpenFHE,
         NEW p \in 0..(PairCount - 1), NEW count \in Nat,
         NEW n \in Indices(Layout!OutputWords(Counts(count)))
  PROVE  CoefficientMajorAnswer(Body(FillCoefficientMajor(p, count)), count, PairModuli(p), n)
           = ValidateCoefficientMajor(p, count, n)
<1> DEFINE w == Body(FillCoefficientMajor(p, count))
<1>1. export \in [Entries(TowerCount) -> Nat]
  BY OpenFHETyped
<1>2. PICK size \in Nat \ {0} : size = Coefficients
  BY VectorAssumption
<1>3. PICK u \in Nat : u = 2 * count
  OBVIOUS
<1>4. n \in 0..(size * u - 1) /\ n \in Nat
  <2>1. Layout!OutputWords(Counts(count)) = 2 * size * count
    BY <1>2 DEF Layout!OutputWords, Counts
  <2>2. 2 * size * count = size * (2 * count) /\ size * (2 * count) \in Nat
    OBVIOUS
  <2> QED BY <1>3, <2>1, <2>2 DEF Indices
<1>5. count # 0 /\ u # 0
  <2>1. count = 0 => size * u = 0
    BY <1>3
  <2> QED BY <1>3, <1>4, <2>1
<1>6. PICK c \in Coefs : c = n \div u
  <2>1. PICK k \in 1..(size * u) : k = n + 1 /\ k - 1 = n
    BY <1>4
  <2>2. (k - 1) \div u \in 0..(size - 1)
    BY <1>5, Places
  <2> QED BY <1>2, <2>1, <2>2 DEF Coefs
<1>7. PICK a \in Nat, base \in Nat : a = MajorWidth(count) /\ base = c * a
  <2>1. MajorWidth(count) \in Nat /\ c \in Nat
    BY <1>1, MajorWordsAre DEF Coefs
  <2>2. c * MajorWidth(count) \in Nat
    BY <2>1
  <2> QED BY <2>1, <2>2
<1>8. Embeds(w, base, MajorWords(count, export, p, c), MajorWidth(count))
  BY <1>1, <1>7, MajorFrameIs
<1> HIDE DEF w
<1>9. MajorBlock(w, base, count, export, p, c)
  BY <1>1, <1>8, MajorEmbeds
<1>10. base = (n \div (2 * count)) * Layout!CoefficientWords(Counts(count))
  BY <1>3, <1>6, <1>7 DEF MajorWidth
<1>11. CoefficientMajorAnswer(w, count, PairModuli(p), n) = Computed(4, export, p, c, n % 2)
  <2>1. count \in Nat \ {0}
    BY <1>5
  <2> QED BY <1>1, <1>4, <1>9, <1>10, <2>1, MajorAnswer
<1>12. Computed(4, export, p, c, n % 2) = Expected(p, c, n % 2)
  BY <1>4, ExpectedIs
<1> QED BY <1>3, <1>6, <1>11, <1>12 DEF ValidateCoefficientMajor, w

(* A ciphertext-major core's answer n is what its runner compares it with. *)
LEMMA BatchFrameAnswer ==
  ASSUME moduli \in TowerModuli, export = OpenFHE,
         NEW p \in 0..(PairCount - 1), NEW count \in Nat,
         NEW n \in Indices(Layout!OutputWords(Counts(count)))
  PROVE  CiphertextMajorAnswer(Body(FillBatchFrame(p, count)), 4, PairModuli(p), n)
           = ValidateBatch(p, n)
<1> DEFINE w == Body(FillBatchFrame(p, count))
<1>1. export \in [Entries(TowerCount) -> Nat]
  BY OpenFHETyped
<1>2. PICK size \in Nat \ {0} : size = Coefficients
  BY VectorAssumption
<1>3. PICK r \in Nat, b \in 0..1 : r = n \div 2 /\ b = n % 2 /\ n = 2 * r + b /\ r < count * size
  <2>1. Layout!OutputWords(Counts(count)) = 2 * size * count
    BY <1>2 DEF Layout!OutputWords, Counts
  <2>2. 2 * size * count = 2 * (count * size) /\ count * size \in Nat
    OBVIOUS
  <2>3. PICK m \in Nat : m = count * size
    BY <2>2
  <2>4. n \in 0..(2 * m - 1)
    BY <2>1, <2>2, <2>3 DEF Indices
  <2>5. n \div 2 \in Nat /\ n % 2 \in 0..1 /\ n = 2 * (n \div 2) + (n % 2) /\ n \div 2 < m
    BY <2>4
  <2> QED BY <2>3, <2>5
<1>4. PICK h \in 0..(count - 1), c \in Coefs : r = h * size + c
  <2>1. PICK k \in 1..(count * size) : k = r + 1 /\ k - 1 = r
    <3>1. count * size \in Nat
      OBVIOUS
    <3> QED BY <1>3, <3>1
  <2>2. /\ (k - 1) \div size \in 0..(count - 1) /\ (k - 1) % size \in 0..(size - 1)
        /\ k - 1 = ((k - 1) \div size) * size + ((k - 1) % size)
    BY Places
  <2> QED BY <1>2, <2>1, <2>2 DEF Coefs
<1>5. h \in Nat /\ c \in Nat /\ c < size
  BY <1>2 DEF Coefs
<1>6. n \in Nat
  BY <1>3
<1>7. PICK first \in Nat :
        first = (n \div 2) * (4 + 3 * Digits) /\ first = At2(h, c) * (4 + 3 * Digits)
  <2>1. At2(h, c) = r
    BY <1>2, <1>4 DEF At2
  <2>2. PICK m \in Nat : m = 4 + 3 * Digits
    BY VectorAssumption
  <2>3. r * m \in Nat
    OBVIOUS
  <2> QED BY <1>3, <2>1, <2>2, <2>3
<1>8. CiphertextBlock(w, first, 4, export, p, c)
  BY <1>1, <1>7, BatchFrameIs
<1> HIDE DEF w
<1>9. CiphertextMajorAnswer(w, 4, PairModuli(p), n) = Computed(4, export, p, c, n % 2)
  BY <1>1, <1>6, <1>7, <1>8, CiphertextAnswer
<1>10. Computed(4, export, p, c, n % 2) = Expected(p, c, n % 2)
  BY <1>6, ExpectedIs
<1>11. (n % (2 * Coefficients)) \div 2 = c
  <2>0. PICK d \in Nat \ {0} : d = 2 * Coefficients
    BY <1>2
  <2>1. PICK s \in 0..(d - 1) : s = 2 * c + b
    BY <1>2, <1>3, <1>5, <2>0
  <2>2. n = h * d + s
    <3>1. 2 * (h * size + c) + b = h * (2 * size) + (2 * c + b)
      BY <1>5
    <3> QED BY <1>2, <1>3, <1>4, <2>0, <2>1, <3>1
  <2>3. n % d = s
    BY <1>5, <2>2, RowColumn
  <2>4. s \div 2 = c
    BY <1>5, <2>1
  <2> QED BY <2>0, <2>3, <2>4
<1> QED BY <1>9, <1>10, <1>11 DEF ValidateBatch, w

(* The frame a relinearization runner builds for an export as OpenFHE      *)
(* writes it is the one its core takes, and each of the core's answers is  *)
(* the residue in the element of the comparison array it is held against,  *)
(* for any moduli, coefficients, digits and ciphertexts.                   *)
THEOREM ScriptsFeedCores == Spec => []FramesFeedCores
<1>1. ScriptInv => FramesFeedCores
  <2> SUFFICES ASSUME ScriptInv, program \in Scripts, export = OpenFHE,
                      NEW p \in 0..(PairCount - 1), NEW count \in CiphertextCounts
               PROVE  /\ Len(FillCoefficientMajor(p, count))
                           = 2 + Layout!PayloadWords(Counts(count))
                      /\ Len(FillBatchFrame(p, count))
                           = 2 + count * Coefficients * (4 + 3 * Digits)
                      /\ \A n \in Indices(Layout!OutputWords(Counts(count))) :
                           /\ CoefficientMajorAnswer(Body(FillCoefficientMajor(p, count)), count,
                                                     PairModuli(p), n)
                                = ValidateCoefficientMajor(p, count, n)
                           /\ CiphertextMajorAnswer(Body(FillBatchFrame(p, count)), 4,
                                                    PairModuli(p), n)
                                = ValidateBatch(p, n)
    BY Zenon DEF FramesFeedCores, Counts
  <2>1. moduli \in TowerModuli /\ export \in [Entries(TowerCount) -> Nat] /\ count \in Nat
    BY VectorAssumption DEF ScriptInv, ScriptTyped
  <2>2. /\ Len(FillCoefficientMajor(p, count)) = 2 + Layout!PayloadWords(Counts(count))
        /\ Len(FillBatchFrame(p, count)) = 2 + count * Coefficients * (4 + 3 * Digits)
    BY <2>1, MajorFrameIs, BatchFrameIs
  <2>3. ASSUME NEW n \in Indices(Layout!OutputWords(Counts(count)))
        PROVE  /\ CoefficientMajorAnswer(Body(FillCoefficientMajor(p, count)), count,
                                         PairModuli(p), n)
                    = ValidateCoefficientMajor(p, count, n)
               /\ CiphertextMajorAnswer(Body(FillBatchFrame(p, count)), 4, PairModuli(p), n)
                    = ValidateBatch(p, n)
    BY <2>1, MajorFrameAnswer, BatchFrameAnswer
  <2> QED BY <2>2, <2>3
<1>2. Init => ScriptInv
  BY InitScript
<1>3. ScriptInv /\ [Next]_HostVars => ScriptInv'
  BY ScriptInductive
<1> QED BY <1>1, <1>2, <1>3, PTL DEF Spec
=============================================================================
