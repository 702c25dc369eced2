---------------------------- MODULE VectorScripts ----------------------------
(***************************************************************************)
(* The scripts of cli/ that turn an OpenFHE export into words for the      *)
(* relinearization cores: prepare_evalmul3_bv_relinearized_vectors.py and  *)
(* prepare_bv_keyswitch_mac_vectors.py, which recompute what OpenFHE did,  *)
(* and prepare_bv_keyreuse_coefficient_major_vectors.py, which copies it.  *)
(* A word is the pair <<lane 0, lane 1>>; an export is a function from     *)
(* <<file, tower, coefficient>> to residues, a digit's file <<name, i>>.   *)
(***************************************************************************)
EXTENDS RunnerPlatform, SequencesExt

CONSTANTS Coefficients, Digits,   \* --coefficients and the export's digits
          CiphertextCounts,       \* --ciphertexts
          MinCiphertexts          \* the fewest the coefficient-major cores take

ASSUME VectorAssumption ==
  /\ {Coefficients, Digits, MinCiphertexts} \subseteq Nat \ {0}
  /\ CiphertextCounts \subseteq Nat

VARIABLES export, keyParts,        \* the probe directory: files and metadata
          ciphertexts, coefficient,
          payload, expectedWords   \* payload_words and expected_words
vectorVars == <<export, keyParts, ciphertexts, coefficient, payload, expectedWords>>

Scripts == {"prepare_relinearized", "prepare_keyswitch_mac", "prepare_coefficient_major"}

DigitIndices  == 0..(Digits - 1)
Named(names)  == names \X {0}
DigitFiles    == {"digit", "key_b", "key_a"} \X DigitIndices
InputFiles    == Named({"a0", "a1", "b0", "b1"}) \union DigitFiles
DerivedFiles  == Named({"c0", "c1", "c2", "ks_b", "ks_a", "relin_c0", "relin_c1"})
Entries(towers) == (InputFiles \union DerivedFiles) \X (0..(towers - 1)) \X (0..(Coefficients - 1))

-----------------------------------------------------------------------------
(* The arithmetic of both towers of a pair, in Python's unbounded integers. *)
Lanes == 1..2
Times(x, y, q) == [l \in Lanes |-> (x[l] * y[l]) % q[l]]
Plus(x, y, q)  == [l \in Lanes |-> (x[l] + y[l]) % q[l]]

EvalMul(a0, a1, b0, b1, q) ==
  [c0 |-> Times(a0, b0, q),
   c1 |-> [l \in Lanes |-> (a0[l] * b1[l] + a1[l] * b0[l]) % q[l]],
   c2 |-> Times(a1, b1, q)]

(* calculated_ks_b and calculated_ks_a, digit after digit.                  *)
KeySwitch(digit, key, q) ==
  LET sum[d \in 0..Digits] ==
        IF d = 0 THEN <<0, 0>> ELSE Plus(sum[d - 1], Times(digit[d - 1], key[d - 1], q), q)
  IN  sum[Digits]

(* The words of the pair in progress at the current coefficient.            *)
WordIn(source, name, i, p, c) ==
  <<source[<<name, i>>, Tower0(p), c], source[<<name, i>>, Tower1(p), c]>>
Word(name)   == WordIn(export, name, 0, pair, coefficient)
DigitWords(name) == [d \in DigitIndices |-> WordIn(export, name, d, pair, coefficient)]

Operands     == <<Word("a0"), Word("a1"), Word("b0"), Word("b1")>>
Calculated   == EvalMul(Word("a0"), Word("a1"), Word("b0"), Word("b1"), PairModuli(pair))
CalculatedKs(key) == KeySwitch(DigitWords("digit"), DigitWords(key), PairModuli(pair))

PerDigit(blocks) == FlattenSeq([d \in 1..Digits |-> blocks[d - 1]])
Repeat(times, words) == FlattenSeq([i \in 1..times |-> words])
DigitTriples ==
  PerDigit([d \in DigitIndices |->
              <<DigitWords("digit")[d], DigitWords("key_b")[d], DigitWords("key_a")[d]>>])

-----------------------------------------------------------------------------
(* What a script checks and emits for one coefficient of one pair.          *)
KeySwitchMatches ==
  CalculatedKs("key_b") = Word("ks_b") /\ CalculatedKs("key_a") = Word("ks_a")
(* A slip: the sums of the two halves are not compared.                     *)
RelinearizedMatches_halves ==
  /\ Calculated.c0 = Word("c0") /\ Calculated.c1 = Word("c1") /\ Calculated.c2 = Word("c2")
  /\ KeySwitchMatches
RelinearizedMatches ==
  /\ Calculated.c0 = Word("c0") /\ Calculated.c1 = Word("c1") /\ Calculated.c2 = Word("c2")
  /\ KeySwitchMatches
  /\ Plus(Calculated.c0, CalculatedKs("key_b"), PairModuli(pair)) = Word("relin_c0")
  /\ Plus(Calculated.c1, CalculatedKs("key_a"), PairModuli(pair)) = Word("relin_c1")

RelinearizedExpected == <<Word("relin_c0"), Word("relin_c1")>>
RelinearizedPayload  == Operands \o DigitTriples

(* The key words of a digit stand before the digit word of each ciphertext. *)
CoefficientMajorPayload ==
  Repeat(ciphertexts, Operands)
    \o PerDigit([d \in DigitIndices |->
                   <<DigitWords("key_b")[d], DigitWords("key_a")[d]>> \o Repeat(ciphertexts, <<DigitWords("digit")[d]>>)])

(* One turn of the loops over pairs and coefficients.                       *)
Emit(matches, words, outputs) ==
  /\ At("pack")
  /\ IF ~matches THEN /\ pc' = "ended" /\ outcome' = "raised"
                      /\ UNCHANGED <<pair, coefficient, payload, expectedWords>>
     ELSE /\ payload' = payload \o words /\ expectedWords' = expectedWords \o outputs
          /\ coefficient' = (coefficient + 1) % Coefficients
          /\ IF coefficient + 1 < Coefficients THEN UNCHANGED <<pc, outcome, pair>>
             ELSE IF pair + 1 < PairCount THEN pair' = pair + 1 /\ UNCHANGED <<pc, outcome>>
             ELSE pc' = "ended" /\ outcome' = "passed" /\ UNCHANGED pair
  /\ UNCHANGED <<progVars, run, loaded, checked, files, heapVars, mem, dmaVars, failures,
                 export, keyParts, ciphertexts>>

(* The metadata checks; only towers in pairs are prepared.                  *)
MetadataAccepted == TowerCount % 2 = 0 /\ keyParts = Digits
PrepareIf(accepted) ==
  /\ At("prepare")
  /\ IF accepted THEN Goto("pack") ELSE pc' = "ended" /\ outcome' = "rejected"
  /\ UNCHANGED <<progVars, loopVars, heapVars, mem, dmaVars, failures, vectorVars>>

PrepareRelinearized ==
  /\ program = "prepare_relinearized"
  /\ \/ PrepareIf(MetadataAccepted)
     \/ Emit(RelinearizedMatches, RelinearizedPayload, RelinearizedExpected)

PrepareKeyswitchMac ==
  /\ program = "prepare_keyswitch_mac"
  /\ \/ PrepareIf(MetadataAccepted)
     \/ Emit(KeySwitchMatches, DigitTriples, <<Word("ks_b"), Word("ks_a")>>)

PrepareCoefficientMajor ==
  /\ program = "prepare_coefficient_major"
  /\ \/ PrepareIf(ciphertexts >= MinCiphertexts /\ MetadataAccepted)
     \/ Emit(TRUE, CoefficientMajorPayload, Repeat(ciphertexts, RelinearizedExpected))

VectorNext == PrepareRelinearized \/ PrepareKeyswitchMac \/ PrepareCoefficientMajor

-----------------------------------------------------------------------------
(* An export as OpenFHE writes it, from some input polynomials; and the     *)
(* exports with one residue changed on the way.                             *)
Sampled(file, t, c) ==
  LET place == CASE file[1] = "a0" -> 0 [] file[1] = "a1" -> 1 [] file[1] = "b0" -> 2
                 [] file[1] = "b1" -> 3 [] file[1] = "digit" -> 4 + 3 * file[2]
                 [] file[1] = "key_b" -> 5 + 3 * file[2] [] OTHER -> 6 + 3 * file[2]
  IN  (13 * place + 37 * c + 5 * t + 3) % moduli[t + 1]

OpenFHE ==
  LET value(name, i, t, c) == Sampled(<<name, i>>, t, c)
      ks(key, t, c) == LET sum[d \in 0..Digits] ==
                             IF d = 0 THEN 0
                             ELSE sum[d - 1] + value("digit", d - 1, t, c) * value(key, d - 1, t, c)
                       IN  sum[Digits]
      c0(t, c) == value("a0", 0, t, c) * value("b0", 0, t, c)
      c1(t, c) == value("a0", 0, t, c) * value("b1", 0, t, c) + value("a1", 0, t, c) * value("b0", 0, t, c)
      derived(name, t, c) ==
        CASE name = "c0" -> c0(t, c) [] name = "c1" -> c1(t, c)
          [] name = "c2" -> value("a1", 0, t, c) * value("b1", 0, t, c)
          [] name = "ks_b" -> ks("key_b", t, c) [] name = "ks_a" -> ks("key_a", t, c)
          [] name = "relin_c0" -> c0(t, c) + ks("key_b", t, c)
          [] name = "relin_c1" -> c1(t, c) + ks("key_a", t, c)
  IN  [x \in Entries(TowerCount) |->
         IF x[1] \in InputFiles THEN Sampled(x[1], x[2], x[3])
         ELSE derived(x[1][1], x[2], x[3]) % moduli[x[2] + 1]]

Damaged(source, x) == [source EXCEPT ![x] = (@ + 1) % moduli[x[2] + 1]]

NoExport == <<>>
VectorInit ==
  /\ coefficient = 0 /\ payload = <<>> /\ expectedWords = <<>>
  /\ IF program \notin Scripts
       THEN export = NoExport /\ keyParts = Digits /\ ciphertexts = 1
       ELSE /\ keyParts \in {Digits, Digits + 1} /\ ciphertexts \in CiphertextCounts
            /\ \/ export = OpenFHE
               \/ \E x \in Entries(TowerCount) : export = Damaged(OpenFHE, x)
=============================================================================
