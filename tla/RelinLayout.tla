----------------------------- MODULE RelinLayout -----------------------------
(***************************************************************************)
(* What a coefficient-major batch frame holds and what it is worth: the    *)
(* word order of an RLCM payload, as the host packs it, and the            *)
(* relinearized words the accelerator owes for it.                         *)
(*                                                                         *)
(* Data is symbolic.  A payload word is Payload(frame, index), where it    *)
(* came from; a residue is the sequence of the products it is the sum   *)
(* of, each tagged with the profile (paired moduli) it was reduced by.     *)
(***************************************************************************)
EXTENDS Integers, Sequences

CONSTANTS
  N,         \* ring coefficients of a tower
  NoProfile  \* stands for moduli no residue is reduced by

Payload(frame, index) == [frame |-> frame, index |-> index]
ZeroWord == Payload(0, 0)
Product(x, y, q) == [x |-> x, y |-> y, q |-> q]

(* Words of one coefficient: a0 a1 b0 b1 of every ciphertext, then for     *)
(* every digit the two key words and one digit word of every ciphertext.   *)
CoefficientWords(counts) ==
  4 * counts.count + counts.digits * (counts.count + 2)
PayloadWords(counts) == N * CoefficientWords(counts)

OperandIndex(counts, coefficient, ciphertext, phase) ==
  coefficient * CoefficientWords(counts) + 4 * ciphertext + phase
KeyIndex(counts, coefficient, digit, component) ==
  coefficient * CoefficientWords(counts) + 4 * counts.count
    + digit * (counts.count + 2) + component
DigitIndex(counts, coefficient, digit, ciphertext) ==
  KeyIndex(counts, coefficient, digit, 0) + 2 + ciphertext

OutputWords(counts) == 2 * N * counts.count

(* The n-th output word of a job [frame, counts, profile]: c0 and c1 of    *)
(* every ciphertext of every coefficient, each an EvalMul component plus   *)
(* the key switch of the host's digits.                                    *)
Relinearized(job, n) ==
  LET count       == job.counts.count
      coefficient == n \div (2 * count)
      ciphertext  == (n % (2 * count)) \div 2
      component   == n % 2
      times(i, j) == Product(Payload(job.frame, i), Payload(job.frame, j),
                             job.profile)
      operand(phase) == OperandIndex(job.counts, coefficient, ciphertext, phase)
      evalMul ==
        IF component = 0
          THEN <<times(operand(0), operand(2))>>
          ELSE <<times(operand(0), operand(3)), times(operand(1), operand(2))>>
      keySwitch ==
        [i \in 1..job.counts.digits |->
           times(DigitIndex(job.counts, coefficient, i - 1, ciphertext),
                 KeyIndex(job.counts, coefficient, i - 1, component))]
  IN evalMul \o keySwitch
=============================================================================
