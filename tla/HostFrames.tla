----------------------------- MODULE HostFrames ------------------------------
(***************************************************************************)
(* Frames and rows between a host and a relinearization core: the batch    *)
(* frames two of the runners build from an export, the word of a frame     *)
(* every core reads for every operand, and the element of its comparison   *)
(* array a runner finds each answer in.                                    *)
(***************************************************************************)
EXTENDS VectorScripts

Layout == INSTANCE RelinLayout WITH N <- Coefficients, NoProfile <- 0

Indices(count) == 0..(count - 1)
Header(count) == <<"command", <<count, Digits>>>>

(* fill_coefficient_major_frame.                                            *)
FillCoefficientMajor(p, count) ==
  LET word(name, i, c) == WordIn(export, name, i, p, c)
      block(c) ==
        Repeat(count, <<word("a0", 0, c), word("a1", 0, c), word("b0", 0, c), word("b1", 0, c)>>)
          \o PerDigit([d \in DigitIndices |->
                         <<word("key_b", d, c), word("key_a", d, c)>> \o Repeat(count, <<word("digit", d, c)>>)])
  IN  Header(count) \o FlattenSeq([c \in 1..Coefficients |-> block(c - 1)])

(* build_single_ciphertext_payload: columns of a row per coefficient.       *)
Column_swapped(p, c, column) ==  \* a slip: the keys change places
  LET digit == (column - 4) \div 3
  IN  CASE column < 4 -> WordIn(export, <<"a0", "a1", "b0", "b1">>[column + 1], 0, p, c)
        [] OTHER -> WordIn(export, <<"digit", "key_a", "key_b">>[1 + ((column - 4) % 3)], digit, p, c)
Column(p, c, column) ==
  LET digit == (column - 4) \div 3
  IN  CASE column < 4 -> WordIn(export, <<"a0", "a1", "b0", "b1">>[column + 1], 0, p, c)
        [] OTHER -> WordIn(export, <<"digit", "key_b", "key_a">>[1 + ((column - 4) % 3)], digit, p, c)
Columns == 4 + 3 * Digits
SinglePayload(p) ==
  [k \in 1..(Coefficients * Columns) |-> Column(p, (k - 1) \div Columns, (k - 1) % Columns)]
FillBatchFrame(p, count) == Header(count) \o Repeat(count, SinglePayload(p))

-----------------------------------------------------------------------------
(* Answers, as sums of products of payload words.                           *)
SumOfProducts(products, words, q) ==
  LET sum[i \in 0..Len(products)] ==
        IF i = 0 THEN <<0, 0>>
        ELSE Plus(sum[i - 1],
                  Times(words[products[i].x.index + 1], words[products[i].y.index + 1], q), q)
  IN  sum[Len(products)]

(* A coefficient-major core.                                                *)
CoefficientMajorAnswer(words, count, q, n) ==
  SumOfProducts(Layout!Relinearized([frame |-> 1, counts |-> [count |-> count, digits |-> Digits],
                                     profile |-> q], n), words, q)

(* rtl/evalmul3_bv_relinearize_two_tower_axis_core.sv and                   *)
(* rtl/bv_keyswitch_mac_two_tower_axis_core.sv: ciphertext after ciphertext, *)
(* with as many operand words before the digits of a coefficient.           *)
CiphertextMajorAnswer(words, operands, q, n) ==
  LET first     == (n \div 2) * (operands + 3 * Digits)
      component == n % 2
      times(i, j) == Layout!Product(Layout!Payload(1, first + i), Layout!Payload(1, first + j), q)
      evalMul   == IF operands = 0 THEN <<>>
                   ELSE IF component = 0 THEN <<times(0, 2)>> ELSE <<times(0, 3), times(1, 2)>>
      keySwitch == [d \in 1..Digits |->
                      times(operands + 3 * (d - 1), operands + 3 * (d - 1) + 1 + component)]
  IN  SumOfProducts(evalMul \o keySwitch, words, q)

(* What validate_pair compares answer n with: reshape to (N, ciphertexts,   *)
(* 2), or to one row of 2 N words per ciphertext.                           *)
Expected(p, c, component) ==
  WordIn(export, IF component = 0 THEN "relin_c0" ELSE "relin_c1", 0, p, c)
ValidateCoefficientMajor(p, count, n) == Expected(p, n \div (2 * count), n % 2)
ValidateBatch(p, n) == Expected(p, (n % (2 * Coefficients)) \div 2, n % 2)
=============================================================================
