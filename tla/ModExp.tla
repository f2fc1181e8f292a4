------------------------------- MODULE ModExp -------------------------------
(***************************************************************************)
(* Modular exponentiation (crypto_lib, bignum.c: bn_mod_exp), two bits of  *)
(* the exponent at a time.  The base and the modulus are numbers, with the *)
(* product modulo d as bn_mul and bn_div compute it; the exponent is the   *)
(* array of digits the window moves over.                                  *)
(***************************************************************************)
EXTENDS Integers

CONSTANTS
  BN_DIGIT_BITS,  \* even
  B,        \* 2^BN_DIGIT_BITS
  MaxC,     \* bound: digits of the exponent
  MaxD      \* bound: the modulus

bn_mod_mul(x, y, d) == (x * y) % d

DIGIT_2MSB(x) == x \div (B \div 4)
Shift2(x) == (x * 4) % B

bn_digits(x, n) ==
  CHOOSE k \in 0..n : (k > 0 => x[k-1] # 0) /\ \A j \in k..n-1 : x[j] = 0

VARIABLES
  b, c, cdigits, d,  \* the arguments
  bpower,            \* b, b^2, b^3
  t,                 \* the result
  i, ci, ci_bits, j, \* the digit of the exponent, shifted; its bits; those done
  pc

vars == <<b, c, cdigits, d, bpower, t, i, ci, ci_bits, j, pc>>

(* The base is smaller than the modulus: both callers see to it.           *)
Init ==
  /\ d \in 1..MaxD /\ b \in 0..d-1
  /\ cdigits \in 1..MaxC /\ c \in [0..cdigits-1 -> 0..B-1]
  /\ bpower = [k \in 0..2 |-> 0] /\ t = 0
  /\ i = 0 /\ ci = 0 /\ ci_bits = 0 /\ j = 0
  /\ pc = "start"

(* Lines 233-240. *)
Start ==
  /\ pc = "start"
  /\ LET b2 == bn_mod_mul(b, b, d)
     IN bpower' = [k \in 0..2 |-> CASE k = 0 -> b [] k = 1 -> b2 [] k = 2 -> bn_mod_mul(b2, b, d)]
  /\ t' = 1
  /\ cdigits' = bn_digits(c, cdigits)
  /\ i' = cdigits' - 1
  /\ pc' = "digit"
  /\ UNCHANGED <<b, c, d, ci, ci_bits, j>>

(* The next digit; leading zeros are skipped in the first one only. *)
NextDigit ==
  /\ pc = "digit" /\ i >= 0
  /\ ci' = c[i] /\ ci_bits' = BN_DIGIT_BITS /\ j' = 0
  /\ pc' = IF i = cdigits - 1 THEN "skip" ELSE "bits"
  /\ UNCHANGED <<b, c, cdigits, d, bpower, t, i>>

Skip ==
  /\ pc = "skip" /\ DIGIT_2MSB(ci) = 0
  /\ ci' = Shift2(ci) /\ ci_bits' = ci_bits - 2
  /\ UNCHANGED <<b, c, cdigits, d, bpower, t, i, j, pc>>

EndSkip ==
  /\ pc = "skip" /\ DIGIT_2MSB(ci) # 0
  /\ pc' = "bits"
  /\ UNCHANGED <<b, c, cdigits, d, bpower, t, i, ci, ci_bits, j>>

(* Lines 254-258: two squarings and a product. *)
Window(x, s) ==
  LET x2 == bn_mod_mul(x, x, d)
      x4 == bn_mod_mul(x2, x2, d)
  IN IF s = 0 THEN x4 ELSE bn_mod_mul(x4, bpower[s-1], d)

TwoBits ==
  /\ pc = "bits" /\ j < ci_bits
  /\ t' = Window(t, DIGIT_2MSB(ci))
  /\ ci' = Shift2(ci)
  /\ j' = j + 2
  /\ UNCHANGED <<b, c, cdigits, d, bpower, i, ci_bits, pc>>

EndDigit ==
  /\ pc = "bits" /\ j >= ci_bits
  /\ i' = i - 1 /\ pc' = "digit"
  /\ UNCHANGED <<b, c, cdigits, d, bpower, t, ci, ci_bits, j>>

Return ==
  /\ pc = "digit" /\ i < 0
  /\ pc' = "done"
  /\ UNCHANGED <<b, c, cdigits, d, bpower, t, i, ci, ci_bits, j>>

Next ==
  \/ Start \/ NextDigit \/ Skip \/ EndSkip \/ TwoBits \/ EndDigit \/ Return

Spec == Init /\ [][Next]_vars

-----------------------------------------------------------------------------
(* Properties.                                                             *)

(* The number an array of n digits stands for (top[k] that of the k most   *)
(* significant ones), and b^e modulo d, by their definitions.              *)
Value(x, n) ==
  LET top[k \in 0..n] == IF k = 0 THEN 0 ELSE top[k-1] * B + x[n-k]
  IN top[n]
Power(e) ==
  LET pow[k \in 0..e] == IF k = 0 THEN 1 % d ELSE (pow[k-1] * b) % d
  IN pow[e]

(* The result, as bignum.h line 38 has it: except for an exponent 0 and a  *)
(* modulus 1, where it is not reduced.                                     *)
ComputesPower ==
  pc = "done" /\ (cdigits > 0 \/ d > 1) => t = Power(Value(c, cdigits))
=============================================================================
