------------------------------- MODULE BnDiv --------------------------------
(***************************************************************************)
(* Long division (crypto_lib, bignum.c: bn_div) at the level of its digits. *)
(* The divisor is shifted until its top bit is set, every digit of the      *)
(* quotient is estimated from the top digit of the divisor plus one, and   *)
(* corrected upwards.                                                      *)
(***************************************************************************)
EXTENDS BnDigit

CONSTANTS
  BN_DIGIT_BITS, \* B is 2^BN_DIGIT_BITS
  MaxC, MaxD     \* bounds: digits of the dividend and of the divisor

bn_digits(x, n) ==
  CHOOSE k \in 0..n : (k > 0 => x[k-1] # 0) /\ \A j \in k..n-1 : x[j] = 0

(* The sign of x - y. *)
bn_cmp(x, y, n) ==
  LET differ == {j \in 0..n-1 : x[j] # y[j]}
      top == CHOOSE j \in differ : \A k \in differ : k <= j
  IN IF differ = {} THEN 0 ELSE IF x[top] > y[top] THEN 1 ELSE -1

bn_digit_bits(x) == CHOOSE k \in 0..BN_DIGIT_BITS : x < 2^k /\ (k > 0 => x >= 2^(k-1))

(* Shifts by less than a digit; what leaves a digit enters its neighbour.   *)
(* Without the test for 0 the C code would shift by a whole digit.         *)
bn_shift_l(x, s, n) ==
  LET out(j) == IF s = 0 THEN 0 ELSE x[j] \div 2^(BN_DIGIT_BITS - s)
  IN [digits |-> [j \in 0..n-1 |-> ((x[j] * 2^s) % B) + (IF j = 0 THEN 0 ELSE out(j-1))],
      carry  |-> IF n = 0 THEN 0 ELSE out(n-1)]

bn_shift_r(x, s, n) ==
  [j \in 0..n-1 |->
     (x[j] \div 2^s)
     + (IF s = 0 \/ j = n-1 THEN 0 ELSE (x[j+1] * 2^(BN_DIGIT_BITS - s)) % B)]

(* x, with f times the number y has (or with y) subtracted from digit k on, *)
(* and the last borrow from digit k+n.                                      *)
Borrowed(r, k) == [r.digits EXCEPT ![k] = (@ - r.carry) % B]
SubMul(x, k, n, f, y) ==
  LET step == [u \in Digit \X Digit \X Digit |-> SubMulDigit(u[1], f, u[2], u[3])]
  IN IF f = 0 THEN x ELSE Borrowed(Loop(x, k, n, step, y), k + n)
Sub(x, k, n, y) ==
  LET step == [u \in Digit \X Digit \X Digit |-> SubDigit(u[1], u[2], u[3])]
  IN Borrowed(Loop(x, k, n, step, y), k + n)

VARIABLES
  c, cdigits, d, ddigits,  \* the arguments
  a, b,       \* the results, quotient and remainder
  cc, dd,     \* the shifted dividend, which becomes the remainder; the divisor
  dddigits, shift,
  i, ai,      \* the digit of the quotient
  pc,         \* where bn_div is
  tries       \* history: corrections of this digit

vars == <<c, cdigits, d, ddigits, a, b, cc, dd, dddigits, shift, i, ai, pc, tries>>

(* Lengths and digits are arbitrary; the results and the local variables    *)
(* are set before they are read.                                           *)
Init ==
  /\ cdigits \in 1..MaxC /\ ddigits \in 1..MaxD
  /\ c \in Array(cdigits) /\ d \in Array(ddigits)
  /\ a = bn_assign_zero(cdigits) /\ b = bn_assign_zero(ddigits)
  /\ cc = <<>> /\ dd = <<>>
  /\ dddigits = 0 /\ shift = 0 /\ i = 0 /\ ai = 0
  /\ pc = "start" /\ tries = 0

TopBitShift(x) == BN_DIGIT_BITS - bn_digit_bits(x)

(* Lines 127-138; a divisor 0 ends it with the results as they were. *)
Start ==
  /\ pc = "start"
  /\ LET n == bn_digits(d, ddigits)
         s == TopBitShift(d[n-1])
         l == bn_shift_l(c, s, cdigits)
     IN IF n = 0
          THEN pc' = "done" /\ UNCHANGED <<a, cc, dd, dddigits, shift, i>>
          ELSE /\ dddigits' = n /\ shift' = s
               /\ cc' = [j \in 0 .. (IF cdigits >= n THEN cdigits ELSE n-1) |->
                           IF j < cdigits THEN l.digits[j]
                           ELSE IF j = cdigits THEN l.carry ELSE 0]
               /\ dd' = bn_shift_l(d, s, n).digits
               /\ a' = bn_assign_zero(cdigits)
               /\ i' = cdigits - n
               /\ pc' = IF i' >= 0 THEN "digit" ELSE "remainder"
  /\ UNCHANGED <<c, cdigits, d, ddigits, b, ai, tries>>

(* Lines 140-146: never more than the digit of the quotient. *)
EstimateOf(hi, lo, t) ==
  IF t = BN_MAX_DIGIT THEN hi ELSE ((hi * B + lo) \div (t + 1)) % B

Estimate ==
  /\ pc = "digit"
  /\ LET q == EstimateOf(cc[i+dddigits], cc[i+dddigits-1], dd[dddigits-1])
     IN ai' = q /\ cc' = SubMul(cc, i, dddigits, q, dd)
  /\ pc' = "correct" /\ tries' = 0
  /\ UNCHANGED <<c, cdigits, d, ddigits, a, b, dd, dddigits, shift, i>>

(* Mutant of the next: equality is left out.                               *)
TooSmallStrict ==
  \/ cc[i+dddigits] # 0
  \/ bn_cmp([j \in 0..dddigits-1 |-> cc[i+j]], dd, dddigits) > 0

(* Line 150: the divisor goes into what is left once more. *)
TooSmall ==
  \/ cc[i+dddigits] # 0
  \/ bn_cmp([j \in 0..dddigits-1 |-> cc[i+j]], dd, dddigits) >= 0

Correct ==
  /\ pc = "correct" /\ TooSmall
  /\ ai' = (ai + 1) % B
  /\ cc' = Sub(cc, i, dddigits, dd)
  /\ tries' = tries + 1
  /\ UNCHANGED <<c, cdigits, d, ddigits, a, b, dd, dddigits, shift, i, pc>>

StoreDigit ==
  /\ pc = "correct" /\ ~TooSmall
  /\ a' = [a EXCEPT ![i] = ai]
  /\ i' = i - 1
  /\ pc' = IF i > 0 THEN "digit" ELSE "remainder"
  /\ UNCHANGED <<c, cdigits, d, ddigits, b, cc, dd, dddigits, shift, ai, tries>>

(* Lines 158-159. *)
Remainder ==
  /\ pc = "remainder"
  /\ LET r == bn_shift_r(cc, shift, dddigits)
     IN b' = [j \in 0..ddigits-1 |-> IF j < dddigits THEN r[j] ELSE 0]
  /\ pc' = "done"
  /\ UNCHANGED <<c, cdigits, d, ddigits, a, cc, dd, dddigits, shift, i, ai, tries>>

Next == Start \/ Estimate \/ Correct \/ StoreDigit \/ Remainder

Spec == Init /\ [][Next]_vars

-----------------------------------------------------------------------------
(* Properties.                                                             *)

(* An estimate is never too large, and too small by two at most: the loop  *)
(* that corrects it, which has no other bound, ends after two rounds.       *)
FewCorrections == tries <= 2

(* The result: quotient and remainder, for dividends shorter than the       *)
(* divisor and divisors with leading zeros as well.                        *)
DividesExactly ==
  pc = "done" /\ Value(d, ddigits) # 0 =>
    /\ Value(a, cdigits) = Value(c, cdigits) \div Value(d, ddigits)
    /\ Value(b, ddigits) = Value(c, cdigits) % Value(d, ddigits)
=============================================================================
