------------------------------ MODULE BnDigit -------------------------------
(***************************************************************************)
(* One digit of the big number arithmetic (crypto_lib, bignum.c): what the *)
(* body of each carry loop does with unsigned digits of BN_DIGIT_BITS bits. *)
(* The C code has no carry flag; it finds out from the wrapped result of an *)
(* addition or subtraction whether it wrapped.  B is 2^BN_DIGIT_BITS.  Then *)
(* the arrays, and such a loop over a part of one.                         *)
(***************************************************************************)
EXTENDS Integers

CONSTANT B

ASSUME BaseAssumption == B \in Nat /\ B >= 2

BN_MAX_DIGIT == B - 1
Digit == 0 .. B - 1

(* bn_add, lines 68-75. *)
AddDigit(b, c, carry) ==
  LET s == (b + carry) % B
      t == (s + c) % B
  IN IF s < carry
       THEN [digit |-> c, carry |-> carry]
       ELSE [digit |-> t, carry |-> IF t < c THEN 1 ELSE 0]

(* Mutant of the next: the wrap is looked for on the wrong side. *)
SubDigitLate(b, c, borrow) ==
  LET s == (b - borrow) % B
      t == (s - c) % B
  IN [digit |-> t, carry |-> IF t > BN_MAX_DIGIT - c THEN 1 ELSE 0]

(* bn_sub, lines 88-95. *)
SubDigit(b, c, borrow) ==
  LET s == (b - borrow) % B
      t == (s - c) % B
  IN IF s > BN_MAX_DIGIT - borrow
       THEN [digit |-> BN_MAX_DIGIT - c, carry |-> borrow]
       ELSE [digit |-> t, carry |-> IF t > BN_MAX_DIGIT - c THEN 1 ELSE 0]

(* Mutant of the next: a wrap of the sum is found, one of the carry is not. *)
AddMulDigitOneWrap(b, m, d, carry) ==
  LET rl == (m * d) % B
      rh == (m * d) \div B
      t == (b + carry + rl) % B
  IN [digit |-> t, carry |-> ((IF t < rl THEN 1 ELSE 0) + rh) % B]

(* bn_add_digit_mul, lines 301-312. *)
AddMulDigit(b, m, d, carry) ==
  LET rl == (m * d) % B
      rh == (m * d) \div B
      s == (b + carry) % B
      t == (s + rl) % B
  IN [digit |-> t,
      carry |-> ((IF s < carry THEN 1 ELSE 0) + (IF t < rl THEN 1 ELSE 0) + rh) % B]

(* bn_sub_digit_mul, lines 329-340. *)
SubMulDigit(b, m, d, borrow) ==
  LET rl == (m * d) % B
      rh == (m * d) \div B
      s == (b - borrow) % B
      t == (s - rl) % B
  IN [digit |-> t,
      carry |-> ((IF s > BN_MAX_DIGIT - borrow THEN 1 ELSE 0)
                 + (IF t > BN_MAX_DIGIT - rl THEN 1 ELSE 0) + rh) % B]
-----------------------------------------------------------------------------
(* Arrays of n digits, the least significant one first, and the number one  *)
(* stands for (top[k] that of its k most significant digits).               *)
Array(n) == [0 .. n-1 -> Digit]
bn_assign_zero(n) == [j \in 0 .. n-1 |-> 0]
Value(x, n) ==
  LET top[k \in 0 .. n] == IF k = 0 THEN 0 ELSE top[k-1] * B + x[n-k]
  IN top[n]

(* A carry loop: digits k..k+n-1 of x become what step makes of them, of the *)
(* digits of y and of the carry.                                           *)
Loop(x, k, n, step, y) ==
  LET run[j \in 0 .. n] ==
        IF j = 0 THEN [digits |-> x, carry |-> 0]
        ELSE LET r == step[<<x[k+j-1], y[j-1], run[j-1].carry>>]
             IN [digits |-> [run[j-1].digits EXCEPT ![k+j-1] = r.digit], carry |-> r.carry]
  IN run[n]
=============================================================================
