------------------------------ MODULE BnCarry -------------------------------
(***************************************************************************)
(* The four carry loops of bignum.c (bn_add, bn_sub, bn_add_digit_mul,     *)
(* bn_sub_digit_mul) over arrays of any content: every step reads the next *)
(* digit of b and c, writes one of a, and carries.  a, b and c are kept as *)
(* the numbers their digits so far stand for, place as B to the power of   *)
(* the number of digits.  The functions that multiply are called with a    *)
(* and b the same array.                                                   *)
(***************************************************************************)
EXTENDS BnDigit

CONSTANT MaxDigits    \* bound: digits of an array

ASSUME DigitsAssumption == MaxDigits \in Nat

VARIABLES op,      \* the function
          m,       \* its factor c, if it multiplies
          i,       \* digits done
          carry,   \* carry, or borrow
          a, b, c, \* what the digits done stand for; c is the code's d
          place    \* B^i

carryvars == <<op, m, i, carry, a, b, c, place>>

Op == {"bn_add", "bn_sub", "bn_add_digit_mul", "bn_sub_digit_mul"}

CarryTypeOK ==
  /\ op \in Op
  /\ m \in Digit
  /\ i \in 0..MaxDigits
  /\ carry \in Digit
  /\ place \in Nat \ {0}
  /\ a \in 0..place-1 /\ b \in 0..place-1 /\ c \in 0..place-1

CarryInit ==
  /\ op \in Op /\ m \in Digit
  /\ i = 0 /\ carry = 0
  /\ a = 0 /\ b = 0 /\ c = 0 /\ place = 1

(* The digit r.digit is stored, for digits x of b and y of c. *)
Store(x, y, r) ==
  /\ i < MaxDigits
  /\ i' = i + 1
  /\ carry' = r.carry
  /\ a' = a + r.digit * place
  /\ b' = b + x * place
  /\ c' = c + y * place
  /\ place' = place * B
  /\ UNCHANGED <<op, m>>

Add(x, y) == op = "bn_add" /\ Store(x, y, AddDigit(x, y, carry))

Sub(x, y) == op = "bn_sub" /\ Store(x, y, SubDigit(x, y, carry))

(* With a factor 0 they return 0 at once and leave the array as it is. *)
Untouched(x, y) ==
  /\ op \in {"bn_add_digit_mul", "bn_sub_digit_mul"} /\ m = 0
  /\ Store(x, y, [digit |-> x, carry |-> 0])

AddMul(x, y) ==
  /\ op = "bn_add_digit_mul" /\ m # 0
  /\ Store(x, y, AddMulDigit(x, m, y, carry))

SubMul(x, y) ==
  /\ op = "bn_sub_digit_mul" /\ m # 0
  /\ Store(x, y, SubMulDigit(x, m, y, carry))

CarryNext ==
  \E x, y \in Digit :
    Add(x, y) \/ Sub(x, y) \/ Untouched(x, y) \/ AddMul(x, y) \/ SubMul(x, y)

CarrySpec == CarryInit /\ [][CarryNext]_carryvars

-----------------------------------------------------------------------------
(* Properties.                                                             *)

(* After any number of digits the array and the carry together are the     *)
(* exact result: nothing wraps unnoticed, neither a digit nor the carry.   *)
Exact ==
  /\ op = "bn_add" => a + carry * place = b + c
  /\ op = "bn_sub" => a - carry * place = b - c
  /\ op = "bn_add_digit_mul" => a + carry * place = b + m * c
  /\ op = "bn_sub_digit_mul" => a - carry * place = b - m * c

(* The value bn_sub returns compares its arguments, and the one bn_add     *)
(* returns tells that the sum did not fit: what bn_div and the RSA code     *)
(* rely on when they ignore it.                                            *)
CarryTells ==
  /\ op = "bn_add" => carry = (IF b + c >= place THEN 1 ELSE 0)
  /\ op = "bn_sub" => carry = (IF b < c THEN 1 ELSE 0)
=============================================================================
