------------------------------- MODULE BnMul --------------------------------
(***************************************************************************)
(* Multiplication (crypto_lib, bignum.c: bn_mul), one digit of the first     *)
(* factor at a time, and how numbers are read from bytes and written to       *)
(* them (bn_decode, bn_encode).  An array of n bytes is a function on 0..n-1 *)
(* with the least significant one last.                                     *)
(***************************************************************************)
EXTENDS BnDigit

CONSTANTS
  ByteBase,      \* 256 in the code
  DigitBytes,    \* B is ByteBase^DigitBytes
  MulDigits      \* bound: digits of the factors

VARIABLES
  b, c, digits,        \* the arguments
  a,                   \* the result
  t, bdigits, cdigits, i,
  pc
mulvars == <<b, c, digits, a, t, bdigits, cdigits, i, pc>>

bn_digits(x, n) ==
  CHOOSE k \in 0 .. n : (k > 0 => x[k-1] # 0) /\ \A j \in k .. n-1 : x[j] = 0

(* Byte p from the end of size bytes, 0 before the first of them.          *)
ByteAt(hexarr, size, p) == IF p < size THEN hexarr[size - 1 - p] ELSE 0
bn_decode(n, hexarr, size) ==
  [j \in 0 .. n-1 |->
     LET sum[u \in 0 .. DigitBytes] ==
           IF u = 0 THEN 0 ELSE sum[u-1] + ByteAt(hexarr, size, j * DigitBytes + u - 1) * ByteBase^(u-1)
     IN sum[DigitBytes]]
ByteOf(x, n, p) == IF p \div DigitBytes < n THEN (x[p \div DigitBytes] \div ByteBase^(p % DigitBytes)) % ByteBase ELSE 0
bn_encode(size, x, n) == [j \in 0 .. size-1 |-> ByteOf(x, n, size - 1 - j)]

(* t, with m times the digits of x added from digit k on, and the carry.   *)
AddMul(k, n, m, x) ==
  LET step == [u \in Digit \X Digit \X Digit |-> AddMulDigit(u[1], m, u[2], u[3])]
  IN IF m = 0 THEN [digits |-> t, carry |-> 0] ELSE Loop(t, k, n, step, x)

Init ==
  /\ digits \in 1 .. MulDigits /\ b \in Array(digits) /\ c \in Array(digits)
  /\ a = bn_assign_zero(0) /\ t = bn_assign_zero(0) /\ bdigits = 0 /\ cdigits = 0 /\ i = 0
  /\ pc = "start"

Start ==
  /\ pc = "start" /\ pc' = "loop"
  /\ t' = bn_assign_zero(2 * digits)
  /\ bdigits' = bn_digits(b, digits) /\ cdigits' = bn_digits(c, digits)
  /\ UNCHANGED <<b, c, digits, a, i>>

(* Mutant of the next: the carry is added a digit too low.                 *)
CarryAtLow(r) == IF i + cdigits > 0 THEN [r.digits EXCEPT ![i + cdigits - 1] = (@ + r.carry) % B] ELSE r.digits
CarryAt(r) == [r.digits EXCEPT ![i + cdigits] = (@ + r.carry) % B]
MulDigit ==
  /\ pc = "loop" /\ i < bdigits
  /\ t' = CarryAt(AddMul(i, cdigits, b[i], c)) /\ i' = i + 1
  /\ UNCHANGED <<b, c, digits, a, bdigits, cdigits, pc>>
Return ==
  /\ pc = "loop" /\ i = bdigits
  /\ a' = t /\ pc' = "done"
  /\ UNCHANGED <<b, c, digits, t, bdigits, cdigits, i>>
Next == Start \/ MulDigit \/ Return
Spec == Init /\ [][Next]_mulvars

-----------------------------------------------------------------------------
(* The product is exact: no carry is lost at either end of the arrays,        *)
(* with zeros in front of a factor or within it (bn_mul).                    *)
ProductExact == pc = "done" => Value(a, 2 * digits) = Value(b, digits) * Value(c, digits)
(* A number survives its way through bytes, of which there may be more or    *)
(* fewer than its digits have, if they can hold it (bn_encode, bn_decode).   *)
BytesKeepNumber ==
  pc = "start" =>
    \A size \in 0 .. DigitBytes * digits + 1 :
      Value(b, digits) < ByteBase^size => bn_decode(digits, bn_encode(size, b, digits), size) = b
=============================================================================
