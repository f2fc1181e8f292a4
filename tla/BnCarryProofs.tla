--------------------------- MODULE BnCarryProofs ----------------------------
(***************************************************************************)
(* The carry loops of bignum.c, bn_mul and bn_div are exact for every digit *)
(* width and any number of digits.  The first part is about one digit and  *)
(* the loops as BnCarry has them; then come induction, the number the first *)
(* digits of an array stand for and the loops over arrays, with which      *)
(* bn_mul and bn_div are proved.                                           *)
(***************************************************************************)
EXTENDS BnCarry, FiniteSetTheorems, WellFoundedInduction, TLAPS

-----------------------------------------------------------------------------
(* Wrapping modulo B.                                                      *)

LEMMA WrapSmall ==
  ASSUME NEW x \in Digit
  PROVE  x % B = x
BY BaseAssumption DEF Digit

LEMMA WrapOver ==
  ASSUME NEW x \in B .. 2 * B - 1
  PROVE  x % B = x - B
BY BaseAssumption

LEMMA WrapUnder ==
  ASSUME NEW x \in -B .. -1
  PROVE  x % B = x + B
BY BaseAssumption

LEMMA Split ==
  ASSUME NEW x \in Nat
  PROVE  x % B \in Digit /\ x \div B \in Nat /\ x = B * (x \div B) + (x % B)
BY BaseAssumption DEF Digit

-----------------------------------------------------------------------------
(* One digit.                                                              *)

LEMMA AddDigitFact ==
  ASSUME NEW x \in Digit, NEW y \in Digit, NEW q \in {0, 1}
  PROVE  LET r == AddDigit(x, y, q)
         IN /\ r.digit \in Digit /\ r.carry \in {0, 1}
            /\ r.digit + r.carry * B = x + y + q
<1> DEFINE s == (x + q) % B
           t == (s + y) % B
<1> USE BaseAssumption DEF Digit
<1>1. CASE x + q < B
  <2>1. s = x + q
    BY <1>1, WrapSmall
  <2>2. CASE s + y < B
    <3>1. t = s + y
      BY <2>1, <2>2, WrapSmall
    <3> QED
      BY <2>1, <3>1 DEF AddDigit
  <2>3. CASE s + y >= B
    <3>1. t = s + y - B
      BY <2>1, <2>3, WrapOver
    <3> QED
      BY <2>1, <3>1 DEF AddDigit
  <2> QED
    BY <2>1, <2>2, <2>3
<1>2. CASE x + q >= B
  <2>1. s = x + q - B
    BY <1>2, WrapOver
  <2> QED
    BY <1>2, <2>1 DEF AddDigit
<1> QED
  BY <1>1, <1>2

LEMMA SubDigitFact ==
  ASSUME NEW x \in Digit, NEW y \in Digit, NEW q \in {0, 1}
  PROVE  LET r == SubDigit(x, y, q)
         IN /\ r.digit \in Digit /\ r.carry \in {0, 1}
            /\ r.digit - r.carry * B = x - y - q
<1> DEFINE s == (x - q) % B
           t == (s - y) % B
<1> USE BaseAssumption DEF Digit, BN_MAX_DIGIT
<1>1. CASE x - q >= 0
  <2>1. s = x - q
    BY <1>1, WrapSmall
  <2>2. CASE s - y >= 0
    <3>1. t = s - y
      BY <2>1, <2>2, WrapSmall
    <3> QED
      BY <2>1, <3>1 DEF SubDigit
  <2>3. CASE s - y < 0
    <3>1. t = s - y + B
      BY <2>1, <2>3, WrapUnder
    <3> QED
      BY <2>1, <3>1 DEF SubDigit
  <2> QED
    BY <2>1, <2>2, <2>3
<1>2. CASE x - q < 0
  <2>1. s = x - q + B
    BY <1>2, WrapUnder
  <2> QED
    BY <1>2, <2>1 DEF SubDigit
<1> QED
  BY <1>1, <1>2

(* A product of two digits, with two more digits added, has two digits.    *)
LEMMA ProductBound ==
  ASSUME NEW u \in Digit, NEW v \in Digit
  PROVE  u * v \in Nat /\ u * v <= B * B - 2 * B + 1
<1> USE BaseAssumption DEF Digit
<1>1. u * v \in Nat
  OBVIOUS
<1>2. u * v <= (B - 1) * v
  OBVIOUS
<1>3. (B - 1) * v <= (B - 1) * (B - 1)
  OBVIOUS
<1>4. (B - 1) * (B - 1) = B * B - 2 * B + 1
  OBVIOUS
<1> QED
  BY <1>1, <1>2, <1>3, <1>4

LEMMA CarryFits ==
  ASSUME NEW k \in Nat, k * B <= B * B - 1
  PROVE  k \in Digit /\ k % B = k
<1> USE BaseAssumption
<1>1. SUFFICES ASSUME k >= B PROVE FALSE
  BY WrapSmall DEF Digit
<1>2. k * B >= B * B
  BY <1>1
<1> QED
  BY <1>2

LEMMA AddMulDigitFact ==
  ASSUME NEW x \in Digit, NEW f \in Digit, NEW y \in Digit, NEW q \in Digit
  PROVE  LET r == AddMulDigit(x, f, y, q)
         IN /\ r.digit \in Digit /\ r.carry \in Digit
            /\ r.digit + r.carry * B = x + f * y + q
<1> DEFINE rl == (f * y) % B
           rh == (f * y) \div B
           s == (x + q) % B
           t == (s + rl) % B
           w1 == IF s < q THEN 1 ELSE 0
           w2 == IF t < rl THEN 1 ELSE 0
<1>1. /\ rl \in Digit /\ rh \in Nat /\ f * y = B * rh + rl
      /\ f * y \in Nat /\ f * y <= B * B - 2 * B + 1
  BY ProductBound, Split
<1>2. s \in Digit /\ s + w1 * B = x + q
  <2>1. CASE x + q < B
    BY <2>1, WrapSmall, BaseAssumption DEF Digit
  <2>2. CASE x + q >= B
    BY <2>2, WrapOver, BaseAssumption DEF Digit
  <2> QED
    BY <2>1, <2>2, BaseAssumption DEF Digit
<1> HIDE DEF rl, rh, s
<1>3. t \in Digit /\ t + w2 * B = s + rl
  <2>1. CASE s + rl < B
    BY <1>1, <1>2, <2>1, WrapSmall, BaseAssumption DEF Digit
  <2>2. CASE s + rl >= B
    BY <1>1, <1>2, <2>2, WrapOver, BaseAssumption DEF Digit
  <2> QED
    BY <1>1, <1>2, <2>1, <2>2, BaseAssumption DEF Digit
<1>4. w1 \in Nat /\ w2 \in Nat /\ AddMulDigit(x, f, y, q) = [digit |-> t, carry |-> (w1 + w2 + rh) % B]
  BY DEF AddMulDigit, rl, rh, s
<1> HIDE DEF t, w1, w2
<1>5. t + (w1 + w2 + rh) * B = x + f * y + q
  BY <1>1, <1>2, <1>3, <1>4, BaseAssumption DEF Digit
<1>6. (w1 + w2 + rh) * B <= B * B - 1
  BY <1>1, <1>3, <1>4, <1>5, BaseAssumption DEF Digit
<1>7. w1 + w2 + rh \in Digit /\ (w1 + w2 + rh) % B = w1 + w2 + rh
  BY <1>1, <1>4, <1>6, CarryFits
<1> QED
  BY <1>3, <1>4, <1>5, <1>7

LEMMA SubMulDigitFact ==
  ASSUME NEW x \in Digit, NEW f \in Digit, NEW y \in Digit, NEW q \in Digit
  PROVE  LET r == SubMulDigit(x, f, y, q)
         IN /\ r.digit \in Digit /\ r.carry \in Digit
            /\ r.digit - r.carry * B = x - f * y - q
<1> DEFINE rl == (f * y) % B
           rh == (f * y) \div B
           s == (x - q) % B
           t == (s - rl) % B
           w1 == IF s > BN_MAX_DIGIT - q THEN 1 ELSE 0
           w2 == IF t > BN_MAX_DIGIT - rl THEN 1 ELSE 0
<1>1. /\ rl \in Digit /\ rh \in Nat /\ f * y = B * rh + rl
      /\ f * y \in Nat /\ f * y <= B * B - 2 * B + 1
  BY ProductBound, Split
<1>2. s \in Digit /\ s - w1 * B = x - q
  <2>1. CASE x - q >= 0
    BY <2>1, WrapSmall, BaseAssumption DEF Digit, BN_MAX_DIGIT
  <2>2. CASE x - q < 0
    BY <2>2, WrapUnder, BaseAssumption DEF Digit, BN_MAX_DIGIT
  <2> QED
    BY <2>1, <2>2, BaseAssumption DEF Digit
<1> HIDE DEF rl, rh, s
<1>3. t \in Digit /\ t - w2 * B = s - rl
  <2>1. CASE s - rl >= 0
    BY <1>1, <1>2, <2>1, WrapSmall, BaseAssumption DEF Digit, BN_MAX_DIGIT
  <2>2. CASE s - rl < 0
    BY <1>1, <1>2, <2>2, WrapUnder, BaseAssumption DEF Digit, BN_MAX_DIGIT
  <2> QED
    BY <1>1, <1>2, <2>1, <2>2, BaseAssumption DEF Digit
<1>4. w1 \in Nat /\ w2 \in Nat /\ SubMulDigit(x, f, y, q) = [digit |-> t, carry |-> (w1 + w2 + rh) % B]
  BY DEF SubMulDigit, rl, rh, s
<1> HIDE DEF t, w1, w2
<1>5. t - (w1 + w2 + rh) * B = x - f * y - q
  BY <1>1, <1>2, <1>3, <1>4, BaseAssumption DEF Digit
<1>6. (w1 + w2 + rh) * B <= B * B - 1
  BY <1>1, <1>3, <1>4, <1>5, BaseAssumption DEF Digit
<1>7. w1 + w2 + rh \in Digit /\ (w1 + w2 + rh) % B = w1 + w2 + rh
  BY <1>1, <1>4, <1>6, CarryFits
<1> QED
  BY <1>3, <1>4, <1>5, <1>7

-----------------------------------------------------------------------------
(* The loops.                                                              *)

(* The inductive invariant: the carry of an addition or subtraction of two  *)
(* numbers is one bit, there is none with a factor 0, and the digits so far *)
(* are exact.                                                              *)
Inv ==
  /\ CarryTypeOK
  /\ op \in {"bn_add", "bn_sub"} => carry \in {0, 1}
  /\ op \in {"bn_add_digit_mul", "bn_sub_digit_mul"} /\ m = 0 => carry = 0
  /\ Exact

LEMMA Place ==
  ASSUME NEW p \in Nat \ {0}, NEW v \in 0..p-1, NEW x \in Digit
  PROVE  v + x * p \in 0 .. p * B - 1
<1> USE BaseAssumption DEF Digit
<1>1. x * p \in Nat
  OBVIOUS
<1>2. x * p <= (B - 1) * p
  OBVIOUS
<1>3. (B - 1) * p = p * B - p
  OBVIOUS
<1> QED
  BY <1>1, <1>2, <1>3

(* Whatever is stored, a digit each, the numbers stay below the place.     *)
LEMMA StoreTypes ==
  ASSUME CarryTypeOK, NEW x \in Digit, NEW y \in Digit, NEW r,
         r.digit \in Digit, r.carry \in Digit, Store(x, y, r)
  PROVE  CarryTypeOK'
<1>1. place \in Nat \ {0} /\ place * B \in Nat \ {0}
  BY BaseAssumption DEF CarryTypeOK
<1>2. /\ a' \in 0..place'-1 /\ b' \in 0..place'-1 /\ c' \in 0..place'-1
  BY <1>1, Place DEF CarryTypeOK, Store
<1> QED
  BY <1>1, <1>2, DigitsAssumption DEF CarryTypeOK, Store

(* The step that all four loops take, seen as numbers: if the digit is      *)
(* exact, and so is what was before it, then what comes of it is.          *)
SumStep(p, x, y, d, q, s, u, v, w, f) ==
  d + s * B = x + f * y + q /\ u + q * p = v + f * w
    => (u + d * p) + s * (p * B) = (v + x * p) + f * (w + y * p)

LEMMA StoreSum ==
  ASSUME NEW p \in Int, NEW x \in Int, NEW y \in Int, NEW d \in Int,
         NEW q \in Int, NEW s \in Int, NEW u \in Int, NEW v \in Int, NEW w \in Int,
         NEW f \in Int
  PROVE  SumStep(p, x, y, d, q, s, u, v, w, f)
<1> SUFFICES ASSUME d + s * B = x + f * y + q, u + q * p = v + f * w
             PROVE  (u + d * p) + s * (p * B) = (v + x * p) + f * (w + y * p)
  BY DEF SumStep
<1> USE BaseAssumption
<1>1. (u + d * p) + s * (p * B) = u + p * (d + s * B)
  OBVIOUS
<1>2. p * (d + s * B) = p * (x + f * y + q)
  OBVIOUS
<1>3. p * (x + f * y + q) = x * p + f * (y * p) + q * p
  OBVIOUS
<1>4. f * (w + y * p) = f * w + f * (y * p)
  OBVIOUS
<1> QED
  BY <1>1, <1>2, <1>3, <1>4

LEMMA ZeroTimes == \A z \in Int : 0 * z = 0
OBVIOUS

LEMMA InvStep ==
  ASSUME Inv, [CarryNext]_carryvars
  PROVE  Inv'
<1> SUFFICES ASSUME CarryNext PROVE Inv'
  BY DEF Inv, CarryTypeOK, Exact, carryvars
<1> PICK x \in Digit, y \in Digit :
      Add(x, y) \/ Sub(x, y) \/ Untouched(x, y) \/ AddMul(x, y) \/ SubMul(x, y)
  BY DEF CarryNext
<1>0. /\ x \in Int /\ y \in Int /\ m \in Digit /\ m \in Int /\ carry \in Digit
      /\ place \in Nat /\ place \in Int /\ a \in Int /\ b \in Int /\ c \in Int /\ carry \in Int
      /\ 0 \in Digit /\ \A z \in {0, 1} : z \in Digit
      /\ \A z \in Digit : z \in Int /\ -z \in Int
  BY BaseAssumption DEF Inv, CarryTypeOK, Digit
<1>1. CASE Add(x, y)
  <2> DEFINE r == AddDigit(x, y, carry)
  <2>1. op = "bn_add" /\ carry \in {0, 1} /\ Store(x, y, r)
    BY <1>1 DEF Add, Inv
  <2>2. r.digit \in Digit /\ r.carry \in {0, 1} /\ r.digit + r.carry * B = x + y + carry
    BY <2>1, AddDigitFact
  <2> HIDE DEF r
  <2>3. CarryTypeOK'
    BY <1>0, <2>1, <2>2, StoreTypes DEF Inv
  <2>4. (a + r.digit * place) + r.carry * (place * B) = (b + x * place) + 1 * (c + y * place)
    <3>1. r.digit \in Int /\ r.carry \in Int /\ carry \in Int /\ 1 \in Int
      BY <1>0, <2>2
    <3>3. SumStep(place, x, y, r.digit, carry, r.carry, a, b, c, 1)
      BY <1>0, <3>1, StoreSum
    <3> QED
      BY <1>0, <2>1, <2>2, <3>1, <3>3, BaseAssumption DEF SumStep, Inv, Exact
  <2>5. a' + carry' * place' = b' + c'
    BY <1>0, <2>1, <2>4, BaseAssumption DEF Store
  <2> QED
    BY <2>1, <2>2, <2>3, <2>5 DEF Inv, Exact, Store
<1>2. CASE Sub(x, y)
  <2> DEFINE r == SubDigit(x, y, carry)
  <2>1. op = "bn_sub" /\ carry \in {0, 1} /\ Store(x, y, r)
    BY <1>2 DEF Sub, Inv
  <2>2. r.digit \in Digit /\ r.carry \in {0, 1} /\ r.digit - r.carry * B = x - y - carry
    BY <2>1, SubDigitFact
  <2> HIDE DEF r
  <2>3. CarryTypeOK'
    BY <1>0, <2>1, <2>2, StoreTypes DEF Inv
  <2>4. (a + r.digit * place) + (-r.carry) * (place * B) = (b + x * place) + (-1) * (c + y * place)
    <3>1. r.digit \in Int /\ (-r.carry) \in Int /\ (-carry) \in Int /\ (-1) \in Int
      BY <1>0, <2>2
    <3>3. SumStep(place, x, y, r.digit, -carry, -r.carry, a, b, c, -1)
      BY <1>0, <3>1, StoreSum
    <3> QED
      BY <1>0, <2>1, <2>2, <3>1, <3>3, BaseAssumption DEF SumStep, Inv, Exact
  <2>5. a' - carry' * place' = b' - c'
    BY <1>0, <2>1, <2>2, <2>4, BaseAssumption DEF Store
  <2> QED
    BY <2>1, <2>2, <2>3, <2>5 DEF Inv, Exact, Store
<1>3. CASE Untouched(x, y)
  <2> DEFINE r == [digit |-> x, carry |-> 0]
  <2>1. op \in {"bn_add_digit_mul", "bn_sub_digit_mul"} /\ m = 0 /\ Store(x, y, r)
    BY <1>3 DEF Untouched
  <2>2. CarryTypeOK'
    BY <1>0, <2>1, StoreTypes DEF Inv
  <2>3. carry = 0 /\ 0 * place = 0 /\ 0 * c = 0
    BY <1>0, <2>1 DEF Inv
  <2>4. a = b
    BY <1>0, <2>1, <2>3 DEF Inv, Exact
  <2>5. a' = b' /\ carry' = 0 /\ m' = 0 /\ op' = op
    BY <2>1, <2>4 DEF Store
  <2>6. 0 * place' = 0 /\ 0 * c' = 0 /\ a' \in Int
    <3>1. place' \in Int /\ c' \in Int /\ a' \in Int
      BY <2>2 DEF CarryTypeOK
    <3>2. 0 * place' = 0 /\ 0 * c' = 0
      BY <3>1, ZeroTimes
    <3> QED
      BY <3>1, <3>2
  <2>7. Exact'
    BY <2>1, <2>5, <2>6 DEF Exact
  <2> QED
    BY <2>1, <2>2, <2>5, <2>7 DEF Inv
<1>4. CASE AddMul(x, y)
  <2> DEFINE r == AddMulDigit(x, m, y, carry)
  <2>1. op = "bn_add_digit_mul" /\ m # 0 /\ Store(x, y, r)
    BY <1>4 DEF AddMul
  <2>2. r.digit \in Digit /\ r.carry \in Digit /\ r.digit + r.carry * B = x + m * y + carry
    BY <1>0, AddMulDigitFact
  <2> HIDE DEF r
  <2>3. CarryTypeOK'
    BY <2>1, <2>2, StoreTypes DEF Inv
  <2>4. (a + r.digit * place) + r.carry * (place * B) = (b + x * place) + m * (c + y * place)
    <3>1. r.digit \in Int /\ r.carry \in Int /\ carry \in Int /\ m \in Int
      BY <1>0, <2>2
    <3>3. SumStep(place, x, y, r.digit, carry, r.carry, a, b, c, m)
      BY <1>0, <3>1, StoreSum
    <3> QED
      BY <1>0, <2>1, <2>2, <3>1, <3>3, BaseAssumption DEF SumStep, Inv, Exact
  <2>5. a' + carry' * place' = b' + m' * c'
    BY <2>1, <2>4 DEF Store
  <2> QED
    BY <2>1, <2>3, <2>5 DEF Inv, Exact, Store
<1>5. CASE SubMul(x, y)
  <2> DEFINE r == SubMulDigit(x, m, y, carry)
  <2>1. op = "bn_sub_digit_mul" /\ m # 0 /\ Store(x, y, r)
    BY <1>5 DEF SubMul
  <2>2. r.digit \in Digit /\ r.carry \in Digit /\ r.digit - r.carry * B = x - m * y - carry
    BY <1>0, SubMulDigitFact
  <2> HIDE DEF r
  <2>3. CarryTypeOK'
    BY <2>1, <2>2, StoreTypes DEF Inv
  <2>4. (a + r.digit * place) + (-r.carry) * (place * B) = (b + x * place) + (-m) * (c + y * place)
    <3>1. r.digit \in Int /\ (-r.carry) \in Int /\ (-carry) \in Int /\ (-m) \in Int
      BY <1>0, <2>2
    <3>2. r.digit + (-r.carry) * B = x + (-m) * y + (-carry)
      <4>a. r.carry \in Int
        BY <1>0, <2>2
      <4>b. B \in Int
        BY BaseAssumption
      <4>1. /\ m * y \in Int /\ (-m) * y = -(m * y)
            /\ r.carry * B \in Int /\ (-r.carry) * B = -(r.carry * B)
        BY <1>0, <4>a, <4>b
      <4> QED
        BY <1>0, <2>2, <3>1, <4>1
    <3>3. a + (-carry) * place = b + (-m) * c
      <4>1. /\ m * c \in Int /\ (-m) * c = -(m * c)
            /\ carry * place \in Int /\ (-carry) * place = -(carry * place)
        BY <1>0
      <4>2. a - carry * place = b - m * c
        BY <2>1 DEF Inv, Exact
      <4> QED
        BY <1>0, <4>1, <4>2
    <3>4. SumStep(place, x, y, r.digit, -carry, -r.carry, a, b, c, -m)
      BY <1>0, <3>1, StoreSum
    <3> QED
      BY <3>2, <3>3, <3>4 DEF SumStep
  <2>5. a' - carry' * place' = b' - m' * c'
    <3>1. a' + (-r.carry) * place' = b' + (-m) * c' /\ carry' = r.carry /\ m' = m
      BY <2>1, <2>4 DEF Store
    <3>2. place' \in Int /\ c' \in Int /\ a' \in Int /\ b' \in Int /\ r.carry \in Int
      BY <2>2, <2>3, <1>0 DEF CarryTypeOK, Digit
    <3>3. (-r.carry) * place' = -(r.carry * place') /\ (-m) * c' = -(m * c')
      BY <1>0, <3>2
    <3>4. r.carry * place' \in Int /\ m * c' \in Int
      BY <1>0, <3>2
    <3> QED
      BY <3>1, <3>2, <3>3, <3>4
  <2> QED
    BY <2>1, <2>3, <2>5 DEF Inv, Exact, Store
<1> QED
  BY <1>1, <1>2, <1>3, <1>4, <1>5

LEMMA InvHolds == CarrySpec => []Inv
<1>1. CarryInit => Inv
  <2> SUFFICES ASSUME CarryInit PROVE Inv
    OBVIOUS
  <2>1. m * 0 = 0 /\ 0 \in Digit
    BY BaseAssumption DEF CarryInit, Digit
  <2> QED
    BY <2>1, DigitsAssumption DEF CarryInit, Inv, CarryTypeOK, Exact, Op
<1>2. Inv /\ [CarryNext]_carryvars => Inv'
  BY InvStep
<1> QED
  BY <1>1, <1>2, PTL DEF CarrySpec

(* The digits, the carry and the numbers they stand for keep their ranges. *)
THEOREM TypeCorrect == CarrySpec => []CarryTypeOK
BY InvHolds, PTL DEF Inv

(* The carry loops of bignum.c compute the exact sum, difference and        *)
(* products, for every digit width, array length and content.              *)
THEOREM ExactHolds == CarrySpec => []Exact
BY InvHolds, PTL DEF Inv

(* What bn_add and bn_sub return is the overflow, and the comparison.      *)
THEOREM CarryTellsHolds == CarrySpec => []CarryTells
<1>1. Inv => CarryTells
  <2> SUFFICES ASSUME Inv PROVE CarryTells
    OBVIOUS
  <2>1. CASE op = "bn_add"
    <3>1. carry \in {0, 1} /\ a + carry * place = b + c
      BY <2>1 DEF Inv, Exact
    <3> QED
      BY <2>1, <3>1 DEF Inv, CarryTypeOK, CarryTells
  <2>2. CASE op = "bn_sub"
    <3>1. carry \in {0, 1} /\ a - carry * place = b - c
      BY <2>2 DEF Inv, Exact
    <3> QED
      BY <2>2, <3>1 DEF Inv, CarryTypeOK, CarryTells
  <2> QED
    BY <2>1, <2>2 DEF CarryTells
<1> QED
  BY <1>1, InvHolds, PTL
-----------------------------------------------------------------------------
(* Induction and recursion.  The provers do not induct over a recursive      *)
(* function; here that is done with the least element of the set of numbers  *)
(* of which something is not true.                                          *)

(* A nonempty set of numbers has a least one.                               *)
LEMMA LeastNumber ==
  ASSUME NEW S \in SUBSET Nat, S # {}
  PROVE  \E l \in S : \A y \in S : l <= y
<1> DEFINE R == {ss \in Nat \X Nat : ss[1] < ss[2]}
<1>1. IsWellFoundedOn(R, Nat)
  BY NatLessThanWellFounded DEF OpToRel
<1>2. PICK l \in S : \A y \in S : <<y, l>> \notin R
  <2>. HIDE DEF R
  <2>. QED BY <1>1, WFMin
<1>3. ASSUME NEW y \in S PROVE l <= y
  <2>1. l \in Nat /\ y \in Nat OBVIOUS
  <2>2. ~(y < l) BY <1>2, <2>1, Zenon
  <2>. QED BY <2>1, <2>2
<1>. QED BY <1>3

(* Induction, with the numbers of which something is true as a set.          *)
LEMMA Induction ==
  ASSUME NEW k \in Nat, NEW P, 0 \in P, \A j \in 1..k : j - 1 \in P => j \in P
  PROVE  \A j \in 0..k : j \in P
<1> DEFINE Others == {j \in 0..k : j \notin P}
<1>1. SUFFICES ASSUME Others # {} PROVE FALSE OBVIOUS
<1>2. PICK l \in Others : \A j \in Others : l <= j
  <2>1. Others \in SUBSET Nat OBVIOUS
  <2>. HIDE DEF Others
  <2>. QED BY <1>1, <2>1, LeastNumber
<1>3. l \in 1..k /\ l - 1 \in 0..k /\ l - 1 \notin Others BY <1>2
<1>. QED BY <1>2, <1>3

(* A function defined by recursion exists.                                  *)
Follows(f, k, first, next) ==
  f[0] = first /\ \A j \in 1..k : f[j] = next[<<j, f[j-1]>>]
LEMMA RecursionExists ==
  ASSUME NEW k \in Nat, NEW S, NEW first \in S, NEW next, \A j \in 1..k, v \in S : next[<<j, v>>] \in S
  PROVE  \E f \in [0..k -> S] : Follows(f, k, first, next)
<1> USE DEF Follows
<1> DEFINE Works(f, j) == f \in [0..j -> S] /\ Follows(f, j, first, next)
           P == {j \in 0..k : \E f : Works(f, j)}
<1>1. 0 \in P
  <2> DEFINE g == [h \in 0..0 |-> first]
  <2>1. g \in [0..0 -> S] /\ g[0] = first OBVIOUS
  <2>2. \A h \in 1..0 : g[h] = next[<<h, g[h-1]>>] OBVIOUS
  <2>3. Works(g, 0) BY <2>1, <2>2
  <2>4. 0 \in 0..k OBVIOUS
  <2>. HIDE DEF Works, g
  <2>. QED BY <2>3, <2>4
<1>2. ASSUME NEW j \in 1..k, j - 1 \in P PROVE j \in P
  <2>1. PICK f : Works(f, j - 1) BY <1>2
  <2> DEFINE g == [h \in 0..j |-> IF h = j THEN next[<<j, f[j-1]>>] ELSE f[h]]
  <2>2. f[j-1] \in S BY <2>1
  <2>3. g \in [0..j -> S] BY <2>1, <2>2
  <2>4. g[0] = first BY <2>1
  <2>5. ASSUME NEW h \in 1..j PROVE g[h] = next[<<h, g[h-1]>>]
    <3>1. CASE h = j
      <4>1. g[h-1] = f[j-1] BY <3>1, <2>1
      <4>2. g[j] = next[<<j, f[j-1]>>] OBVIOUS
      <4>. QED BY <3>1, <4>1, <4>2, Zenon
    <3>2. CASE h # j
      <4>1. h \in 1..j-1 /\ h - 1 \in 0..j-1 /\ h - 1 # j BY <3>2
      <4>2. g[h] = f[h] /\ g[h-1] = f[h-1] BY <3>2, <4>1
      <4>. QED BY <2>1, <4>1, <4>2
    <3>. QED BY <3>1, <3>2
  <2>6. Works(g, j) BY <2>3, <2>4, <2>5
  <2>. HIDE DEF Works, g
  <2>. QED BY <2>6
<1>3. k \in P
  <2>. HIDE DEF P
  <2>. QED BY <1>1, <1>2, Induction
<1>4. PICK f : Works(f, k) BY <1>3
<1>. QED BY <1>4

(* What k rounds of next make of first.                                      *)
Iterated(k, first, next) ==
  LET f[j \in 0..k] == IF j = 0 THEN first ELSE next[<<j, f[j-1]>>]
  IN f[k]
LEMMA IteratedFunction ==
  ASSUME NEW k \in Nat, NEW S, NEW first \in S, NEW next, \A j \in 1..k, v \in S : next[<<j, v>>] \in S,
         NEW f \in [0..k -> S], Follows(f, k, first, next)
  PROVE  Iterated(k, first, next) = f[k]
<1>1. f = [j \in 0..k |-> IF j = 0 THEN first ELSE next[<<j, f[j-1]>>]]
  <2>1. ASSUME NEW j \in 0..k PROVE f[j] = IF j = 0 THEN first ELSE next[<<j, f[j-1]>>]
    <3>1. CASE j = 0 BY <3>1 DEF Follows
    <3>2. CASE j # 0 BY <3>2 DEF Follows
    <3>. QED BY <3>1, <3>2
  <2>. QED BY <2>1
<1> DEFINE g == CHOOSE h : h = [j \in 0..k |-> IF j = 0 THEN first ELSE next[<<j, h[j-1]>>]]
<1>2. g = [j \in 0..k |-> IF j = 0 THEN first ELSE next[<<j, g[j-1]>>]] BY <1>1
<1>3. Iterated(k, first, next) = g[k] BY DEF Iterated
<1>. HIDE DEF g
<1>4. g[0] = f[0] /\ \A j \in 1..k : g[j-1] = f[j-1] => g[j] = f[j] BY <1>1, <1>2
<1> DEFINE P == {j \in 0..k : g[j] = f[j]}
<1>5. k \in P
  <2>1. 0 \in P /\ \A j \in 1..k : j - 1 \in P => j \in P BY <1>4
  <2>. HIDE DEF P
  <2>. QED BY <2>1, Induction
<1>. QED BY <1>3, <1>5

LEMMA IteratedFacts ==
  ASSUME NEW k \in Nat, NEW S, NEW first \in S, NEW next, \A j \in 1..k, v \in S : next[<<j, v>>] \in S
  PROVE  /\ Iterated(0, first, next) = first
         /\ \A j \in 0..k : Iterated(j, first, next) \in S
         /\ \A j \in 1..k : Iterated(j, first, next) = next[<<j, Iterated(j-1, first, next)>>]
<1>1. PICK f \in [0..k -> S] : Follows(f, k, first, next) BY RecursionExists
<1>2. ASSUME NEW j \in 0..k PROVE Iterated(j, first, next) = f[j]
  <2> DEFINE h == [u \in 0..j |-> f[u]]
  <2>1. h \in [0..j -> S] OBVIOUS
  <2>2. Follows(h, j, first, next)
    <3>1. h[0] = first BY <1>1 DEF Follows
    <3>2. ASSUME NEW u \in 1..j PROVE h[u] = next[<<u, h[u-1]>>]
      <4>1. u \in 1..k /\ u - 1 \in 0..j /\ u \in 0..j OBVIOUS
      <4>2. f[u] = next[<<u, f[u-1]>>] BY <1>1, <4>1 DEF Follows
      <4>3. h[u] = f[u] /\ h[u-1] = f[u-1] BY <4>1
      <4>. QED BY <4>2, <4>3
    <3>. QED BY <3>1, <3>2 DEF Follows
  <2>3. j \in Nat /\ \A u \in 1..j, v \in S : next[<<u, v>>] \in S OBVIOUS
  <2>4. h[j] = f[j] OBVIOUS
  <2>. HIDE DEF h
  <2>5. Iterated(j, first, next) = h[j] BY <2>1, <2>2, <2>3, IteratedFunction
  <2>. QED BY <2>4, <2>5
<1>3. \A j \in 1..k : j - 1 \in 0..k /\ j \in 0..k OBVIOUS
<1>4. 0 \in 0..k OBVIOUS
<1>5. f[0] = first /\ \A j \in 1..k : f[j] = next[<<j, f[j-1]>>] BY <1>1 DEF Follows
<1>6. \A j \in 1..k : Iterated(j, first, next) = next[<<j, Iterated(j-1, first, next)>>]
  <2>. SUFFICES ASSUME NEW j \in 1..k PROVE Iterated(j, first, next) = next[<<j, Iterated(j-1, first, next)>>] OBVIOUS
  <2>1. Iterated(j, first, next) = f[j] /\ Iterated(j-1, first, next) = f[j-1] BY <1>2, <1>3
  <2>. QED BY <1>5, <2>1
<1>. QED BY <1>2, <1>4, <1>5, <1>6

-----------------------------------------------------------------------------
(* Products and quotients.                                                 *)
LEMMA ProductGrows ==
  ASSUME NEW g \in Int, NEW r \in Nat, g >= 1
  PROVE  g * r >= r
<1>1. (g - 1) \in Nat /\ (g - 1) * r \in Nat OBVIOUS
<1>2. g * r = (g - 1) * r + r OBVIOUS
<1>. QED BY <1>1, <1>2

LEMMA Divided ==
  ASSUME NEW y \in Int, NEW r \in Nat, r > 0
  PROVE  /\ y \div r \in Int /\ y % r \in 0..r-1 /\ y = (y \div r) * r + (y % r)
         /\ y >= 0 => y \div r \in Nat
<1>1. y \div r \in Int /\ y % r \in 0..r-1 OBVIOUS
<1>2. y = r * (y \div r) + (y % r) OBVIOUS
<1>3. r * (y \div r) = (y \div r) * r BY <1>1
<1>4. ASSUME y >= 0 PROVE y \div r \in Nat
  <2> DEFINE u == y \div r
  <2>1. u \in Int /\ y = u * r + (y % r) BY <1>1, <1>2, <1>3
  <2>. HIDE DEF u
  <2>2. SUFFICES ASSUME -u >= 1 PROVE FALSE BY <2>1 DEF u
  <2>3. (-u) * r >= r BY <2>1, <2>2, ProductGrows
  <2>4. (-u) * r = -(u * r) /\ u * r \in Int BY <2>1
  <2>. QED BY <1>1, <1>4, <2>1, <2>3, <2>4
<1>. QED BY <1>1, <1>2, <1>3, <1>4

LEMMA DividedUnique ==
  ASSUME NEW r \in Nat, r > 0, NEW g \in Int, NEW h \in 0..r-1, NEW y \in Int, y = g * r + h
  PROVE  y \div r = g /\ y % r = h
<1> DEFINE u == y \div r
           v == y % r
<1>1. u \in Int /\ v \in 0..r-1 /\ y = u * r + v BY Divided
<1>. HIDE DEF u, v
<1>2. (g - u) * r = v - h
  <2>1. (g - u) * r = g * r - u * r BY <1>1
  <2>. QED BY <1>1, <2>1
<1>3. CASE g - u >= 1
  <2>1. (g - u) * r >= r BY <1>1, <1>3, ProductGrows
  <2>. QED BY <1>1, <1>2, <2>1
<1>4. CASE u - g >= 1
  <2>1. (u - g) * r >= r BY <1>1, <1>4, ProductGrows
  <2>2. (u - g) * r = -((g - u) * r) BY <1>1
  <2>3. (g - u) * r \in Int BY <1>1
  <2>. QED BY <1>1, <1>2, <2>1, <2>2, <2>3
<1>5. CASE g = u
  <2>1. (g - u) * r = 0 BY <1>5
  <2>. QED BY <1>1, <1>2, <1>5, <2>1 DEF u, v
<1>. QED BY <1>1, <1>3, <1>4, <1>5

(* Order and products.                                                     *)
LEMMA ProductOrder ==
  ASSUME NEW y \in Int, NEW z \in Int, NEW r \in Nat
  PROVE  /\ y <= z => y * r <= z * r
         /\ y * r < z * r => y < z
         /\ y < z /\ r > 0 => y * r + r <= z * r
<1>1. ASSUME NEW u \in Int, NEW v \in Int, u <= v PROVE u * r <= v * r
  <2>1. (v - u) \in Nat /\ (v - u) * r \in Nat BY <1>1
  <2>2. (v - u) * r = v * r - u * r OBVIOUS
  <2>3. u * r \in Int /\ v * r \in Int OBVIOUS
  <2>. QED BY <2>1, <2>2, <2>3
<1>2. y <= z => y * r <= z * r BY <1>1
<1>3. y * r < z * r => y < z
  <2>1. z <= y => z * r <= y * r BY <1>1
  <2>2. z * r \in Int /\ y * r \in Int OBVIOUS
  <2>. QED BY <2>1, <2>2
<1>4. y < z => y * r + r <= z * r
  <2>1. y + 1 \in Int /\ (y < z => y + 1 <= z) OBVIOUS
  <2>2. y < z => (y + 1) * r <= z * r BY <1>1, <2>1
  <2>3. (y + 1) * r = y * r + r OBVIOUS
  <2>. QED BY <2>2, <2>3
<1>. QED BY <1>2, <1>3, <1>4

-----------------------------------------------------------------------------
(* Powers of B, and the numbers the first digits of an array stand for.      *)
Pow(k) == Iterated(k, 1, [u \in Nat \X Nat |-> u[2] * B])
LEMMA PowStep ==
  ASSUME NEW k \in Nat
  PROVE  Pow(k) \in Nat /\ Pow(k) >= 1 /\ Pow(0) = 1 /\ Pow(k + 1) = Pow(k) * B
<1> USE BaseAssumption
<1> DEFINE next == [u \in Nat \X Nat |-> u[2] * B]
           S == Nat \ {0}
           n == k + 1
<1>1. ASSUME NEW j \in 1..n, NEW v \in S PROVE next[<<j, v>>] = v * B /\ next[<<j, v>>] \in S
  <2>1. <<j, v>> \in Nat \X Nat OBVIOUS
  <2>2. next[<<j, v>>] = v * B BY <2>1
  <2>3. v * B >= B BY ProductGrows
  <2>4. v * B \in Nat OBVIOUS
  <2>. QED BY <2>2, <2>3, <2>4
<1>2. 1 \in S /\ n \in Nat /\ k \in 0..n /\ n \in 1..n /\ n - 1 = k OBVIOUS
<1>. HIDE DEF next, S, n
<1>3. /\ Iterated(0, 1, next) = 1
      /\ \A j \in 0..n : Iterated(j, 1, next) \in S
      /\ \A j \in 1..n : Iterated(j, 1, next) = next[<<j, Iterated(j-1, 1, next)>>]
  BY <1>1, <1>2, IteratedFacts
<1>4. Iterated(k, 1, next) \in S BY <1>2, <1>3
<1>5. Iterated(n, 1, next) = Iterated(k, 1, next) * B
  <2>1. Iterated(n, 1, next) = next[<<n, Iterated(k, 1, next)>>] BY <1>2, <1>3
  <2>. QED BY <1>1, <1>2, <1>4, <2>1
<1>6. Pow(k) = Iterated(k, 1, next) /\ Pow(0) = Iterated(0, 1, next) /\ Pow(k + 1) = Iterated(n, 1, next)
  BY DEF Pow, next, n
<1>. QED BY <1>3, <1>4, <1>5, <1>6 DEF S

LEMMA PowSum ==
  ASSUME NEW j \in Nat, NEW k \in Nat
  PROVE  Pow(j + k) = Pow(j) * Pow(k)
<1> DEFINE P == {h \in 0..k : Pow(j + h) = Pow(j) * Pow(h)}
<1>1. 0 \in P
  <2>1. Pow(j) \in Nat /\ Pow(0) = 1 /\ j + 0 = j BY PowStep
  <2>. QED BY <2>1
<1>2. ASSUME NEW h \in 1..k, h - 1 \in P PROVE h \in P
  <2>1. PICK g \in Nat : g = h - 1 /\ g + 1 = h /\ j + g \in Nat /\ (j + g) + 1 = j + h OBVIOUS
  <2>2. PICK y, z \in Nat : y = Pow(j) /\ z = Pow(g) BY <2>1, PowStep
  <2>3. Pow(g + 1) = z * B BY <2>1, <2>2, PowStep
  <2>4. Pow((j + g) + 1) = Pow(j + g) * B BY <2>1, PowStep, Zenon
  <2>5. Pow(j + g) = y * z BY <1>2, <2>1, <2>2
  <2>6. (y * z) * B = y * (z * B) BY <2>2, BaseAssumption
  <2>7. Pow(j + h) = y * Pow(h) BY <2>1, <2>3, <2>4, <2>5, <2>6
  <2>. QED BY <2>2, <2>7
<1>3. \A h \in 0..k : h \in P
  <2>. HIDE DEF P
  <2>. QED BY <1>1, <1>2, Induction
<1>. QED BY <1>3

AllDigits(x, n) == \A u \in 0..n-1 : x[u] \in Digit
Low(x, k) == Iterated(k, 0, [u \in Nat \X Nat |-> u[2] + x[u[1]-1] * Pow(u[1]-1)])
LEMMA LowStep ==
  ASSUME NEW x, NEW n \in Nat, AllDigits(x, n)
  PROVE  /\ Low(x, 0) = 0
         /\ \A k \in 0..n : Low(x, k) \in Nat /\ Low(x, k) < Pow(k)
         /\ \A k \in 0..n-1 : Low(x, k + 1) = Low(x, k) + x[k] * Pow(k)
<1> DEFINE next == [u \in Nat \X Nat |-> u[2] + x[u[1]-1] * Pow(u[1]-1)]
           S == Nat
           first == 0
<1>1. ASSUME NEW j \in 1..n, NEW v \in S PROVE next[<<j, v>>] = v + x[j-1] * Pow(j-1) /\ next[<<j, v>>] \in S
  <2>1. <<j, v>> \in Nat \X Nat OBVIOUS
  <2>2. next[<<j, v>>] = v + x[j-1] * Pow(j-1) BY <2>1
  <2>3. x[j-1] \in Nat /\ Pow(j-1) \in Nat
    <3>1. j - 1 \in 0..n-1 /\ j - 1 \in Nat OBVIOUS
    <3>. QED BY <3>1, PowStep, BaseAssumption DEF AllDigits, Digit
  <2>4. x[j-1] * Pow(j-1) \in Nat BY <2>3
  <2>. QED BY <2>2, <2>4
<1>2. first \in S /\ \A j \in 1..n, v \in S : next[<<j, v>>] \in S BY <1>1
<1>. HIDE DEF next, S, first
<1>3. /\ Iterated(0, first, next) = first
      /\ \A j \in 0..n : Iterated(j, first, next) \in S
      /\ \A j \in 1..n : Iterated(j, first, next) = next[<<j, Iterated(j-1, first, next)>>]
  BY <1>2, IteratedFacts
<1>4. \A k : Low(x, k) = Iterated(k, first, next) BY DEF Low, next, first
<1>5. Low(x, 0) = 0 /\ \A k \in 0..n : Low(x, k) \in Nat BY <1>3, <1>4 DEF S, first
<1>6. ASSUME NEW k \in 0..n-1 PROVE Low(x, k + 1) = Low(x, k) + x[k] * Pow(k)
  <2>1. k + 1 \in 1..n /\ (k + 1) - 1 = k /\ k \in 0..n OBVIOUS
  <2>2. Iterated(k + 1, first, next) = next[<<k + 1, Iterated(k, first, next)>>] BY <1>3, <2>1
  <2>3. Iterated(k, first, next) \in S BY <1>3, <2>1
  <2>4. next[<<k + 1, Iterated(k, first, next)>>] = Iterated(k, first, next) + x[(k+1)-1] * Pow((k+1)-1) BY <1>1, <2>1, <2>3
  <2>. QED BY <1>4, <2>1, <2>2, <2>4
<1> DEFINE P == {k \in 0..n : Low(x, k) < Pow(k)}
<1>7. 0 \in P BY <1>5, PowStep
<1>8. ASSUME NEW k \in 1..n, k - 1 \in P PROVE k \in P
  <2>1. PICK j \in 0..n-1 : j = k - 1 /\ j + 1 = k /\ j \in Nat OBVIOUS
  <2>2. PICK y \in Nat : y = Low(x, j) BY <1>5
  <2>3. PICK z \in Nat : z = Pow(j) /\ Pow(k) = z * B BY <2>1, PowStep
  <2>4. x[j] \in 0..B-1 BY DEF AllDigits, Digit
  <2>5. Low(x, k) = y + x[j] * z BY <1>6, <2>1, <2>2, <2>3
  <2>6. y < z BY <1>8, <2>1, <2>2, <2>3
  <2>7. x[j] * z + z <= B * z BY <2>4, BaseAssumption, ProductOrder
  <2>8. x[j] * z \in Nat /\ B * z = z * B /\ z * B \in Nat BY <2>4, BaseAssumption
  <2>9. Low(x, k) < Pow(k) BY <2>3, <2>5, <2>6, <2>7, <2>8
  <2>. QED BY <2>9
<1>9. \A k \in 0..n : k \in P
  <2>. HIDE DEF P
  <2>. QED BY <1>7, <1>8, Induction
<1>. QED BY <1>5, <1>6, <1>9

(* Only the first k digits count, and zeros at the end do not.               *)
LEMMA LowSame ==
  ASSUME NEW x, NEW y, NEW k \in Nat, AllDigits(x, k), AllDigits(y, k), \A u \in 0..k-1 : x[u] = y[u]
  PROVE  Low(x, k) = Low(y, k)
<1> DEFINE P == {h \in 0..k : Low(x, h) = Low(y, h)}
<1>1. 0 \in P BY LowStep
<1>2. ASSUME NEW h \in 1..k, h - 1 \in P PROVE h \in P
  <2>1. PICK j \in 0..k-1 : j = h - 1 /\ j + 1 = h OBVIOUS
  <2>2. Low(x, j + 1) = Low(x, j) + x[j] * Pow(j) /\ Low(y, j + 1) = Low(y, j) + y[j] * Pow(j) BY LowStep
  <2>3. x[j] = y[j] /\ Low(x, j) = Low(y, j) BY <1>2, <2>1
  <2>4. Low(x, h) = Low(y, h) BY <2>1, <2>2, <2>3, Zenon
  <2>. QED BY <2>4
<1>3. \A h \in 0..k : h \in P
  <2>. HIDE DEF P
  <2>. QED BY <1>1, <1>2, Induction
<1>. QED BY <1>3

LEMMA LowShort ==
  ASSUME NEW x, NEW n \in Nat, NEW k \in 0..n, AllDigits(x, n), \A u \in k..n-1 : x[u] = 0
  PROVE  Low(x, n) = Low(x, k)
<1> DEFINE h == n - k
           P == {g \in 0..h : Low(x, k + g) = Low(x, k)}
<1>1. h \in Nat /\ k + h = n OBVIOUS
<1>2. 0 \in P OBVIOUS
<1>3. ASSUME NEW g \in 1..h, g - 1 \in P PROVE g \in P
  <2>1. PICK j \in 0..n-1 : j = k + (g - 1) /\ j + 1 = k + g /\ j \in k..n-1 /\ j \in Nat BY <1>1
  <2>2. Low(x, j + 1) = Low(x, j) + x[j] * Pow(j) BY LowStep
  <2>3. x[j] * Pow(j) = 0
    <3>1. x[j] = 0 BY <2>1
    <3>2. Pow(j) \in Nat BY <2>1, PowStep
    <3>. QED BY <3>1, <3>2
  <2>4. Low(x, j) = Low(x, k) /\ Low(x, j) \in Nat
    <3>1. Low(x, j) \in Nat BY LowStep
    <3>. QED BY <1>3, <2>1, <3>1
  <2>5. Low(x, k + g) = Low(x, k) BY <2>1, <2>2, <2>3, <2>4
  <2>. QED BY <2>5
<1>4. \A g \in 0..h : g \in P
  <2>. HIDE DEF P, h
  <2>. QED BY <1>1, <1>2, <1>3, Induction
<1>. QED BY <1>1, <1>4

(* Value, which begins with the most significant digit, is the same number.   *)
LEMMA ValueIsLow ==
  ASSUME NEW x, NEW n \in Nat, AllDigits(x, n)
  PROVE  Value(x, n) = Low(x, n)
<1> USE BaseAssumption
<1> DEFINE next == [u \in Nat \X Nat |-> u[2] * B + x[n-u[1]]]
           S == Nat
<1>1. ASSUME NEW j \in 1..n, NEW v \in S PROVE next[<<j, v>>] = v * B + x[n-j] /\ next[<<j, v>>] \in S
  <2>1. <<j, v>> \in Nat \X Nat OBVIOUS
  <2>2. next[<<j, v>>] = v * B + x[n-j] BY <2>1
  <2>3. n - j \in 0..n-1 OBVIOUS
  <2>4. x[n-j] \in Nat BY <2>3 DEF AllDigits, Digit
  <2>5. v * B \in Nat OBVIOUS
  <2>. QED BY <2>2, <2>4, <2>5
<1>2. 0 \in S OBVIOUS
<1>. HIDE DEF next, S
<1>3. PICK f \in [0..n -> S] : Follows(f, n, 0, next) BY <1>1, <1>2, RecursionExists
<1>4. f[0] = 0 /\ \A j \in 1..n : f[j] = f[j-1] * B + x[n-j]
  <2>1. ASSUME NEW j \in 1..n PROVE f[j] = f[j-1] * B + x[n-j]
    <3>1. j - 1 \in 0..n OBVIOUS
    <3>2. f[j-1] \in S BY <1>3, <3>1
    <3>3. f[j] = next[<<j, f[j-1]>>] BY <1>3 DEF Follows
    <3>. QED BY <1>1, <3>2, <3>3
  <2>. QED BY <1>3, <2>1 DEF Follows
<1>5. f = [j \in 0..n |-> IF j = 0 THEN 0 ELSE f[j-1] * B + x[n-j]]
  <2>1. ASSUME NEW j \in 0..n PROVE f[j] = IF j = 0 THEN 0 ELSE f[j-1] * B + x[n-j]
    <3>1. CASE j = 0 BY <1>4, <3>1
    <3>2. CASE j # 0 BY <1>4, <3>2
    <3>. QED BY <3>1, <3>2
  <2>. QED BY <2>1, <1>3
<1> DEFINE g == CHOOSE h : h = [j \in 0..n |-> IF j = 0 THEN 0 ELSE h[j-1] * B + x[n-j]]
<1>6. g = [j \in 0..n |-> IF j = 0 THEN 0 ELSE g[j-1] * B + x[n-j]] BY <1>5
<1>7. Value(x, n) = g[n] BY DEF Value
<1>. HIDE DEF g
<1> DEFINE P == {h \in 0..n : g[h] = f[h]}
<1>8. n \in P
  <2>1. 0 \in P BY <1>5, <1>6
  <2>2. \A h \in 1..n : h - 1 \in P => h \in P BY <1>5, <1>6
  <2>. HIDE DEF P
  <2>. QED BY <2>1, <2>2, Induction
(* The k most significant digits, and the others.                           *)
<1> DEFINE Q == {h \in 0..n : f[h] * Pow(n - h) + Low(x, n - h) = Low(x, n)}
<1>9. 0 \in Q
  <2>1. Pow(n) \in Nat /\ Low(x, n) \in Nat BY PowStep, LowStep
  <2>2. f[0] = 0 /\ n - 0 = n BY <1>4
  <2>. QED BY <2>1, <2>2
<1>10. ASSUME NEW h \in 1..n, h - 1 \in Q PROVE h \in Q
  <2>1. PICK j \in 0..n-1 : j = n - h /\ j + 1 = n - (h - 1) /\ j \in Nat OBVIOUS
  <2>2. PICK v \in Nat : v = f[h-1]
    <3>1. h - 1 \in 0..n OBVIOUS
    <3>. QED BY <1>3, <3>1 DEF S
  <2>3. PICK p \in Nat : p = Pow(j) /\ Pow(j + 1) = p * B BY <2>1, PowStep
  <2>4. PICK y \in Nat, w \in Nat : y = x[j] /\ w = Low(x, j) /\ Low(x, j + 1) = w + y * p
    <3>1. x[j] \in Nat BY <2>1 DEF AllDigits, Digit
    <3>2. Low(x, j) \in Nat /\ Low(x, j + 1) = Low(x, j) + x[j] * Pow(j) BY <2>1, LowStep
    <3>. QED BY <2>3, <3>1, <3>2
  <2>5. f[h] = v * B + y BY <1>4, <2>1, <2>2, <2>4
  <2>6. v * (p * B) + (w + y * p) = Low(x, n) BY <1>10, <2>1, <2>2, <2>3, <2>4
  <2>7. (v * B + y) * p + w = v * (p * B) + (w + y * p)
    <3>1. (v * B + y) * p = (v * B) * p + y * p BY <2>2, <2>3, <2>4
    <3>2. (v * B) * p = v * (p * B) BY <2>2, <2>3
    <3>3. v * (p * B) \in Int /\ y * p \in Int BY <2>2, <2>3, <2>4
    <3>4. PICK d, e \in Int : d = v * (p * B) /\ e = y * p BY <3>3
    <3>5. (v * B + y) * p = d + e BY <3>1, <3>2, <3>4
    <3>6. (d + e) + w = d + (w + e) BY <2>4, <3>4
    <3>. QED BY <3>4, <3>5, <3>6
  <2>8. f[h] * Pow(n - h) + Low(x, n - h) = Low(x, n) BY <2>1, <2>3, <2>4, <2>5, <2>6, <2>7
  <2>. QED BY <2>8
<1>11. n \in Q
  <2>. HIDE DEF Q
  <2>. QED BY <1>9, <1>10, Induction
<1>12. f[n] * Pow(n - n) + Low(x, n - n) = Low(x, n) BY <1>11
<1>13. n - n = 0 /\ Pow(0) = 1 /\ Low(x, 0) = 0 /\ f[n] \in Nat BY <1>3, PowStep, LowStep DEF S
<1>. QED BY <1>7, <1>8, <1>12, <1>13

-----------------------------------------------------------------------------
(* A carry loop whose digits are exact is exact: of the n digits of y, f      *)
(* times, added to the digits from k on of x; g is the sign of the carry.    *)
Looped(s, x, len, k, j, y, C, f, g) ==
  /\ s.digits \in Array(len) /\ s.carry \in C
  /\ \A u \in 0..len-1 : u \notin k..k+j-1 => s.digits[u] = x[u]
  /\ Low(s.digits, k + j) + g * (s.carry * Pow(k + j)) = Low(x, k + j) + f * (Low(y, j) * Pow(k))
StepExact(r, p, q, h, C, f, g) ==
  r.digit \in Digit /\ r.carry \in C /\ r.digit + g * (r.carry * B) = p + f * q + g * h
After(s, at_, r) == [digits |-> [s.digits EXCEPT ![at_] = r.digit], carry |-> r.carry]

LoopSumStep(A, q, P, X, f, g, Y, K, J, dg, cr, xp, yp) ==
  A + g * (q * P) = X + f * (Y * K) /\ dg + g * (cr * B) = xp + f * yp + g * q /\ P = K * J
    => (A + dg * P) + g * (cr * (P * B)) = (X + xp * P) + f * ((Y + yp * J) * K)
LEMMA LoopSum ==
  ASSUME NEW A \in Int, NEW q \in Int, NEW P \in Int, NEW X \in Int, NEW f \in Int, NEW g \in Int,
         NEW Y \in Int, NEW K \in Int, NEW J \in Int, NEW dg \in Int, NEW cr \in Int,
         NEW xp \in Int, NEW yp \in Int
  PROVE  LoopSumStep(A, q, P, X, f, g, Y, K, J, dg, cr, xp, yp)
<1>. SUFFICES ASSUME A + g * (q * P) = X + f * (Y * K), dg + g * (cr * B) = xp + f * yp + g * q, P = K * J
     PROVE  (A + dg * P) + g * (cr * (P * B)) = (X + xp * P) + f * ((Y + yp * J) * K)
  BY DEF LoopSumStep
<1> USE BaseAssumption
<1>1. g * (cr * (P * B)) = P * (g * (cr * B)) OBVIOUS
<1>2. P * (dg + g * (cr * B)) = P * (xp + f * yp + g * q) OBVIOUS
<1>3. PICK z \in Int : z = g * (cr * B) OBVIOUS
<1>4. P * (dg + z) = dg * P + P * z OBVIOUS
<1>5. PICK w, v \in Int : w = f * yp /\ v = g * q OBVIOUS
<1>6. P * (xp + w + v) = xp * P + P * w + P * v OBVIOUS
<1>7. P * v = g * (q * P) /\ P * w = f * ((yp * J) * K)
  <2>1. P * (g * q) = g * (q * P) OBVIOUS
  <2>2. (K * J) * (f * yp) = f * ((yp * J) * K) OBVIOUS
  <2>. QED BY <1>5, <2>1, <2>2
<1>8. f * ((Y + yp * J) * K) = f * (Y * K) + f * ((yp * J) * K)
  <2>1. PICK u, h \in Int : u = Y * K /\ h = yp * J OBVIOUS
  <2>2. (Y + h) * K = u + h * K BY <2>1
  <2>3. f * (u + h * K) = f * u + f * (h * K) BY <2>1
  <2>. QED BY <2>1, <2>2, <2>3
<1>9. PICK r1, r2, r3, r4 \in Int : r1 = dg * P /\ r2 = P * z /\ r3 = xp * P /\ r4 = f * (Y * K) OBVIOUS
<1>10. PICK r5, r6 \in Int : r5 = g * (q * P) /\ r6 = f * ((yp * J) * K) OBVIOUS
<1>11. r1 + r2 = r3 + r6 + r5 BY <1>2, <1>3, <1>4, <1>5, <1>6, <1>7, <1>9, <1>10
<1>12. A + r5 = X + r4 BY <1>9, <1>10
<1>13. (A + r1) + r2 = (X + r3) + (r4 + r6) BY <1>9, <1>10, <1>11, <1>12
<1>. QED BY <1>1, <1>3, <1>8, <1>9, <1>10, <1>13

LEMMA LoopDigit ==
  ASSUME NEW len \in Nat, NEW x \in Array(len), NEW n \in Nat, NEW k \in Nat, k + n <= len,
         NEW y, AllDigits(y, n), NEW C \in SUBSET Digit, NEW f \in Int, NEW g \in Int,
         NEW j \in 1..n, NEW s, Looped(s, x, len, k, j - 1, y, C, f, g),
         NEW r, StepExact(r, x[k+j-1], y[j-1], s.carry, C, f, g)
  PROVE  Looped(After(s, k + j - 1, r), x, len, k, j, y, C, f, g)
<1> USE BaseAssumption
<1>1. PICK h \in 0..n-1 : h = j - 1 /\ h + 1 = j /\ h \in Nat OBVIOUS
<1>2. PICK p \in 0..len-1 : p = k + j - 1 /\ p = k + h /\ p + 1 = k + j /\ p \in Nat BY <1>1
<1> DEFINE D == s.digits
           E == [D EXCEPT ![p] = r.digit]
<1>3. After(s, k + j - 1, r).digits = E /\ After(s, k + j - 1, r).carry = r.carry BY <1>2 DEF After
<1>4. D \in Array(len) /\ E \in Array(len) /\ E[p] = r.digit /\ \A u \in 0..len-1 : u # p => E[u] = D[u]
  BY <1>2 DEF Looped, StepExact, Array
<1>. HIDE DEF E
<1>5. \A u \in 0..len-1 : u \notin k..k+j-1 => E[u] = x[u]
  <2>. SUFFICES ASSUME NEW u \in 0..len-1, u \notin k..k+j-1 PROVE E[u] = x[u] OBVIOUS
  <2>1. u # p /\ u \notin k..k+h-1 BY <1>1, <1>2
  <2>2. D[u] = x[u] BY <1>1, <2>1 DEF Looped
  <2>. QED BY <1>4, <2>1, <2>2
<1>6. AllDigits(x, len) /\ AllDigits(D, len) /\ AllDigits(E, len) /\ AllDigits(D, p) /\ AllDigits(E, p)
  BY <1>2, <1>4 DEF AllDigits, Array
<1>7. Low(E, p) = Low(D, p)
  <2>1. \A u \in 0..p-1 : E[u] = D[u] BY <1>2, <1>4
  <2>. QED BY <1>2, <1>6, <2>1, LowSame
<1>8. PICK K \in Nat, J \in Nat, P \in Nat : K = Pow(k) /\ J = Pow(h) /\ P = Pow(p) /\ P = K * J /\ Pow(p + 1) = P * B
  <2>1. Pow(k) \in Nat /\ Pow(h) \in Nat /\ Pow(p) \in Nat /\ Pow(p + 1) = Pow(p) * B BY <1>1, <1>2, PowStep
  <2>2. Pow(k + h) = Pow(k) * Pow(h) BY <1>1, PowSum
  <2>. QED BY <1>2, <2>1, <2>2
<1>9. PICK A \in Nat : A = Low(D, p) /\ Low(E, p + 1) = A + r.digit * P
  <2>1. Low(E, p + 1) = Low(E, p) + E[p] * Pow(p) BY <1>2, <1>6, LowStep
  <2>2. Low(D, p) \in Nat BY <1>2, <1>6, LowStep
  <2>. QED BY <1>4, <1>7, <1>8, <2>1, <2>2
<1>10. PICK X \in Nat, xp \in Nat : X = Low(x, p) /\ xp = x[p] /\ Low(x, p + 1) = X + xp * P
  <2>1. Low(x, p + 1) = Low(x, p) + x[p] * Pow(p) /\ Low(x, p) \in Nat BY <1>2, <1>6, LowStep
  <2>2. x[p] \in Nat BY <1>2 DEF Array, Digit
  <2>. QED BY <1>8, <2>1, <2>2
<1>11. PICK Y \in Nat, yp \in Nat : Y = Low(y, h) /\ yp = y[h] /\ Low(y, j) = Y + yp * J
  <2>1. Low(y, h + 1) = Low(y, h) + y[h] * Pow(h) /\ Low(y, h) \in Nat BY <1>1, LowStep
  <2>2. y[h] \in Nat BY <1>1 DEF AllDigits, Digit
  <2>. QED BY <1>1, <1>8, <2>1, <2>2
<1>12. PICK dg \in Int, cr \in Int, q \in Int : dg = r.digit /\ cr = r.carry /\ q = s.carry
  <2>1. r.digit \in Digit /\ r.carry \in C /\ s.carry \in C BY DEF StepExact, Looped
  <2>2. \A z \in Digit : z \in Int BY DEF Digit
  <2>. QED BY <2>1, <2>2
<1>13. A + g * (q * P) = X + f * (Y * K) BY <1>1, <1>2, <1>8, <1>9, <1>10, <1>11, <1>12 DEF Looped
<1>14. dg + g * (cr * B) = xp + f * yp + g * q BY <1>1, <1>2, <1>10, <1>11, <1>12 DEF StepExact
<1>15. (A + dg * P) + g * (cr * (P * B)) = (X + xp * P) + f * ((Y + yp * J) * K)
  <2>1. /\ A \in Int /\ P \in Int /\ X \in Int /\ Y \in Int /\ K \in Int /\ J \in Int /\ xp \in Int /\ yp \in Int
        /\ P = K * J
    BY <1>8
  <2>2. LoopSumStep(A, q, P, X, f, g, Y, K, J, dg, cr, xp, yp) BY <2>1, LoopSum
  <2>. QED BY <1>13, <1>14, <2>1, <2>2 DEF LoopSumStep
<1>16. Low(E, k + j) + g * (r.carry * Pow(k + j)) = Low(x, k + j) + f * (Low(y, j) * Pow(k))
  BY <1>2, <1>8, <1>9, <1>10, <1>11, <1>12, <1>15
<1>. QED BY <1>3, <1>4, <1>5, <1>16 DEF Looped, StepExact

LEMMA LoopFact ==
  ASSUME NEW len \in Nat, NEW x \in Array(len), NEW n \in Nat, NEW k \in Nat, k + n <= len,
         NEW y, AllDigits(y, n), NEW C \in SUBSET Digit, 0 \in C, NEW f \in Int, NEW g \in Int,
         NEW step, \A p \in Digit, q \in Digit, h \in C : StepExact(step[<<p, q, h>>], p, q, h, C, f, g)
  PROVE  Looped(Loop(x, k, n, step, y), x, len, k, n, y, C, f, g)
<1> DEFINE S == [digits : Array(len), carry : C]
           first == [digits |-> x, carry |-> 0]
           next == [u \in (1..n) \X S |-> After(u[2], k + u[1] - 1, step[<<x[k+u[1]-1], y[u[1]-1], u[2].carry>>])]
<1>1. ASSUME NEW j \in 1..n, NEW s \in S
      PROVE  /\ next[<<j, s>>] = After(s, k + j - 1, step[<<x[k+j-1], y[j-1], s.carry>>])
             /\ StepExact(step[<<x[k+j-1], y[j-1], s.carry>>], x[k+j-1], y[j-1], s.carry, C, f, g)
             /\ next[<<j, s>>] \in S
  <2>1. <<j, s>> \in (1..n) \X S OBVIOUS
  <2>2. next[<<j, s>>] = After(s, k + j - 1, step[<<x[k+j-1], y[j-1], s.carry>>]) BY <2>1
  <2>3. k + j - 1 \in 0..len-1 /\ j - 1 \in 0..n-1 OBVIOUS
  <2>4. x[k+j-1] \in Digit /\ y[j-1] \in Digit /\ s.carry \in C /\ s.digits \in Array(len) BY <2>3 DEF Array, AllDigits
  <2>5. PICK r : r = step[<<x[k+j-1], y[j-1], s.carry>>] OBVIOUS
  <2>6. StepExact(r, x[k+j-1], y[j-1], s.carry, C, f, g) BY <2>4, <2>5
  <2>7. [s.digits EXCEPT ![k+j-1] = r.digit] \in Array(len) /\ r.carry \in C BY <2>3, <2>4, <2>6 DEF Array, StepExact
  <2>8. After(s, k + j - 1, r) \in S BY <2>7 DEF After
  <2>. QED BY <2>2, <2>5, <2>6, <2>8
<1>2. first \in S OBVIOUS
<1>3. \A j \in 1..n, s \in S : next[<<j, s>>] \in S BY <1>1
<1>4. Looped(first, x, len, k, 0, y, C, f, g)
  <2>1. PICK X \in Nat, K \in Nat, w \in Nat : X = Low(x, k) /\ K = Pow(k) /\ k + 0 = k /\ w = 0
    <3>1. AllDigits(x, len) /\ k \in 0..len BY DEF Array, AllDigits
    <3>. QED BY <3>1, LowStep, PowStep
  <2>2. Low(y, 0) = 0 BY LowStep
  <2>3. g * (0 * K) = 0 /\ f * (0 * K) = 0
    <3>1. 0 * K = 0 BY <2>1
    <3>. QED BY <3>1
  <2>4. Low(first.digits, k + 0) + g * (first.carry * Pow(k + 0)) = Low(x, k + 0) + f * (Low(y, 0) * Pow(k))
    BY <2>1, <2>2, <2>3
  <2>. QED BY <2>4 DEF Looped
<1>. HIDE DEF S, next
<1>5. PICK F \in [0..n -> S] : Follows(F, n, first, next) BY <1>2, <1>3, RecursionExists
<1>6. F[0] = first /\ \A j \in 1..n : F[j-1] \in S /\ F[j] = After(F[j-1], k + j - 1, step[<<x[k+j-1], y[j-1], F[j-1].carry>>])
  <2>1. ASSUME NEW j \in 1..n
        PROVE  F[j-1] \in S /\ F[j] = After(F[j-1], k + j - 1, step[<<x[k+j-1], y[j-1], F[j-1].carry>>])
    <3>1. j - 1 \in 0..n OBVIOUS
    <3>2. F[j-1] \in S BY <1>5, <3>1
    <3>3. F[j] = next[<<j, F[j-1]>>] BY <1>5 DEF Follows
    <3>. QED BY <1>1, <3>2, <3>3
  <2>. QED BY <1>5, <2>1 DEF Follows
<1> DEFINE Step(G, j) ==
             IF j = 0 THEN [digits |-> x, carry |-> 0]
             ELSE LET r == step[<<x[k+j-1], y[j-1], G[j-1].carry>>]
                  IN [digits |-> [G[j-1].digits EXCEPT ![k+j-1] = r.digit], carry |-> r.carry]
<1>7. F = [j \in 0..n |-> Step(F, j)]
  <2>1. ASSUME NEW j \in 0..n PROVE F[j] = Step(F, j)
    <3>1. CASE j = 0 BY <1>6, <3>1
    <3>2. CASE j # 0
      <4>1. j \in 1..n BY <3>2
      <4>2. F[j] = After(F[j-1], k + j - 1, step[<<x[k+j-1], y[j-1], F[j-1].carry>>]) BY <1>6, <4>1
      <4>. QED BY <3>2, <4>2 DEF After
    <3>. QED BY <3>1, <3>2
  <2>. HIDE DEF Step
  <2>. QED BY <1>5, <2>1
<1> DEFINE G == CHOOSE H : H = [j \in 0..n |-> Step(H, j)]
<1>8. G = [j \in 0..n |-> Step(G, j)]
  <2>. HIDE DEF Step
  <2>. QED BY <1>7
<1>9. Loop(x, k, n, step, y) = G[n] BY DEF Loop
<1>. HIDE DEF G
<1> DEFINE P == {j \in 0..n : G[j] = F[j]}
<1>10. n \in P
  <2>1. 0 \in P BY <1>7, <1>8
  <2>2. ASSUME NEW j \in 1..n, j - 1 \in P PROVE j \in P
    <3>1. G[j-1] = F[j-1] /\ j # 0 /\ j \in 0..n BY <2>2
    <3>2. Step(G, j) = Step(F, j) BY <3>1
    <3>. HIDE DEF Step
    <3>. QED BY <1>7, <1>8, <3>1, <3>2
  <2>. HIDE DEF P
  <2>3. \A j \in 0..n : j \in P BY <2>1, <2>2, Induction
  <2>. QED BY <2>3
<1> DEFINE Q == {j \in 0..n : Looped(F[j], x, len, k, j, y, C, f, g)}
<1>11. n \in Q
  <2>1. 0 \in Q BY <1>4, <1>6
  <2>2. ASSUME NEW j \in 1..n, j - 1 \in Q PROVE j \in Q
    <3>1. PICK s : s = F[j-1] /\ s \in S /\ Looped(s, x, len, k, j - 1, y, C, f, g) BY <1>6, <2>2
    <3>2. PICK r : r = step[<<x[k+j-1], y[j-1], s.carry>>] OBVIOUS
    <3>3. StepExact(r, x[k+j-1], y[j-1], s.carry, C, f, g) BY <1>1, <3>1, <3>2
    <3>4. Looped(After(s, k + j - 1, r), x, len, k, j, y, C, f, g) BY <3>1, <3>3, LoopDigit
    <3>5. F[j] = After(s, k + j - 1, r) BY <1>6, <3>1, <3>2
    <3>. QED BY <3>4, <3>5
  <2>. HIDE DEF Q
  <2>3. \A j \in 0..n : j \in Q BY <2>1, <2>2, Induction
  <2>. QED BY <2>3
<1>. QED BY <1>9, <1>10, <1>11

-----------------------------------------------------------------------------
(* bn_mul.                                                                 *)
CONSTANTS ByteBase, DigitBytes      \* of bn_decode and bn_encode
VARIABLES digits, t, bdigits, cdigits, at
Mul == INSTANCE BnMul WITH MulDigits <- MaxDigits, pc <- at

LEMMA MulNames ==
  /\ Mul!Digit = Digit
  /\ \A n : Mul!Array(n) = Array(n) /\ Mul!bn_assign_zero(n) = bn_assign_zero(n)
  /\ \A x, n : Mul!Value(x, n) = Value(x, n)
  /\ \A x, k, n, step, y : Mul!Loop(x, k, n, step, y) = Loop(x, k, n, step, y)
  /\ \A p, f, q, h : Mul!AddMulDigit(p, f, q, h) = AddMulDigit(p, f, q, h)
<1>1. Mul!Digit = Digit BY DEF Mul!Digit, Digit
<1>2. \A n : Mul!Array(n) = Array(n) /\ Mul!bn_assign_zero(n) = bn_assign_zero(n)
  BY <1>1 DEF Mul!Array, Array, Mul!bn_assign_zero, bn_assign_zero
<1>3. \A x, n : Mul!Value(x, n) = Value(x, n) BY DEF Mul!Value, Value
<1>4. \A x, k, n, step, y : Mul!Loop(x, k, n, step, y) = Loop(x, k, n, step, y) BY DEF Mul!Loop, Loop
<1>5. \A p, f, q, h : Mul!AddMulDigit(p, f, q, h) = AddMulDigit(p, f, q, h) BY DEF Mul!AddMulDigit, AddMulDigit
<1>. QED BY <1>1, <1>2, <1>3, <1>4, <1>5

(* The number of digits without leading zeros.                                *)
LeadingZeros(y, n, k) == k \in 0..n /\ (k > 0 => y[k-1] # 0) /\ \A h \in k..n-1 : y[h] = 0
LEMMA LeadingZerosExist ==
  ASSUME NEW n \in Nat, NEW y
  PROVE  \E k \in 0..n : (k > 0 => y[k-1] # 0) /\ \A h \in k..n-1 : y[h] = 0
<1> DEFINE S == {k \in 0..n : \A h \in k..n-1 : y[h] = 0}
<1>1. n \in S /\ S \in SUBSET Nat OBVIOUS
<1>2. PICK l \in S : \A k \in S : l <= k
  <2>. HIDE DEF S
  <2>. QED BY <1>1, LeastNumber
<1>3. l > 0 => y[l-1] # 0
  <2>. SUFFICES ASSUME l > 0, y[l-1] = 0 PROVE FALSE OBVIOUS
  <2>1. l - 1 \in 0..n /\ \A h \in l-1..n-1 : h = l - 1 \/ h \in l..n-1 OBVIOUS
  <2>2. l - 1 \in S BY <2>1
  <2>. QED BY <1>2, <2>2
<1>. QED BY <1>3

LEMMA MulDigitsFact ==
  ASSUME NEW n \in Nat, NEW y
  PROVE  LeadingZeros(y, n, Mul!bn_digits(y, n))
<1> DEFINE u == CHOOSE k \in 0..n : (k > 0 => y[k-1] # 0) /\ \A h \in k..n-1 : y[h] = 0
<1>1. u \in 0..n /\ (u > 0 => y[u-1] # 0) /\ \A h \in u..n-1 : y[h] = 0 BY LeadingZerosExist
<1>2. Mul!bn_digits(y, n) = u BY DEF Mul!bn_digits
<1>. HIDE DEF u
<1>. QED BY <1>1, <1>2 DEF LeadingZeros

(* A digit of b times c, added from digit i on.                              *)
LEMMA AddMulFact ==
  ASSUME NEW len \in Nat, t \in Array(len), NEW n \in Nat, NEW k \in Nat, k + n <= len,
         NEW y, AllDigits(y, n), NEW f \in Digit
  PROVE  Looped(Mul!AddMul(k, n, f, y), t, len, k, n, y, Digit, f, 1)
<1> USE BaseAssumption
<1>1. f \in Int /\ 0 \in Digit /\ \A z \in Digit : z \in Int BY DEF Digit
<1>2. CASE f = 0
  <2>1. Mul!AddMul(k, n, f, y) = [digits |-> t, carry |-> 0] BY <1>2 DEF Mul!AddMul
  <2>2. PICK s : s = Mul!AddMul(k, n, f, y) /\ s.digits = t /\ s.carry = 0 BY <2>1
  <2>3. PICK K \in Nat, X \in Nat, Y \in Nat, J \in Nat :
          K = Pow(k + n) /\ X = Low(t, k + n) /\ Y = Low(y, n) /\ J = Pow(k)
    <3>1. AllDigits(t, len) /\ k + n \in 0..len /\ n \in 0..n BY DEF Array, AllDigits
    <3>2. Low(t, k + n) \in Nat BY <3>1, LowStep
    <3>3. Low(y, n) \in Nat BY <3>1, LowStep
    <3>4. Pow(k + n) \in Nat /\ Pow(k) \in Nat BY PowStep
    <3>. QED BY <3>2, <3>3, <3>4
  <2>4. 1 * (0 * K) = 0 /\ 0 * (Y * J) = 0
    <3>1. Y * J \in Int BY <2>3
    <3>. QED BY <2>3, <3>1
  <2>5. Low(s.digits, k + n) + 1 * (s.carry * Pow(k + n)) = Low(t, k + n) + f * (Low(y, n) * Pow(k))
    BY <1>2, <2>2, <2>3, <2>4
  <2>6. s.digits \in Array(len) /\ s.carry \in Digit BY <1>1, <2>2
  <2>. QED BY <2>2, <2>5, <2>6 DEF Looped
<1>3. CASE f # 0
  <2> DEFINE step == [u \in Digit \X Digit \X Digit |-> AddMulDigit(u[1], f, u[2], u[3])]
  <2>1. Mul!AddMul(k, n, f, y) = Loop(t, k, n, step, y) BY <1>3, MulNames DEF Mul!AddMul
  <2>2. ASSUME NEW p \in Digit, NEW q \in Digit, NEW h \in Digit
        PROVE  StepExact(step[<<p, q, h>>], p, q, h, Digit, f, 1)
    <3>1. PICK r : r = AddMulDigit(p, f, q, h) OBVIOUS
    <3>2. r.digit \in Digit /\ r.carry \in Digit /\ r.digit + r.carry * B = p + f * q + h BY <3>1, AddMulDigitFact
    <3>3. step[<<p, q, h>>] = r BY <3>1
    <3>4. PICK z, e \in Int : z = r.digit /\ e = r.carry BY <1>1, <3>2
    <3>5. 1 * (e * B) = e * B /\ 1 * h = h BY <1>1, <3>4
    <3>6. r.digit + 1 * (r.carry * B) = p + f * q + 1 * h BY <3>2, <3>4, <3>5
    <3>. QED BY <3>2, <3>3, <3>6 DEF StepExact
  <2>3. Digit \in SUBSET Digit /\ 1 \in Int OBVIOUS
  <2>. HIDE DEF step
  <2>4. Looped(Loop(t, k, n, step, y), t, len, k, n, y, Digit, f, 1) BY <1>1, <2>2, <2>3, LoopFact
  <2>. QED BY <2>1, <2>4
<1>. QED BY <1>2, <1>3

(* The inductive invariant: t is the product of the digits of b so far and c. *)
MulArguments == digits \in Nat /\ b \in Array(digits) /\ c \in Array(digits) /\ at \in {"start", "loop", "done"}
Multiplied ==
  /\ LeadingZeros(b, digits, bdigits) /\ LeadingZeros(c, digits, cdigits)
  /\ i \in 0..bdigits /\ t \in Array(2 * digits)
  /\ \A u \in i + cdigits .. 2 * digits - 1 : t[u] = 0
  /\ Low(t, i + cdigits) = Low(b, i) * Low(c, cdigits)
MulInv ==
  /\ MulArguments
  /\ at = "start" => i = 0
  /\ at = "loop" => Multiplied
  /\ at = "done" => Value(a, 2 * digits) = Value(b, digits) * Value(c, digits)

LEMMA MulInitial == Mul!Init => MulInv
BY MulNames, DigitsAssumption DEF Mul!Init, MulInv, MulArguments

LEMMA MulStartStep == MulInv /\ Mul!Start => MulInv'
<1>. SUFFICES ASSUME MulInv, Mul!Start PROVE MulInv' OBVIOUS
<1>1. /\ at = "start" /\ at' = "loop" /\ t' = bn_assign_zero(2 * digits) /\ UNCHANGED <<b, c, digits, a, i>>
      /\ bdigits' = Mul!bn_digits(b, digits) /\ cdigits' = Mul!bn_digits(c, digits)
  BY MulNames DEF Mul!Start
<1>2. MulArguments /\ i = 0 /\ digits \in Nat BY <1>1 DEF MulInv, MulArguments
<1>3. MulArguments' BY <1>1, <1>2 DEF MulArguments
<1>4. LeadingZeros(b, digits, bdigits) ' /\ LeadingZeros(c, digits, cdigits) ' BY <1>1, <1>2, MulDigitsFact
<1>5. bdigits' \in 0..digits /\ cdigits' \in 0..digits BY <1>1, <1>4 DEF LeadingZeros
<1>6. t' \in Array(2 * digits) /\ \A u \in 0 .. 2 * digits - 1 : t'[u] = 0
  BY <1>1, BaseAssumption DEF bn_assign_zero, Array, Digit
<1>7. Low(t', i + cdigits') = Low(b, i) * Low(c, cdigits')
  <2>1. PICK k \in 0..digits : k = cdigits' /\ k \in Nat /\ 0 + k = k /\ 0 \in 0..k BY <1>2, <1>5
  <2>2. PICK x : x = t' /\ \A u \in 0..k-1 : x[u] = 0
    <3>0. PICK len \in Nat : len = digits BY <1>2
    <3>1. k <= 2 * len BY <2>1, <3>0
    <3>2. \A u \in 0..k-1 : u \in 0 .. 2 * digits - 1
      <4>0. k \in Int /\ len \in Int BY <2>1, <3>0
      <4>1. \A u \in 0..k-1 : u \in 0 .. 2 * len - 1 BY <3>1, <4>0
      <4>. QED BY <3>0, <4>1
    <3>. QED BY <1>6, <3>2
  <2>3. AllDigits(x, k) /\ AllDigits(b, digits) /\ AllDigits(c, digits)
    BY <1>2, <2>2, BaseAssumption DEF AllDigits, Array, MulArguments, Digit
  <2>4. Low(x, k) = Low(x, 0) BY <2>1, <2>2, <2>3, LowShort
  <2>5. Low(x, 0) = 0 /\ Low(b, 0) = 0 /\ Low(c, k) \in Nat BY <1>2, <2>1, <2>3, LowStep
  <2>. QED BY <1>2, <2>1, <2>2, <2>4, <2>5
<1>8. Multiplied'
  <2>1. i' \in 0..bdigits' BY <1>1, <1>2, <1>5
  <2>2. \A u \in i' + cdigits' .. 2 * digits' - 1 : t'[u] = 0 BY <1>1, <1>2, <1>5, <1>6
  <2>. QED BY <1>1, <1>4, <1>6, <1>7, <2>1, <2>2 DEF Multiplied
<1>. QED BY <1>1, <1>3, <1>8 DEF MulInv

LEMMA MulDigitStep == MulInv /\ Mul!MulDigit => MulInv'
<1>. SUFFICES ASSUME MulInv, Mul!MulDigit PROVE MulInv' OBVIOUS
<1> USE BaseAssumption
<1>1. /\ at = "loop" /\ i < bdigits /\ i' = i + 1 /\ UNCHANGED <<b, c, digits, a, bdigits, cdigits, at>>
      /\ t' = Mul!CarryAt(Mul!AddMul(i, cdigits, b[i], c))
  BY DEF Mul!MulDigit
<1>2. MulArguments /\ Multiplied BY <1>1 DEF MulInv
<1>3. /\ digits \in Nat /\ bdigits \in 0..digits /\ cdigits \in 0..digits /\ i \in 0..digits-1 /\ i \in Nat
      /\ t \in Array(2 * digits) /\ AllDigits(b, digits) /\ AllDigits(c, digits) /\ AllDigits(t, 2 * digits)
  BY <1>1, <1>2 DEF MulArguments, Multiplied, LeadingZeros, AllDigits, Array
<1>4. PICK len \in Nat : len = 2 * digits BY <1>3
<1>5. PICK p \in 0..len-1 : p = i + cdigits /\ p \in Nat BY <1>3, <1>4
<1>6. PICK f \in Digit : f = b[i] BY <1>3 DEF AllDigits
<1>7. PICK s : s = Mul!AddMul(i, cdigits, f, c) /\ Looped(s, t, len, i, cdigits, c, Digit, f, 1)
  <2>1. i + cdigits <= len /\ cdigits \in Nat /\ AllDigits(c, cdigits) BY <1>3, <1>4 DEF AllDigits
  <2>. QED BY <1>3, <1>4, <2>1, AddMulFact
<1>8. /\ s.digits \in Array(len) /\ s.carry \in Digit
      /\ \A u \in 0..len-1 : u \notin i..i+cdigits-1 => s.digits[u] = t[u]
      /\ Low(s.digits, p) + 1 * (s.carry * Pow(p)) = Low(t, p) + f * (Low(c, cdigits) * Pow(i))
  BY <1>5, <1>7 DEF Looped
<1>9. s.digits[p] = 0
  <2>1. t[p] = 0 BY <1>2, <1>4, <1>5 DEF Multiplied
  <2>2. p \notin i..i+cdigits-1 BY <1>3, <1>5
  <2>. QED BY <1>5, <1>8, <2>1, <2>2
<1>10. t' = [s.digits EXCEPT ![p] = s.carry]
  <2>1. t' = [s.digits EXCEPT ![p] = (s.digits[p] + s.carry) % B] BY <1>1, <1>5, <1>6, <1>7 DEF Mul!CarryAt
  <2>2. (0 + s.carry) % B = s.carry
    <3>1. 0 + s.carry = s.carry BY <1>8 DEF Digit
    <3>. QED BY <1>8, <3>1, WrapSmall
  <2>. QED BY <1>9, <2>1, <2>2
<1>11. t' \in Array(len) /\ t'[p] = s.carry /\ \A u \in 0..len-1 : u # p => t'[u] = s.digits[u]
  BY <1>5, <1>8, <1>10 DEF Array
<1>12. \A u \in (i + 1) + cdigits .. len - 1 : t'[u] = 0
  <2>. SUFFICES ASSUME NEW u \in (i + 1) + cdigits .. len - 1 PROVE t'[u] = 0 OBVIOUS
  <2>1. u \in 0..len-1 /\ u # p /\ u \notin i..i+cdigits-1 /\ u \in i + cdigits .. len - 1 BY <1>3, <1>4, <1>5
  <2>2. t[u] = 0 BY <1>2, <1>4, <2>1 DEF Multiplied
  <2>. QED BY <1>8, <1>11, <2>1, <2>2
<1>13. Low(t', p) = Low(s.digits, p) /\ Low(t', p + 1) = Low(t', p) + s.carry * Pow(p) /\ Low(t', p) \in Nat
  <2>1. AllDigits(t', len) /\ AllDigits(t', p) /\ AllDigits(s.digits, p)
    <3>1. \A u \in 0..p-1 : u \in 0..len-1 BY <1>5
    <3>2. AllDigits(t', len) /\ AllDigits(s.digits, len) BY <1>8, <1>11 DEF AllDigits, Array
    <3>. QED BY <3>1, <3>2 DEF AllDigits
  <2>2. \A u \in 0..p-1 : t'[u] = s.digits[u] BY <1>5, <1>11
  <2>3. Low(t', p) = Low(s.digits, p) BY <1>5, <2>1, <2>2, LowSame
  <2>4. Low(t', p + 1) = Low(t', p) + t'[p] * Pow(p) /\ Low(t', p) \in Nat BY <1>5, <2>1, LowStep
  <2>. QED BY <1>11, <2>3, <2>4
<1>14. PICK Y \in Nat, W \in Nat, K \in Nat, P \in Nat, q \in Nat :
         Y = Low(b, i) /\ W = Low(c, cdigits) /\ K = Pow(i) /\ P = Pow(p) /\ q = s.carry
  <2>1. Low(b, i) \in Nat /\ Low(c, cdigits) \in Nat BY <1>3, LowStep
  <2>2. Pow(i) \in Nat /\ Pow(p) \in Nat BY <1>3, <1>5, PowStep
  <2>3. s.carry \in Nat BY <1>8 DEF Digit
  <2>. QED BY <2>1, <2>2, <2>3
<1>15. Low(b, i + 1) = Y + f * K BY <1>3, <1>6, <1>14, LowStep
<1>16. Low(t', p + 1) = (Y + f * K) * W
  <2>1. f \in Nat BY <1>6 DEF Digit
  <2>2. Low(t, p) = Y * W BY <1>2, <1>5, <1>14 DEF Multiplied
  <2>3. 1 * (q * P) = q * P BY <1>14
  <2>4. Low(t', p + 1) = Y * W + f * (W * K) BY <1>8, <1>13, <1>14, <2>2, <2>3
  <2>5. (Y + f * K) * W = Y * W + (f * K) * W BY <1>14, <2>1
  <2>6. (f * K) * W = f * (W * K) BY <1>14, <2>1
  <2>. QED BY <2>4, <2>5, <2>6
<1>17. Multiplied'
  <2>1. i' \in 0..bdigits' /\ i' + cdigits' = p + 1 BY <1>1, <1>3, <1>5
  <2>2. Low(t', i' + cdigits') = Low(b', i') * Low(c', cdigits') BY <1>1, <1>14, <1>15, <1>16, <2>1
  <2>3. LeadingZeros(b, digits, bdigits) ' /\ LeadingZeros(c, digits, cdigits) ' BY <1>1, <1>2 DEF Multiplied
  <2>4. \A u \in i' + cdigits' .. 2 * digits' - 1 : t'[u] = 0 BY <1>1, <1>4, <1>12
  <2>5. t' \in Array(2 * digits') BY <1>1, <1>4, <1>11
  <2>. QED BY <2>1, <2>2, <2>3, <2>4, <2>5 DEF Multiplied
<1>18. MulArguments' BY <1>1, <1>2 DEF MulArguments
<1>. QED BY <1>1, <1>17, <1>18 DEF MulInv

LEMMA MulReturnStep == MulInv /\ Mul!Return => MulInv'
<1>. SUFFICES ASSUME MulInv, Mul!Return PROVE MulInv' OBVIOUS
<1>1. at = "loop" /\ i = bdigits /\ a' = t /\ at' = "done" /\ UNCHANGED <<b, c, digits, t, bdigits, cdigits, i>>
  BY DEF Mul!Return
<1>2. MulArguments /\ Multiplied BY <1>1 DEF MulInv
<1>3. /\ digits \in Nat /\ bdigits \in 0..digits /\ cdigits \in 0..digits /\ i = bdigits
      /\ AllDigits(b, digits) /\ AllDigits(c, digits) /\ AllDigits(t, 2 * digits)
      /\ \A u \in bdigits..digits-1 : b[u] = 0
      /\ \A u \in cdigits..digits-1 : c[u] = 0
      /\ \A u \in i + cdigits .. 2 * digits - 1 : t[u] = 0
  BY <1>1, <1>2 DEF MulArguments, Multiplied, LeadingZeros, AllDigits, Array
<1>4. Low(b, digits) = Low(b, bdigits) /\ Low(c, digits) = Low(c, cdigits) BY <1>3, LowShort
<1>5. Low(t, 2 * digits) = Low(t, i + cdigits)
  <2>1. 2 * digits \in Nat /\ i + cdigits \in 0 .. 2 * digits BY <1>3
  <2>. QED BY <1>3, <2>1, LowShort
<1>6. Low(t, 2 * digits) = Low(b, digits) * Low(c, digits) BY <1>1, <1>2, <1>4, <1>5 DEF Multiplied
<1>7. Value(t, 2 * digits) = Low(t, 2 * digits)
  <2>1. 2 * digits \in Nat BY <1>3
  <2>. QED BY <1>3, <2>1, ValueIsLow
<1>8. Value(b, digits) = Low(b, digits) /\ Value(c, digits) = Low(c, digits) BY <1>3, ValueIsLow
<1>9. MulArguments' BY <1>1, <1>2 DEF MulArguments
<1>. QED BY <1>1, <1>6, <1>7, <1>8, <1>9 DEF MulInv

(* The product is exact for every size of a digit, every number of digits and  *)
(* every content: bn_mul.                                                   *)
THEOREM MulExact == Mul!Spec => []Mul!ProductExact
<1>1. MulInv /\ [Mul!Next]_(Mul!mulvars) => MulInv'
  <2>. SUFFICES ASSUME MulInv, [Mul!Next]_(Mul!mulvars) PROVE MulInv' OBVIOUS
  <2>1. CASE UNCHANGED Mul!mulvars
    <3>1. UNCHANGED <<b, c, digits, a, t, bdigits, cdigits, i, at>> BY <2>1 DEF Mul!mulvars
    <3>. QED BY <3>1, ZenonT(30) DEF MulInv, MulArguments, Multiplied
  <2>. QED BY <2>1, MulStartStep, MulDigitStep, MulReturnStep DEF Mul!Next
<1>2. MulInv => Mul!ProductExact BY MulNames DEF MulInv, Mul!ProductExact
<1>. QED BY <1>1, <1>2, MulInitial, PTL DEF Mul!Spec

-----------------------------------------------------------------------------
(* bn_div: powers of two.  All the provers know of them is how many subsets a *)
(* set of numbers has.                                                     *)
LEMMA TwoTo ==
  ASSUME NEW k \in Nat
  PROVE  2^k \in Nat /\ 2^k >= 1 /\ 2^0 = 1 /\ 2^(k + 1) = 2 * 2^k
<1> DEFINE e == k + 1
           S == 1..k
           N == 1..e
           f == [x \in SUBSET S |-> x \cup {e}]
           W == {x \cup {e} : x \in SUBSET S}
<1>1. \A h \in Nat : IsFiniteSet(1..h) /\ Cardinality(1..h) = h
  <2>. SUFFICES ASSUME NEW h \in Nat PROVE IsFiniteSet(1..h) /\ Cardinality(1..h) = h OBVIOUS
  <2>1. 1 \in Int /\ h \in Int OBVIOUS
  <2>2. IsFiniteSet(1..h) /\ Cardinality(1..h) = IF 1 > h THEN 0 ELSE h-1+1 BY <2>1, FS_Interval
  <2>. QED BY <2>2
<1>2. \A h \in Nat : IsFiniteSet(SUBSET (1..h)) /\ Cardinality(SUBSET (1..h)) = 2^h
  <2>. SUFFICES ASSUME NEW h \in Nat PROVE IsFiniteSet(SUBSET (1..h)) /\ Cardinality(SUBSET (1..h)) = 2^h OBVIOUS
  <2>1. IsFiniteSet(1..h) /\ Cardinality(1..h) = h BY <1>1
  <2>2. IsFiniteSet(SUBSET (1..h)) /\ Cardinality(SUBSET (1..h)) = 2^Cardinality(1..h) BY <2>1, FS_SUBSET
  <2>. QED BY <2>1, <2>2
<1>3. e \in Nat /\ e \notin S /\ N = S \cup {e} OBVIOUS
<1>4. IsFiniteSet(SUBSET S) /\ Cardinality(SUBSET S) = 2^k /\ IsFiniteSet(SUBSET N) /\ Cardinality(SUBSET N) = 2^e
  BY <1>2, <1>3
<1>. HIDE DEF e, S, N
<1>5. f \in Bijection(SUBSET S, W)
  <2>1. f \in [SUBSET S -> W] OBVIOUS
  <2>2. \A x, y \in SUBSET S : f[x] = f[y] => x = y
    <3>. SUFFICES ASSUME NEW x \in SUBSET S, NEW y \in SUBSET S, x \cup {e} = y \cup {e} PROVE x = y OBVIOUS
    <3>1. e \notin x /\ e \notin y BY <1>3
    <3>. QED BY <3>1
  <2>3. \A z \in W : \E x \in SUBSET S : f[x] = z OBVIOUS
  <2>. HIDE DEF f, W
  <2>. QED BY <2>1, <2>2, <2>3 DEF Bijection, Injection, Surjection, IsInjective
<1>6. IsFiniteSet(W) /\ Cardinality(W) = 2^k
  <2>1. ExistsBijection(SUBSET S, W) BY <1>5 DEF ExistsBijection
  <2>. HIDE DEF W
  <2>. QED BY <1>4, <2>1, FS_Bijection
<1>7. SUBSET N = (SUBSET S) \cup W /\ (SUBSET S) \cap W = {}
  <2>1. ASSUME NEW y \in SUBSET N PROVE y \in (SUBSET S) \cup W
    <3>1. CASE e \in y
      <4>1. y \ {e} \in SUBSET S /\ y = (y \ {e}) \cup {e} BY <1>3, <3>1
      <4>. QED BY <4>1
    <3>2. CASE e \notin y BY <1>3, <3>2
    <3>. QED BY <3>1, <3>2
  <2>2. (SUBSET S) \cup W \in SUBSET (SUBSET N) BY <1>3
  <2>3. \A y \in W : y \notin SUBSET S BY <1>3
  <2>. QED BY <2>1, <2>2, <2>3
<1>8. 2^e = 2^k + 2^k
  <2>. HIDE DEF W
  <2>1. Cardinality((SUBSET S) \cup W) = Cardinality(SUBSET S) + Cardinality(W) - Cardinality((SUBSET S) \cap W)
    BY <1>4, <1>6, FS_Union
  <2>2. Cardinality((SUBSET S) \cap W) = 0 BY <1>7, FS_EmptySet
  <2>3. PICK z \in Nat : z = Cardinality(SUBSET S) BY <1>4, FS_CardinalityType
  <2>4. Cardinality(W) = z BY <1>4, <1>6, <2>3
  <2>5. Cardinality(SUBSET N) = z + z - 0 BY <1>7, <2>1, <2>2, <2>3, <2>4, Zenon
  <2>6. 2^e = z + z - 0 BY <1>4, <2>5, Zenon
  <2>7. z = 2^k BY <1>4, <2>3
  <2>8. z + z - 0 = z + z BY <2>3
  <2>. QED BY <2>6, <2>7, <2>8, Zenon
<1>9. 2^k \in Nat /\ 2^k # 0
  <2>1. Cardinality(SUBSET S) \in Nat BY <1>4, FS_CardinalityType
  <2>2. SUBSET S # {} OBVIOUS
  <2>3. Cardinality(SUBSET S) # 0 BY <1>4, <2>2, FS_EmptySet
  <2>. QED BY <1>4, <2>1, <2>3
<1>10. 2^0 = 1
  <2>1. 1..0 = {} /\ SUBSET {} = {{}} OBVIOUS
  <2>2. Cardinality({{}}) = 1 BY FS_Singleton
  <2>3. Cardinality(SUBSET (1..0)) = 2^0 BY <1>2
  <2>. QED BY <2>1, <2>2, <2>3
<1>. QED BY <1>8, <1>9, <1>10 DEF e

LEMMA TwoSum ==
  ASSUME NEW j \in Nat, NEW k \in Nat
  PROVE  2^(j + k) = 2^j * 2^k
<1> DEFINE P == {h \in 0..k : 2^(j + h) = 2^j * 2^h}
<1>1. 0 \in P
  <2>1. 2^j \in Nat /\ 2^0 = 1 /\ j + 0 = j BY TwoTo
  <2>. QED BY <2>1
<1>2. ASSUME NEW h \in 1..k, h - 1 \in P PROVE h \in P
  <2>1. PICK g \in Nat : g = h - 1 /\ g + 1 = h /\ j + g \in Nat /\ (j + g) + 1 = j + h OBVIOUS
  <2>2. PICK y, z \in Nat : y = 2^j /\ z = 2^g BY <2>1, TwoTo
  <2>3. 2^(g + 1) = 2 * z BY <2>1, <2>2, TwoTo
  <2>4. 2^((j + g) + 1) = 2 * 2^(j + g) BY <2>1, TwoTo, Zenon
  <2>5. 2^(j + g) = y * z BY <1>2, <2>1, <2>2
  <2>6. 2 * (y * z) = y * (2 * z) BY <2>2
  <2>7. 2^(j + h) = y * 2^h BY <2>1, <2>3, <2>4, <2>5, <2>6
  <2>. QED BY <2>2, <2>7
<1>3. \A h \in 0..k : h \in P
  <2>. HIDE DEF P
  <2>. QED BY <1>1, <1>2, Induction
<1>. QED BY <1>3

-----------------------------------------------------------------------------
(* bn_div: its shifts.                                                      *)
CONSTANTS DigitBits, MaxC, MaxD
VARIABLES d, ddigits, cc, dd, dddigits, shift, ai, tries
Div == INSTANCE BnDiv WITH BN_DIGIT_BITS <- DigitBits, pc <- at

(* The base is a power of two, with at least a bit.                          *)
DivSetting == DigitBits \in Nat /\ B = 2^DigitBits /\ MaxC \in Nat /\ MaxD \in Nat

LEMMA DivNames ==
  /\ Div!Digit = Digit /\ Div!BN_MAX_DIGIT = B - 1
  /\ \A n : Div!Array(n) = Array(n) /\ Div!bn_assign_zero(n) = bn_assign_zero(n)
  /\ \A x, n : Div!Value(x, n) = Value(x, n)
  /\ \A x, k, n, step, y : Div!Loop(x, k, n, step, y) = Loop(x, k, n, step, y)
  /\ \A p, f, q, h : Div!SubMulDigit(p, f, q, h) = SubMulDigit(p, f, q, h)
  /\ \A p, q, h : Div!SubDigit(p, q, h) = SubDigit(p, q, h)
<1>1. Div!Digit = Digit /\ Div!BN_MAX_DIGIT = B - 1 BY DEF Div!Digit, Digit, Div!BN_MAX_DIGIT
<1>2. \A n : Div!Array(n) = Array(n) /\ Div!bn_assign_zero(n) = bn_assign_zero(n)
  BY <1>1 DEF Div!Array, Array, Div!bn_assign_zero, bn_assign_zero
<1>3. \A x, n : Div!Value(x, n) = Value(x, n) BY DEF Div!Value, Value
<1>4. \A x, k, n, step, y : Div!Loop(x, k, n, step, y) = Loop(x, k, n, step, y) BY DEF Div!Loop, Loop
<1>5. \A p, f, q, h : Div!SubMulDigit(p, f, q, h) = SubMulDigit(p, f, q, h)
  BY DEF Div!SubMulDigit, SubMulDigit, Div!BN_MAX_DIGIT, BN_MAX_DIGIT
<1>6. \A p, q, h : Div!SubDigit(p, q, h) = SubDigit(p, q, h)
  BY DEF Div!SubDigit, SubDigit, Div!BN_MAX_DIGIT, BN_MAX_DIGIT
<1>. QED BY <1>1, <1>2, <1>3, <1>4, <1>5, <1>6

LEMMA DivDigitsFact ==
  ASSUME NEW n \in Nat, NEW y
  PROVE  LeadingZeros(y, n, Div!bn_digits(y, n))
<1> DEFINE u == CHOOSE k \in 0..n : (k > 0 => y[k-1] # 0) /\ \A h \in k..n-1 : y[h] = 0
<1>1. u \in 0..n /\ (u > 0 => y[u-1] # 0) /\ \A h \in u..n-1 : y[h] = 0 BY LeadingZerosExist
<1>2. Div!bn_digits(y, n) = u BY DEF Div!bn_digits
<1>. HIDE DEF u
<1>. QED BY <1>1, <1>2 DEF LeadingZeros

(* A shift by s bits multiplies by T, a shift by the others of a digit by U.  *)
Shifts(s, T, U) == s \in 0..DigitBits /\ T = 2^s /\ U = 2^(DigitBits - s)
LEMMA ShiftsFact ==
  ASSUME DivSetting, NEW s, NEW T \in Nat, NEW U \in Nat, Shifts(s, T, U)
  PROVE  T \in Nat /\ T >= 1 /\ U \in Nat /\ U >= 1 /\ T * U = B /\ (s = 0 => T = 1 /\ U = B)
<1>1. PICK k, h \in Nat : k = s /\ h = DigitBits - s /\ k + h = DigitBits BY DEF DivSetting, Shifts
<1>2. T = 2^k /\ U = 2^h BY <1>1 DEF Shifts
<1>3. 2^k \in Nat /\ 2^k >= 1 /\ 2^h \in Nat /\ 2^h >= 1 /\ 2^0 = 1 BY <1>1, TwoTo
<1>4. 2^(k + h) = 2^k * 2^h BY TwoSum
<1>5. T * U = B BY <1>1, <1>2, <1>4 DEF DivSetting
<1>6. s = 0 => T = 1 /\ U = B
  <2>. SUFFICES ASSUME s = 0 PROVE T = 1 /\ U = B OBVIOUS
  <2>1. k = 0 /\ h = DigitBits BY <1>1
  <2>. QED BY <1>2, <1>3, <2>1 DEF DivSetting
<1>. QED BY <1>2, <1>3, <1>5, <1>6

(* The shift that sets the top bit of a digit.                              *)
LEMMA TopBitFact ==
  ASSUME DivSetting, NEW x \in Digit, x # 0
  PROVE  \E T, U \in Nat : /\ Shifts(Div!TopBitShift(x), T, U) /\ x < U /\ U <= 2 * x
<1> USE BaseAssumption
<1>1. DigitBits \in Nat /\ x \in Nat /\ x < 2^DigitBits BY DEF DivSetting, Digit
<1> DEFINE S == {k \in 0..DigitBits : x < 2^k}
<1>2. DigitBits \in S /\ S \in SUBSET Nat BY <1>1
<1>3. PICK l \in S : \A k \in S : l <= k
  <2>. HIDE DEF S
  <2>. QED BY <1>2, LeastNumber
<1>4. l \in 0..DigitBits /\ x < 2^l /\ (l > 0 => x >= 2^(l-1))
  <2>. SUFFICES ASSUME l > 0 PROVE x >= 2^(l-1) BY <1>3
  <2>1. l - 1 \in 0..DigitBits /\ l - 1 \in Nat /\ ~(l <= l - 1) BY <1>1, <1>3
  <2>3. l - 1 \notin S BY <1>3, <2>1, Zenon
  <2>2. 2^(l-1) \in Nat BY <2>1, TwoTo
  <2>. QED BY <1>1, <2>1, <2>2, <2>3
<1> DEFINE u == CHOOSE k \in 0..DigitBits : x < 2^k /\ (k > 0 => x >= 2^(k-1))
<1>5. u \in 0..DigitBits /\ x < 2^u /\ (u > 0 => x >= 2^(u-1)) BY <1>4
<1>6. Div!TopBitShift(x) = DigitBits - u BY DEF Div!TopBitShift, Div!bn_digit_bits
<1>. HIDE DEF u
<1>7. u # 0
  <2>. SUFFICES ASSUME u = 0 PROVE FALSE OBVIOUS
  <2>1. x < 2^0 /\ 2^0 = 1 BY <1>5, TwoTo
  <2>. QED BY <1>1, <2>1
<1>8. PICK k \in Nat : k = u - 1 /\ k + 1 = u BY <1>1, <1>5, <1>7
<1>9. PICK y \in Nat : y = 2^k /\ 2^u = 2 * y
  <2>1. 2^k \in Nat /\ 2^(k + 1) = 2 * 2^k BY TwoTo
  <2>. QED BY <1>8, <2>1
<1>10. PICK s, U \in Nat : s = DigitBits - u /\ DigitBits - s = u /\ U = 2 * y /\ s \in 0..DigitBits BY <1>1, <1>5, <1>9
<1>11. PICK T \in Nat : T = 2^s BY TwoTo
<1>12. Shifts(Div!TopBitShift(x), T, U) BY <1>6, <1>9, <1>10, <1>11 DEF Shifts
<1>13. x < U /\ U <= 2 * x BY <1>1, <1>5, <1>7, <1>8, <1>9, <1>10
<1>. QED BY <1>12, <1>13

(* What leaves a digit, what stays of its product, and what stays of it.      *)
Over(x, U) == x \div U
Kept(x, T) == (x * T) % B
Rest(x, T) == x % T
LEMMA ShiftDigit ==
  ASSUME NEW x \in Digit, NEW T \in Nat, NEW U \in Nat, T >= 1, U >= 1, T * U = B
  PROVE  /\ Over(x, U) \in 0..T-1 /\ Kept(x, T) \in Nat /\ Kept(x, T) <= B - T
         /\ x * T = Over(x, U) * B + Kept(x, T)
         /\ Kept(x, T) = Rest(x, U) * T /\ Rest(x, U) \in 0..U-1 /\ x = Over(x, U) * U + Rest(x, U)
         /\ x < U => Over(x, U) = 0 /\ Kept(x, T) = x * T
<1> USE BaseAssumption
<1>1. x \in Nat /\ x < B BY DEF Digit
<1>2. PICK q \in Nat, r \in 0..U-1 : q = Over(x, U) /\ r = Rest(x, U) /\ x = q * U + r
  BY <1>1, Divided DEF Over, Rest
<1>3. q < T
  <2>1. q * U < T * U BY <1>1, <1>2
  <2>. QED BY <1>2, <2>1, ProductOrder
<1>4. r * T \in Nat /\ r * T <= B - T
  <2>1. r \in Int /\ r < U /\ U \in Int BY <1>2
  <2>2. r * T + T <= U * T BY <2>1, ProductOrder
  <2>3. U * T = T * U OBVIOUS
  <2>4. r \in Nat BY <1>2
  <2>5. r * T \in Nat BY <2>4
  <2>. QED BY <2>2, <2>3, <2>5
<1>5. x * T = q * B + r * T
  <2>1. (q * U + r) * T = (q * U) * T + r * T BY <1>2
  <2>2. (q * U) * T = q * (T * U) BY <1>2
  <2>. QED BY <1>2, <2>1, <2>2
<1>6. Kept(x, T) = r * T
  <2>1. r * T \in 0..B-1 BY <1>4
  <2>2. PICK y \in Int : y = x * T BY <1>1
  <2>3. PICK h \in 0..B-1 : h = r * T BY <2>1
  <2>4. y = q * B + h BY <1>5, <2>2, <2>3
  <2>5. B > 0 /\ q \in Int BY <1>2
  <2>6. y % B = h BY <2>4, <2>5, DividedUnique
  <2>. QED BY <2>2, <2>3, <2>6 DEF Kept
<1>7. x < U => Over(x, U) = 0 /\ Rest(x, U) = x
  <2>. SUFFICES ASSUME x < U PROVE Over(x, U) = 0 /\ Rest(x, U) = x OBVIOUS
  <2>1. x \in 0..U-1 /\ x = 0 * U + x BY <1>1
  <2>2. x \div U = 0 /\ x % U = x BY <2>1, DividedUnique
  <2>. QED BY <2>2 DEF Over, Rest
<1>8. Over(x, U) \in 0..T-1 BY <1>2, <1>3
<1>9. x < U => Kept(x, T) = x * T BY <1>2, <1>6, <1>7
<1>. QED BY <1>2, <1>4, <1>5, <1>6, <1>7, <1>8, <1>9

(* To the left: the array and what has left it are T times as much.           *)
LEMMA ShiftLeftFact ==
  ASSUME DivSetting, NEW s, NEW T \in Nat, NEW U \in Nat, Shifts(s, T, U), NEW n \in Nat, NEW x, AllDigits(x, n)
  PROVE  LET l == Div!bn_shift_l(x, s, n)
         IN /\ l.digits \in Array(n) /\ l.carry \in Digit
            /\ Low(l.digits, n) + l.carry * Pow(n) = T * Low(x, n)
            /\ n > 0 /\ x[n-1] < U => l.carry = 0 /\ l.digits[n-1] >= x[n-1] * T
<1> USE BaseAssumption
<1>1. T \in Nat /\ T >= 1 /\ U \in Nat /\ U >= 1 /\ T * U = B /\ (s = 0 => U = B) BY ShiftsFact
<1> DEFINE O(h) == IF h = 0 THEN 0 ELSE Over(x[h-1], U)
           y == [j \in 0..n-1 |-> Kept(x[j], T) + O(j)]
           l == Div!bn_shift_l(x, s, n)
<1>2. ASSUME NEW j \in 0..n-1
      PROVE  /\ Over(x[j], U) \in 0..T-1 /\ Kept(x[j], T) \in Nat /\ Kept(x[j], T) <= B - T
             /\ x[j] * T = Over(x[j], U) * B + Kept(x[j], T)
             /\ x[j] < U => Over(x[j], U) = 0 /\ Kept(x[j], T) = x[j] * T
  <2>1. PICK v \in Digit : v = x[j] BY DEF AllDigits
  <2>2. /\ Over(v, U) \in 0..T-1 /\ Kept(v, T) \in Nat /\ Kept(v, T) <= B - T
        /\ v * T = Over(v, U) * B + Kept(v, T)
        /\ v < U => Over(v, U) = 0 /\ Kept(v, T) = v * T
    BY <1>1, ShiftDigit
  <2>. QED BY <2>1, <2>2, Zenon
<1>3. ASSUME NEW h \in 0..n PROVE O(h) \in 0..T-1
  <2>1. CASE h = 0 BY <1>1, <2>1
  <2>2. CASE h # 0
    <3>1. h - 1 \in 0..n-1 BY <2>2
    <3>. QED BY <1>2, <2>2, <3>1
  <2>. QED BY <2>1, <2>2
<1>4. ASSUME NEW j \in 0..n-1 PROVE (IF s = 0 THEN 0 ELSE x[j] \div 2^(DigitBits - s)) = Over(x[j], U)
  <2>1. CASE s = 0
    <3>1. x[j] \in Digit /\ U = B BY <1>1, <2>1 DEF AllDigits
    <3>2. x[j] < U BY <3>1 DEF Digit
    <3>3. Over(x[j], U) = 0 BY <1>2, <3>2
    <3>. QED BY <2>1, <3>3
  <2>2. CASE s # 0 BY <2>2 DEF Shifts, Over
  <2>. QED BY <2>1, <2>2
<1>5. l.digits = y
  <2> DEFINE out(j) == IF s = 0 THEN 0 ELSE x[j] \div 2^(DigitBits - s)
  <2>1. l.digits = [j \in 0..n-1 |-> Kept(x[j], 2^s) + (IF j = 0 THEN 0 ELSE out(j-1))] BY DEF Div!bn_shift_l, Kept
  <2>2. ASSUME NEW j \in 0..n-1 PROVE (IF j = 0 THEN 0 ELSE out(j-1)) = O(j)
    <3>1. CASE j = 0 BY <3>1
    <3>2. CASE j # 0
      <4>1. j - 1 \in 0..n-1 BY <3>2
      <4>. QED BY <1>4, <3>2, <4>1
    <3>. QED BY <3>1, <3>2
  <2>. HIDE DEF out, O, l
  <2>3. T = 2^s BY DEF Shifts
  <2>. QED BY <2>1, <2>2, <2>3
<1>6. l.carry = O(n)
  <2>1. l.carry = IF n = 0 THEN 0 ELSE IF s = 0 THEN 0 ELSE x[n-1] \div 2^(DigitBits - s) BY DEF Div!bn_shift_l
  <2>2. n # 0 => n - 1 \in 0..n-1 OBVIOUS
  <2>. QED BY <1>4, <2>1, <2>2
<1>7. ASSUME NEW j \in 0..n-1 PROVE y[j] \in Digit
  <2>1. j \in 0..n OBVIOUS
  <2>2. PICK p, q \in Nat : p = Kept(x[j], T) /\ q = O(j) /\ p <= B - T /\ q <= T - 1
    <3>. HIDE DEF O
    <3>. QED BY <1>1, <1>2, <1>3, <2>1
  <2>3. p + q \in 0..B-1 BY <1>1, <2>2
  <2>4. y[j] = p + q BY <2>2
  <2>. QED BY <2>3, <2>4 DEF Digit
<1>. HIDE DEF l
<1>8. y \in Array(n) /\ AllDigits(y, n) BY <1>7 DEF Array, AllDigits
<1>9. \A j \in 0..n-1 : y[j] = Kept(x[j], T) + O(j) OBVIOUS
<1>10. \A h \in 0..n-1 : O(h + 1) = Over(x[h], U)
  <2>. SUFFICES ASSUME NEW h \in 0..n-1 PROVE O(h + 1) = Over(x[h], U) OBVIOUS
  <2>1. h + 1 # 0 /\ (h + 1) - 1 = h OBVIOUS
  <2>. QED BY <2>1
<1>11. O(0) = 0 OBVIOUS
<1>. HIDE DEF O, y
<1> DEFINE P == {h \in 0..n : Low(y, h) + O(h) * Pow(h) = T * Low(x, h)}
<1>12. 0 \in P
  <2>1. Low(y, 0) = 0 /\ Low(x, 0) = 0 /\ Pow(0) = 1 BY <1>8, LowStep, PowStep
  <2>2. T * 0 = 0 /\ 0 + 0 * 1 = 0 BY <1>1
  <2>. QED BY <1>11, <2>1, <2>2
<1>13. ASSUME NEW h \in 1..n, h - 1 \in P PROVE h \in P
  <2>1. PICK j \in 0..n-1 : j = h - 1 /\ j + 1 = h /\ j \in 0..n /\ j \in Nat OBVIOUS
  <2>2. PICK K \in Nat : K = Pow(j) /\ Pow(h) = K * B BY <2>1, PowStep
  <2>3. PICK Y \in Nat, X \in Nat : Y = Low(y, j) /\ X = Low(x, j) BY <1>8, <2>1, LowStep
  <2>4. Low(y, h) = Y + y[j] * K /\ Low(x, h) = X + x[j] * K BY <1>8, <2>1, <2>2, <2>3, LowStep
  <2>5. PICK p, q, o, v \in Int : p = Kept(x[j], T) /\ q = Over(x[j], U) /\ o = O(j) /\ v = x[j] /\ v * T = q * B + p
    <3>1. x[j] \in Int BY <2>1 DEF AllDigits, Digit
    <3>2. Kept(x[j], T) \in Int /\ Over(x[j], U) \in Int /\ O(j) \in Int BY <1>2, <1>3, <2>1
    <3>3. x[j] * T = Over(x[j], U) * B + Kept(x[j], T) BY <1>2, <2>1, Zenon
    <3>. QED BY <3>1, <3>2, <3>3
  <2>6. y[j] = p + o /\ O(h) = q BY <1>9, <1>10, <2>1, <2>5
  <2>7. Y + o * K = T * X BY <1>13, <2>1, <2>2, <2>3, <2>5
  <2>8. (Y + (p + o) * K) + q * (K * B) = T * (X + v * K)
    <3>1. (p + o) * K = p * K + o * K BY <2>2, <2>5
    <3>2. T * (X + v * K) = T * X + (v * T) * K BY <1>1, <2>2, <2>3, <2>5
    <3>3. (q * B + p) * K = q * (K * B) + p * K BY <2>2, <2>5
    <3>4. PICK r1, r2, r3 \in Int : r1 = p * K /\ r2 = o * K /\ r3 = q * (K * B) BY <2>2, <2>5
    <3>. QED BY <2>3, <2>5, <2>7, <3>1, <3>2, <3>3, <3>4
  <2>. QED BY <2>2, <2>4, <2>5, <2>6, <2>8
<1>14. n \in P
  <2>1. \A h \in 0..n : h \in P
    <3>. HIDE DEF P
    <3>. QED BY <1>12, <1>13, Induction
  <2>. QED BY <2>1
<1>15. Low(l.digits, n) + l.carry * Pow(n) = T * Low(x, n) BY <1>5, <1>6, <1>14
<1>16. l.carry \in Digit
  <2>1. O(n) \in 0..T-1 BY <1>3
  <2>2. T <= B
    <3>1. T * U = U * T /\ U * T >= T BY <1>1, ProductGrows
    <3>. QED BY <1>1, <3>1
  <2>. QED BY <1>1, <1>6, <2>1, <2>2 DEF Digit
<1>17. n > 0 /\ x[n-1] < U => l.carry = 0 /\ l.digits[n-1] >= x[n-1] * T
  <2>. SUFFICES ASSUME n > 0, x[n-1] < U PROVE l.carry = 0 /\ l.digits[n-1] >= x[n-1] * T OBVIOUS
  <2>1. PICK j \in 0..n-1 : j = n - 1 /\ j + 1 = n /\ j \in 0..n OBVIOUS
  <2>2. Over(x[j], U) = 0 /\ Kept(x[j], T) = x[j] * T BY <1>2, <2>1
  <2>3. O(n) = 0 BY <1>10, <2>1, <2>2
  <2>4. PICK o \in Nat, v \in Int : o = O(j) /\ v = x[j] * T
    <3>1. O(j) \in Nat BY <1>3, <2>1
    <3>2. Kept(x[j], T) \in Nat BY <1>2, <2>1
    <3>. QED BY <2>2, <3>1, <3>2
  <2>5. y[j] = v + o BY <1>9, <2>1, <2>2, <2>4
  <2>. QED BY <1>5, <1>6, <2>1, <2>3, <2>4, <2>5
<1>. QED BY <1>5, <1>8, <1>15, <1>16, <1>17 DEF l

(* To the right: of a multiple of T no bit is lost.                          *)
LEMMA ShiftRightFact ==
  ASSUME DivSetting, NEW s, NEW T \in Nat, NEW U \in Nat, Shifts(s, T, U), NEW n \in Nat, n > 0, NEW x, AllDigits(x, n),
         NEW R \in Nat, Low(x, n) = T * R
  PROVE  LET y == Div!bn_shift_r(x, s, n) IN y \in Array(n) /\ Low(y, n) = R
<1> USE BaseAssumption
<1>1. T \in Nat /\ T >= 1 /\ U \in Nat /\ U >= 1 /\ T * U = B /\ U * T = B /\ (s = 0 => T = 1) BY ShiftsFact
<1> DEFINE M(h) == IF h < n THEN Rest(x[h], T) ELSE 0
           y == Div!bn_shift_r(x, s, n)
<1>2. ASSUME NEW j \in 0..n-1
      PROVE  /\ Over(x[j], T) \in 0..U-1 /\ Kept(x[j], U) \in Nat /\ Kept(x[j], U) <= B - U
             /\ Kept(x[j], U) = (Rest(x[j], T)) * U
             /\ x[j] = Over(x[j], T) * T + Rest(x[j], T) /\ Rest(x[j], T) \in 0..T-1
  <2>1. x[j] \in Digit /\ x[j] \in Int BY DEF AllDigits, Digit
  <2>2. x[j] = Over(x[j], T) * T + Rest(x[j], T) /\ Rest(x[j], T) \in 0..T-1
    BY <1>1, <2>1, ShiftDigit
  <2>. QED BY <1>1, <2>1, <2>2, ShiftDigit
<1>3. ASSUME NEW j \in 0..n-1 PROVE y[j] = Over(x[j], T) + M(j + 1) * U /\ y[j] \in Digit
  <2>1. y[j] = Over(x[j], T) + (IF s = 0 \/ j = n-1 THEN 0 ELSE Kept(x[j+1], U))
    BY DEF Div!bn_shift_r, Shifts, Over, Kept
  <2>2. PICK z : z = (IF s = 0 \/ j = n-1 THEN 0 ELSE Kept(x[j+1], U)) OBVIOUS
  <2>3. z = M(j + 1) * U /\ z \in Nat /\ z <= B - U
    <3>1. 0 * U = 0 /\ B - U >= 0
      <4>1. T * U >= U BY <1>1, ProductGrows
      <4>. QED BY <1>1, <4>1
    <3>2. CASE j = n - 1
      <4>1. ~(j + 1 < n) BY <3>2
      <4>2. M(j + 1) = 0 BY <4>1
      <4>. QED BY <1>1, <2>2, <3>1, <3>2, <4>2
    <3>3. CASE j # n - 1
      <4>1. j + 1 \in 0..n-1 /\ j + 1 < n BY <3>3
      <4>2. M(j + 1) = Rest(x[j+1], T) BY <4>1
      <4>3. CASE s = 0
        <5>1. Rest(x[j+1], T) \in 0..0 BY <1>1, <1>2, <4>1, <4>3
        <5>2. M(j + 1) = 0 BY <4>2, <5>1
        <5>. QED BY <1>1, <2>2, <3>1, <4>3, <5>2
      <4>4. CASE s # 0
        <5>1. z = Kept(x[j+1], U) BY <2>2, <3>3, <4>4
        <5>. QED BY <1>2, <4>1, <4>2, <5>1
      <4>. QED BY <4>3, <4>4
    <3>. QED BY <3>2, <3>3
  <2>4. PICK q \in Nat : q = Over(x[j], T) /\ q <= U - 1 BY <1>1, <1>2
  <2>5. q + z \in 0..B-1 BY <1>1, <2>3, <2>4
  <2>. QED BY <2>1, <2>2, <2>3, <2>4, <2>5 DEF Digit
<1>4. y \in Array(n) /\ AllDigits(y, n)
  <2>1. y = [j \in 0..n-1 |-> y[j]] BY DEF Div!bn_shift_r
  <2>. HIDE DEF y
  <2>. QED BY <1>3, <2>1 DEF Array, AllDigits
<1>5. ASSUME NEW h \in 0..n PROVE M(h) \in 0..T-1
  <2>1. CASE h < n
    <3>1. h \in 0..n-1 BY <2>1
    <3>. QED BY <1>2, <2>1, <3>1
  <2>2. CASE ~(h < n) BY <1>1, <2>2
  <2>. QED BY <2>1, <2>2
<1>6. \A j \in 0..n-1 : M(j) = Rest(x[j], T) OBVIOUS
<1>7. M(n) = 0 OBVIOUS
<1>. HIDE DEF y, M
<1> DEFINE P == {h \in 0..n : T * Low(y, h) + M(0) = Low(x, h) + M(h) * Pow(h)}
<1>8. 0 \in P
  <2>1. Low(y, 0) = 0 /\ Low(x, 0) = 0 /\ Pow(0) = 1 BY <1>4, LowStep, PowStep
  <2>2. PICK v \in Int : v = M(0) BY <1>5
  <2>3. T * 0 + v = 0 + v * 1 BY <1>1, <2>2
  <2>. QED BY <2>1, <2>2, <2>3
<1>9. ASSUME NEW h \in 1..n, h - 1 \in P PROVE h \in P
  <2>1. PICK j \in 0..n-1 : j = h - 1 /\ j + 1 = h /\ j \in 0..n /\ j \in Nat OBVIOUS
  <2>2. PICK K \in Nat : K = Pow(j) /\ Pow(h) = K * B BY <2>1, PowStep
  <2>3. PICK Y \in Nat, X \in Nat : Y = Low(y, j) /\ X = Low(x, j) BY <1>4, <2>1, LowStep
  <2>4. Low(y, h) = Y + y[j] * K /\ Low(x, h) = X + x[j] * K BY <1>4, <2>1, <2>2, <2>3, LowStep
  <2>5. PICK q, v, u, f, g \in Int : q = Over(x[j], T) /\ v = x[j] /\ u = M(j) /\ f = M(h) /\ g = M(0) /\ v = q * T + u
    <3>1. x[j] \in Int BY <2>1 DEF AllDigits, Digit
    <3>2. Over(x[j], T) \in Int /\ M(j) \in Int /\ M(h) \in Int /\ M(0) \in Int BY <1>2, <1>5, <2>1
    <3>3. x[j] = Over(x[j], T) * T + M(j) BY <1>2, <1>6, <2>1
    <3>. QED BY <3>1, <3>2, <3>3
  <2>6. y[j] = q + f * U BY <1>3, <2>1, <2>5
  <2>7. T * Y + g = X + u * K BY <1>9, <2>1, <2>2, <2>3, <2>5
  <2>8. T * (Y + (q + f * U) * K) + g = (X + v * K) + f * (K * B)
    <3>1. T * (Y + (q + f * U) * K) = T * Y + (T * (q + f * U)) * K BY <1>1, <2>2, <2>3, <2>5
    <3>2. T * (q + f * U) = q * T + f * (T * U) BY <1>1, <2>5
    <3>3. T * (q + f * U) = q * T + f * B BY <1>1, <3>2
    <3>4. (q * T + f * B) * K = (q * T) * K + f * (K * B) BY <1>1, <2>2, <2>5
    <3>5. v * K = (q * T) * K + u * K BY <1>1, <2>2, <2>5
    <3>6. PICK r1, r2, r3, r4 \in Int : r1 = (q * T) * K /\ r2 = f * (K * B) /\ r3 = u * K /\ r4 = T * Y
      <4>1. (q * T) * K \in Int /\ f * (K * B) \in Int BY <1>1, <2>2, <2>5
      <4>2. u * K \in Int /\ T * Y \in Int BY <1>1, <2>2, <2>3, <2>5
      <4>. QED BY <4>1, <4>2
    <3>7. T * (Y + (q + f * U) * K) = r4 + (r1 + r2) BY <3>1, <3>3, <3>4, <3>6
    <3>8. r4 + g = X + r3 BY <2>7, <3>6
    <3>9. (r4 + (r1 + r2)) + g = (X + (r1 + r3)) + r2 BY <2>3, <2>5, <3>6, <3>8
    <3>. QED BY <3>5, <3>6, <3>7, <3>9
  <2>9. T * Low(y, h) + M(0) = Low(x, h) + M(h) * Pow(h) BY <2>2, <2>4, <2>5, <2>6, <2>8, Zenon
  <2>. QED BY <2>9
<1>10. n \in P
  <2>1. \A h \in 0..n : h \in P
    <3>. HIDE DEF P
    <3>. QED BY <1>8, <1>9, Induction
  <2>. QED BY <2>1
<1>11. PICK Y \in Nat, g \in 0..T-1, K \in Nat : Y = Low(y, n) /\ g = M(0) /\ K = Pow(n)
  <2>1. n \in 0..n /\ 0 \in 0..n OBVIOUS
  <2>. QED BY <1>4, <1>5, <2>1, LowStep, PowStep
<1>12. Y * T + g = R * T + 0
  <2>1. 0 * K = 0 BY <1>11
  <2>2. T * Y + g = T * R + 0 BY <1>7, <1>10, <1>11, <2>1
  <2>3. T * Y = Y * T /\ T * R = R * T BY <1>1, <1>11
  <2>. QED BY <2>2, <2>3
<1>13. Y = R
  <2>1. PICK z \in Int : z = Y * T + g BY <1>1, <1>11
  <2>2. z \div T = Y
    <3>1. Y \in Int /\ T > 0 /\ g \in 0..T-1 BY <1>1, <1>11
    <3>. QED BY <1>1, <2>1, <3>1, DividedUnique
  <2>3. z = R * T + 0 /\ 0 \in 0..T-1 BY <1>1, <1>12, <2>1
  <2>4. z \div T = R BY <1>1, <2>1, <2>3, DividedUnique
  <2>. QED BY <2>2, <2>4
<1>. QED BY <1>4, <1>11, <1>13 DEF y

-----------------------------------------------------------------------------
(* bn_div: what is subtracted, compared and estimated.                       *)

LEMMA ArrayDigits ==
  ASSUME NEW len \in Nat, NEW x \in Array(len), NEW k \in 0..len
  PROVE  AllDigits(x, k)
<1>1. \A u \in 0..k-1 : u \in 0..len-1 OBVIOUS
<1>2. \A u \in 0..len-1 : x[u] \in Digit BY DEF Array
<1>. QED BY <1>1, <1>2 DEF AllDigits

(* A borrow that the next digit covers.                                      *)
BorrowStep(A, q, P, X, F, h) == A + (-1) * (q * P) = X - F /\ F <= X + h * P /\ A < P /\ A >= 0 => q <= h
LEMMA BorrowFits ==
  ASSUME NEW A \in Nat, NEW q \in Int, NEW P \in Nat, NEW X \in Int, NEW F \in Int, NEW h \in Int
  PROVE  BorrowStep(A, q, P, X, F, h)
<1>. SUFFICES ASSUME A + (-1) * (q * P) = X - F, F <= X + h * P, A < P PROVE q <= h BY DEF BorrowStep
<1>1. PICK u, v \in Int : u = q * P /\ v = h * P OBVIOUS
<1>2. A + (-1) * u = X - F /\ F <= X + v BY <1>1
<1>3. u < v + P BY <1>2
<1>4. (h + 1) * P = v + P BY <1>1
<1>5. q * P < (h + 1) * P BY <1>1, <1>3, <1>4
<1>6. q < h + 1 BY <1>5, ProductOrder
<1>. QED BY <1>6

LEMMA BorrowedFact ==
  ASSUME NEW len \in Nat, NEW x \in Array(len), NEW n \in Nat, NEW k \in Nat, k + n < len,
         NEW y, AllDigits(y, n), NEW f \in Nat, NEW C \in SUBSET Digit,
         NEW s, Looped(s, x, len, k, n, y, C, -f, -1),
         f * (Low(y, n) * Pow(k)) <= Low(x, k + n + 1)
  PROVE  /\ Div!Borrowed(s, k + n) \in Array(len)
         /\ Low(Div!Borrowed(s, k + n), k + n + 1) = Low(x, k + n + 1) - f * (Low(y, n) * Pow(k))
<1> USE BaseAssumption
<1>1. PICK p \in 0..len-1 : p = k + n /\ p \in Nat /\ p \notin k..k+n-1 OBVIOUS
<1>2. s.digits \in Array(len) /\ s.carry \in Digit /\ s.digits[p] = x[p] BY <1>1 DEF Looped
<1>3. AllDigits(s.digits, len) /\ AllDigits(x, len) /\ AllDigits(s.digits, p)
  <2>1. p \in 0..len /\ len \in 0..len BY <1>1
  <2>. QED BY <1>2, <2>1, ArrayDigits
<1>4. PICK A \in Nat, X \in Nat, P \in Nat :
        A = Low(s.digits, p) /\ X = Low(x, p) /\ P = Pow(p) /\ A < P /\ Low(x, p + 1) = X + x[p] * P
  <2>1. p \in 0..len BY <1>1
  <2>2. Low(s.digits, p) \in Nat /\ Low(s.digits, p) < Pow(p) BY <1>3, <2>1, LowStep
  <2>3. Low(x, p) \in Nat /\ Low(x, p + 1) = Low(x, p) + x[p] * Pow(p) BY <1>1, <1>3, <2>1, LowStep
  <2>4. Pow(p) \in Nat BY <1>1, PowStep
  <2>. QED BY <2>2, <2>3, <2>4
<1>5. PICK F \in Nat : F = f * (Low(y, n) * Pow(k)) /\ (-f) * (Low(y, n) * Pow(k)) = -F
  <2>1. PICK Y \in Nat, K \in Nat : Y = Low(y, n) /\ K = Pow(k)
    <3>1. n \in 0..n OBVIOUS
    <3>2. Low(y, n) \in Nat /\ Pow(k) \in Nat BY <3>1, LowStep, PowStep
    <3>. QED BY <3>2
  <2>2. PICK Z \in Nat : Z = Y * K BY <2>1
  <2>3. f * Z \in Nat /\ (-f) * Z = -(f * Z) BY <2>2
  <2>. QED BY <2>1, <2>2, <2>3
<1>6. PICK q \in Digit, h \in Digit : q = s.carry /\ h = x[p] BY <1>1, <1>2, <1>3 DEF AllDigits
<1>7. q \in Int /\ h \in Int BY <1>6 DEF Digit
<1>8. A + (-1) * (q * P) = X - F
  <2>1. A + (-1) * (q * P) = X + (-F) BY <1>1, <1>4, <1>5, <1>6 DEF Looped
  <2>2. X + (-F) = X - F BY <1>4, <1>5
  <2>. QED BY <2>1, <2>2
<1>9. q <= h
  <2>1. F <= X + h * P BY <1>1, <1>4, <1>5, <1>6
  <2>3. X \in Int /\ F \in Int OBVIOUS
  <2>2. BorrowStep(A, q, P, X, F, h) BY <1>7, <2>3, BorrowFits
  <2>. QED BY <1>4, <1>8, <2>1, <2>2 DEF BorrowStep
<1>10. h - q \in Digit /\ (h - q) % B = h - q
  <2>1. h - q \in Digit BY <1>6, <1>9 DEF Digit
  <2>. QED BY <2>1, WrapSmall
<1> DEFINE z == Div!Borrowed(s, p)
<1>11. z = [s.digits EXCEPT ![p] = h - q] BY <1>2, <1>6, <1>10 DEF Div!Borrowed
<1>12. z \in Array(len) /\ z[p] = h - q /\ \A u \in 0..len-1 : u # p => z[u] = s.digits[u]
  <2>. HIDE DEF z
  <2>. QED BY <1>1, <1>2, <1>10, <1>11 DEF Array
<1>. HIDE DEF z
<1>13. AllDigits(z, len) /\ AllDigits(z, p)
  <2>1. p \in 0..len /\ len \in 0..len BY <1>1
  <2>. QED BY <1>12, <2>1, ArrayDigits
<1>14. Low(z, p) = A
  <2>1. \A u \in 0..p-1 : z[u] = s.digits[u] BY <1>1, <1>12
  <2>. QED BY <1>1, <1>3, <1>4, <1>13, <2>1, LowSame
<1>15. Low(z, p + 1) = A + (h - q) * P
  <2>1. Low(z, p + 1) = Low(z, p) + z[p] * Pow(p) BY <1>1, <1>13, LowStep
  <2>. QED BY <1>4, <1>12, <1>14, <2>1
<1>16. Low(z, p + 1) = (X + h * P) - F
  <2>1. PICK u, v \in Int : u = q * P /\ v = h * P
    <3>1. q * P \in Int /\ h * P \in Int BY <1>7
    <3>. QED BY <3>1
  <2>2. (h - q) * P = v - u BY <1>4, <1>7, <2>1
  <2>3. A + (-1) * u = X - F BY <1>8, <2>1
  <2>4. A + (v - u) = (X + v) - F BY <1>4, <1>5, <2>1, <2>3
  <2>. QED BY <1>15, <2>1, <2>2, <2>4
<1>17. Low(z, p + 1) = Low(x, p + 1) - F BY <1>4, <1>6, <1>16
<1>. QED BY <1>1, <1>5, <1>12, <1>17 DEF z

(* Both subtractions of bn_div.                                             *)
LEMMA SubMulFact ==
  ASSUME NEW len \in Nat, NEW x \in Array(len), NEW n \in Nat, NEW k \in Nat, k + n < len,
         NEW y, AllDigits(y, n), NEW f \in Digit,
         f * (Low(y, n) * Pow(k)) <= Low(x, k + n + 1)
  PROVE  /\ Div!SubMul(x, k, n, f, y) \in Array(len)
         /\ Low(Div!SubMul(x, k, n, f, y), k + n + 1) = Low(x, k + n + 1) - f * (Low(y, n) * Pow(k))
<1> USE BaseAssumption
<1>1. f \in Nat /\ 0 \in Digit /\ \A z \in Digit : z \in Int BY DEF Digit
<1>2. CASE f = 0
  <2>1. Div!SubMul(x, k, n, f, y) = x BY <1>2 DEF Div!SubMul
  <2>2. PICK X \in Nat, Z \in Nat : X = Low(x, k + n + 1) /\ Z = Low(y, n) * Pow(k)
    <3>1. AllDigits(x, len) /\ k + n + 1 \in 0..len /\ n \in 0..n BY DEF Array, AllDigits
    <3>2. Low(x, k + n + 1) \in Nat BY <3>1, LowStep
    <3>3. Low(y, n) \in Nat /\ Pow(k) \in Nat BY <3>1, LowStep, PowStep
    <3>4. Low(y, n) * Pow(k) \in Nat BY <3>3
    <3>. QED BY <3>2, <3>4
  <2>3. X = X - 0 * Z BY <2>2
  <2>. QED BY <1>2, <2>1, <2>2, <2>3
<1>3. CASE f # 0
  <2> DEFINE step == [u \in Digit \X Digit \X Digit |-> SubMulDigit(u[1], f, u[2], u[3])]
             s == Loop(x, k, n, step, y)
  <2>1. Div!SubMul(x, k, n, f, y) = Div!Borrowed(s, k + n) BY <1>3, DivNames DEF Div!SubMul
  <2>2. ASSUME NEW p \in Digit, NEW q \in Digit, NEW h \in Digit
        PROVE  StepExact(step[<<p, q, h>>], p, q, h, Digit, -f, -1)
    <3>1. PICK r : r = SubMulDigit(p, f, q, h) OBVIOUS
    <3>2. r.digit \in Digit /\ r.carry \in Digit /\ r.digit - r.carry * B = p - f * q - h BY <3>1, SubMulDigitFact
    <3>3. step[<<p, q, h>>] = r BY <3>1
    <3>4. PICK z, e, g \in Int : z = r.digit /\ e = r.carry * B /\ g = f * q
      <4>1. r.digit \in Int /\ r.carry \in Int /\ f \in Int /\ q \in Int BY <1>1, <3>2
      <4>2. r.carry * B \in Int /\ f * q \in Int BY <4>1
      <4>. QED BY <4>1, <4>2
    <3>5. (-1) * e = -e /\ (-f) * q = -g /\ (-1) * h = -h BY <1>1, <3>4
    <3>6. z + (-e) = p + (-g) + (-h) BY <1>1, <3>2, <3>4
    <3>7. r.digit + (-1) * (r.carry * B) = p + (-f) * q + (-1) * h BY <3>4, <3>5, <3>6
    <3>. QED BY <3>2, <3>3, <3>7 DEF StepExact
  <2>3. Digit \in SUBSET Digit /\ -f \in Int /\ -1 \in Int BY <1>1
  <2>. HIDE DEF step
  <2>4. Looped(s, x, len, k, n, y, Digit, -f, -1)
    <3>1. k + n <= len OBVIOUS
    <3>. QED BY <1>1, <2>2, <2>3, <3>1, LoopFact
  <2>. HIDE DEF s
  <2>. QED BY <1>1, <2>1, <2>3, <2>4, BorrowedFact
<1>. QED BY <1>2, <1>3

LEMMA SubFact ==
  ASSUME NEW len \in Nat, NEW x \in Array(len), NEW n \in Nat, NEW k \in Nat, k + n < len,
         NEW y, AllDigits(y, n),
         Low(y, n) * Pow(k) <= Low(x, k + n + 1)
  PROVE  /\ Div!Sub(x, k, n, y) \in Array(len)
         /\ Low(Div!Sub(x, k, n, y), k + n + 1) = Low(x, k + n + 1) - Low(y, n) * Pow(k)
<1> USE BaseAssumption
<1>1. {0, 1} \in SUBSET Digit /\ \A z \in Digit : z \in Int BY DEF Digit
<1> DEFINE step == [u \in Digit \X Digit \X Digit |-> SubDigit(u[1], u[2], u[3])]
           s == Loop(x, k, n, step, y)
<1>2. Div!Sub(x, k, n, y) = Div!Borrowed(s, k + n) BY DivNames DEF Div!Sub
<1>3. ASSUME NEW p \in Digit, NEW q \in Digit, NEW h \in {0, 1}
      PROVE  StepExact(step[<<p, q, h>>], p, q, h, {0, 1}, -1, -1)
  <2>1. PICK r : r = SubDigit(p, q, h) OBVIOUS
  <2>2. r.digit \in Digit /\ r.carry \in {0, 1} /\ r.digit - r.carry * B = p - q - h BY <2>1, SubDigitFact
  <2>3. h \in Digit BY <1>1
  <2>4. step[<<p, q, h>>] = r BY <2>1, <2>3
  <2>5. PICK z, e \in Int : z = r.digit /\ e = r.carry * B BY <1>1, <2>2
  <2>6. (-1) * e = -e /\ (-1) * q = -q /\ (-1) * h = -h BY <1>1, <2>5
  <2>7. z + (-e) = p + (-q) + (-h) BY <1>1, <2>2, <2>5
  <2>8. r.digit + (-1) * (r.carry * B) = p + (-1) * q + (-1) * h BY <2>5, <2>6, <2>7
  <2>. QED BY <2>2, <2>4, <2>8 DEF StepExact
<1>4. PICK Z \in Nat : Z = Low(y, n) * Pow(k) /\ 1 * Z = Z
  <2>1. n \in 0..n OBVIOUS
  <2>2. Low(y, n) \in Nat /\ Pow(k) \in Nat BY <2>1, LowStep, PowStep
  <2>3. Low(y, n) * Pow(k) \in Nat BY <2>2
  <2>. QED BY <2>3
<1>. HIDE DEF step
<1>5. Looped(s, x, len, k, n, y, {0, 1}, -1, -1)
  <2>1. k + n <= len /\ -1 \in Int /\ 0 \in {0, 1} OBVIOUS
  <2>. QED BY <1>1, <1>3, <2>1, LoopFact
<1>. HIDE DEF s
<1>6. 1 * (Low(y, n) * Pow(k)) <= Low(x, k + n + 1) BY <1>4
<1>7. /\ Div!Borrowed(s, k + n) \in Array(len)
      /\ Low(Div!Borrowed(s, k + n), k + n + 1) = Low(x, k + n + 1) - 1 * (Low(y, n) * Pow(k))
  <2>1. 1 \in Nat OBVIOUS
  <2>. QED BY <1>1, <1>5, <1>6, <2>1, BorrowedFact
<1>. QED BY <1>2, <1>4, <1>7

(* Digits k.. of an array, as an array.                                      *)
LEMMA LowWindow ==
  ASSUME NEW k \in Nat, NEW n \in Nat, NEW x, AllDigits(x, k + n), NEW w, \A j \in 0..n-1 : w[j] = x[k+j]
  PROVE  AllDigits(w, n) /\ Low(x, k + n) = Low(x, k) + Low(w, n) * Pow(k)
<1> USE BaseAssumption
<1>1. AllDigits(w, n)
  <2>1. \A j \in 0..n-1 : k + j \in 0..k+n-1 OBVIOUS
  <2>. QED BY <2>1 DEF AllDigits
<1> DEFINE P == {h \in 0..n : Low(x, k + h) = Low(x, k) + Low(w, h) * Pow(k)}
<1>2. 0 \in P
  <2>1. k \in 0..k+n OBVIOUS
  <2>2. PICK X \in Nat, K \in Nat : X = Low(x, k) /\ K = Pow(k)
    <3>1. k + n \in Nat OBVIOUS
    <3>2. Low(x, k) \in Nat BY <2>1, <3>1, LowStep
    <3>3. Pow(k) \in Nat BY PowStep
    <3>. QED BY <3>2, <3>3
  <2>3. Low(w, 0) = 0 /\ k + 0 = k BY <1>1, LowStep
  <2>4. X = X + 0 * K BY <2>2
  <2>. QED BY <2>2, <2>3, <2>4
<1>3. ASSUME NEW h \in 1..n, h - 1 \in P PROVE h \in P
  <2>1. PICK j \in 0..n-1 : j = h - 1 /\ j + 1 = h /\ j \in Nat OBVIOUS
  <2>2. PICK p \in 0..k+n-1 : p = k + j /\ p + 1 = k + h /\ p \in Nat BY <2>1
  <2>3. PICK K \in Nat, J \in Nat : K = Pow(k) /\ J = Pow(j) /\ Pow(p) = K * J
    <3>1. Pow(k) \in Nat /\ Pow(j) \in Nat BY <2>1, PowStep
    <3>2. Pow(k + j) = Pow(k) * Pow(j) BY <2>1, PowSum
    <3>. QED BY <2>2, <3>1, <3>2
  <2>4. PICK v \in Nat : v = x[p] /\ v = w[j]
    <3>1. x[p] \in Nat BY <2>2 DEF AllDigits, Digit
    <3>. QED BY <2>1, <2>2, <3>1
  <2>5. PICK X \in Nat, Y \in Nat, Z \in Nat : X = Low(x, k) /\ Y = Low(w, j) /\ Z = Low(x, p)
    <3>1. k \in 0..k+n /\ j \in 0..n /\ p \in 0..k+n BY <2>1, <2>2
    <3>2. Low(x, k) \in Nat /\ Low(x, p) \in Nat BY <3>1, LowStep
    <3>3. Low(w, j) \in Nat BY <1>1, <3>1, LowStep
    <3>. QED BY <3>2, <3>3
  <2>6. Low(x, k + h) = Z + v * (K * J)
    <3>1. Low(x, p + 1) = Low(x, p) + x[p] * Pow(p) BY <2>2, LowStep
    <3>. QED BY <2>2, <2>3, <2>4, <2>5, <3>1
  <2>7. Low(w, h) = Y + v * J
    <3>1. Low(w, j + 1) = Low(w, j) + w[j] * Pow(j) BY <1>1, <2>1, LowStep
    <3>. QED BY <2>1, <2>3, <2>4, <2>5, <3>1
  <2>8. Z = X + Y * K BY <1>3, <2>1, <2>2, <2>3, <2>5
  <2>9. (X + Y * K) + v * (K * J) = X + (Y + v * J) * K
    <3>1. (Y + v * J) * K = Y * K + (v * J) * K BY <2>3, <2>4, <2>5
    <3>2. (v * J) * K = v * (K * J) BY <2>3, <2>4
    <3>3. PICK r1, r2 \in Int : r1 = Y * K /\ r2 = v * (K * J)
      <4>1. Y * K \in Int /\ v * (K * J) \in Int BY <2>3, <2>4, <2>5
      <4>. QED BY <4>1
    <3>. QED BY <2>5, <3>1, <3>2, <3>3
  <2>10. Low(x, k + h) = Low(x, k) + Low(w, h) * Pow(k) BY <2>3, <2>5, <2>6, <2>7, <2>8, <2>9
  <2>. QED BY <2>10
<1>4. n \in P
  <2>1. \A h \in 0..n : h \in P
    <3>. HIDE DEF P
    <3>. QED BY <1>2, <1>3, Induction
  <2>. QED BY <2>1
<1>. QED BY <1>1, <1>4

(* Arrays that differ in their first k digits only.                          *)
LEMMA LowAbove ==
  ASSUME NEW n \in Nat, NEW k \in 0..n, NEW x, NEW y, AllDigits(x, n), AllDigits(y, n),
         \A u \in k..n-1 : x[u] = y[u]
  PROVE  Low(x, n) + Low(y, k) = Low(y, n) + Low(x, k)
<1> DEFINE h == n - k
           P == {g \in 0..h : Low(x, k + g) + Low(y, k) = Low(y, k + g) + Low(x, k)}
<1>1. h \in Nat /\ k + h = n OBVIOUS
<1>2. 0 \in P
  <2>1. Low(x, k) \in Nat /\ Low(y, k) \in Nat BY LowStep
  <2>2. k + 0 = k OBVIOUS
  <2>3. Low(x, k) + Low(y, k) = Low(y, k) + Low(x, k) BY <2>1
  <2>. QED BY <1>1, <2>2, <2>3
<1>. HIDE DEF h
<1>3. ASSUME NEW g \in 1..h, g - 1 \in P PROVE g \in P
  <2>1. PICK p \in k..n-1 : p = k + (g - 1) /\ p + 1 = k + g /\ p \in Nat BY <1>1
  <2>2. p \in 0..n-1 /\ p \in 0..n BY <2>1
  <2>3. PICK v \in Nat : v = x[p] /\ v = y[p]
    <3>1. x[p] \in Nat BY <2>2 DEF AllDigits, Digit
    <3>. QED BY <2>1, <3>1
  <2>4. PICK X \in Nat, Y \in Nat, M \in Nat, N \in Nat : X = Low(x, k) /\ Y = Low(y, k) /\ M = Low(x, p) /\ N = Low(y, p)
    <3>1. Low(x, k) \in Nat /\ Low(y, k) \in Nat BY LowStep
    <3>2. Low(x, p) \in Nat /\ Low(y, p) \in Nat BY <2>2, LowStep
    <3>. QED BY <3>1, <3>2
  <2>5. PICK K \in Nat : K = Pow(p) BY <2>1, PowStep
  <2>6. Low(x, p + 1) = M + v * K /\ Low(y, p + 1) = N + v * K BY <2>2, <2>3, <2>4, <2>5, LowStep
  <2>7. M + Y = N + X BY <1>3, <2>1, <2>4
  <2>8. PICK z \in Int : z = v * K BY <2>3, <2>5
  <2>9. (M + z) + Y = (N + z) + X BY <2>4, <2>7, <2>8
  <2>10. Low(x, k + g) + Low(y, k) = Low(y, k + g) + Low(x, k) BY <2>1, <2>4, <2>6, <2>8, <2>9
  <2>. QED BY <2>10
<1>4. h \in P
  <2>1. \A g \in 0..h : g \in P
    <3>. HIDE DEF P
    <3>. QED BY <1>1, <1>2, <1>3, Induction
  <2>. QED BY <1>1, <2>1
<1>. QED BY <1>1, <1>4

(* The most significant digit that differs decides.                          *)
LEMMA TopDecides ==
  ASSUME NEW n \in Nat, NEW j \in 0..n-1, NEW x, NEW y, AllDigits(x, n), AllDigits(y, n),
         x[j] > y[j], \A u \in j+1..n-1 : x[u] = y[u]
  PROVE  Low(x, n) > Low(y, n)
<1>1. j + 1 \in 0..n /\ j \in 0..n /\ j \in Nat OBVIOUS
<1>2. PICK v \in Nat, w \in Nat : v = x[j] /\ w = y[j] /\ w < v
  <2>1. x[j] \in Nat /\ y[j] \in Nat BY BaseAssumption DEF AllDigits, Digit
  <2>. QED BY <2>1
<1>3. PICK X \in Nat, Y \in Nat, K \in Nat, M \in Nat, N \in Nat, G \in Nat, H \in Nat :
        /\ X = Low(x, j) /\ Y = Low(y, j) /\ K = Pow(j) /\ M = Low(x, n) /\ N = Low(y, n)
        /\ G = Low(x, j + 1) /\ H = Low(y, j + 1)
  <2>1. n \in 0..n OBVIOUS
  <2>2. Low(x, j) \in Nat /\ Low(x, n) \in Nat /\ Low(x, j + 1) \in Nat BY <1>1, <2>1, LowStep
  <2>3. Low(y, j) \in Nat /\ Low(y, n) \in Nat /\ Low(y, j + 1) \in Nat BY <1>1, <2>1, LowStep
  <2>4. Pow(j) \in Nat BY <1>1, PowStep
  <2>. QED BY <2>2, <2>3, <2>4
<1>4. G = X + v * K /\ H = Y + w * K BY <1>2, <1>3, LowStep
<1>5. Y < K BY <1>1, <1>3, LowStep
<1>6. M + H = N + G BY <1>1, <1>3, LowAbove
<1>7. w * K + K <= v * K BY <1>2, <1>3, <1>5, ProductOrder
<1>8. PICK r1, r2 \in Int : r1 = w * K /\ r2 = v * K BY <1>2, <1>3
<1>9. H < G BY <1>3, <1>4, <1>5, <1>7, <1>8
<1>10. M > N BY <1>3, <1>6, <1>9
<1>. QED BY <1>3, <1>10

(* bn_cmp compares the numbers.                                             *)
LEMMA CmpFact ==
  ASSUME NEW n \in Nat, NEW x, NEW y, AllDigits(x, n), AllDigits(y, n)
  PROVE  Div!bn_cmp(x, y, n) >= 0 <=> Low(x, n) >= Low(y, n)
<1> DEFINE differ == {j \in 0..n-1 : x[j] # y[j]}
           top == CHOOSE j \in differ : \A k \in differ : k <= j
<1>1. Div!bn_cmp(x, y, n) = IF differ = {} THEN 0 ELSE IF x[top] > y[top] THEN 1 ELSE -1 BY DEF Div!bn_cmp
<1>2. Low(x, n) \in Nat /\ Low(y, n) \in Nat
  <2>1. n \in 0..n OBVIOUS
  <2>. QED BY <2>1, LowStep
<1>3. CASE differ = {}
  <2>1. Low(x, n) = Low(y, n) BY <1>3, LowSame
  <2>. QED BY <1>1, <1>2, <1>3, <2>1
<1>4. CASE differ # {}
  <2> DEFINE F == [j \in 0..n-1 |-> IF x[j] # y[j] THEN 1 ELSE 0]
  <2>1. PICK k \in 0..n : (k > 0 => F[k-1] # 0) /\ \A h \in k..n-1 : F[h] = 0
    <3>. HIDE DEF F
    <3>. QED BY LeadingZerosExist
  <2>2. \A h \in k..n-1 : x[h] = y[h]
    <3>. SUFFICES ASSUME NEW h \in k..n-1 PROVE x[h] = y[h] OBVIOUS
    <3>1. h \in 0..n-1 /\ F[h] = 0 BY <2>1
    <3>. QED BY <3>1
  <2>3. PICK g \in differ : TRUE BY <1>4
  <2>4. g \in 0..n-1 /\ g \notin k..n-1 BY <2>2, <2>3
  <2>5. k - 1 \in 0..n-1 /\ k > 0 BY <2>4
  <2>6. k - 1 \in differ BY <2>1, <2>5
  <2>7. \A h \in differ : h <= k - 1
    <3>. SUFFICES ASSUME NEW h \in 0..n-1, x[h] # y[h] PROVE h <= k - 1 OBVIOUS
    <3>1. h \notin k..n-1 BY <2>2
    <3>. QED BY <3>1
  <2>8. top \in differ /\ \A h \in differ : h <= top
    <3>. HIDE DEF differ
    <3>. QED BY <2>6, <2>7
  <2>9. top \in 0..n-1 /\ x[top] # y[top] BY <2>8
  <2>10. \A u \in top+1..n-1 : x[u] = y[u]
    <3>1. PICK p \in 0..n-1 : p = top BY <2>9
    <3>. SUFFICES ASSUME NEW u \in p+1..n-1 PROVE x[u] = y[u] BY <3>1
    <3>2. u \in 0..n-1 /\ ~(u <= p) BY <3>1
    <3>3. u \notin differ BY <2>8, <3>1, <3>2
    <3>. QED BY <3>2, <3>3
  <2>. HIDE DEF differ, top
  <2>11. PICK p \in 0..n-1 : p = top /\ x[p] # y[p] /\ \A u \in p+1..n-1 : x[u] = y[u] BY <2>9, <2>10
  <2>12. CASE x[p] > y[p]
    <3>1. Low(x, n) > Low(y, n) BY <2>11, <2>12, TopDecides
    <3>2. Div!bn_cmp(x, y, n) = 1 BY <1>1, <1>4, <2>11, <2>12
    <3>. QED BY <1>2, <3>1, <3>2
  <2>13. CASE ~(x[p] > y[p])
    <3>1. x[p] \in Int /\ y[p] \in Int BY <2>11 DEF AllDigits, Digit
    <3>2. y[p] > x[p] BY <2>11, <2>13, <3>1
    <3>3. Low(y, n) > Low(x, n) BY <2>11, <3>2, TopDecides
    <3>4. Div!bn_cmp(x, y, n) = -1 BY <1>1, <1>4, <2>11, <2>13
    <3>. QED BY <1>2, <3>3, <3>4
  <2>. QED BY <2>12, <2>13
<1>. QED BY <1>3, <1>4

(* The estimate: v is what is left, w the divisor, both from the digit of the *)
(* divisor's top digit e on, the rest below P.                               *)
EstimateStep(v, w, q) == q \in Digit /\ q * w <= v /\ v < (q + 3) * w
LEMMA EstimateFact ==
  ASSUME NEW p \in Digit, NEW q \in Digit, NEW e \in Digit, 2 * e >= B, NEW K \in Nat,
         NEW r \in Nat, r < K, NEW g \in Nat, g < K,
         NEW v \in Nat, v = (p * B + q) * K + r, NEW w \in Nat, w = e * K + g, v < w * B
  PROVE  EstimateStep(v, w, Div!EstimateOf(p, q, e))
<1> USE BaseAssumption
<1>1. p \in Nat /\ q \in Nat /\ e \in Nat /\ q < B /\ p < B /\ e < B BY DEF Digit
<1>2. PICK H \in Nat : H = p * B + q BY <1>1
<1>3. PICK E \in Nat : E = e + 1 /\ E > 0 BY <1>1
<1>4. PICK z \in Nat, h \in 0..E-1 : z = H \div E /\ H = z * E + h
  <2>1. H \div E \in Nat /\ H % E \in 0..E-1 /\ H = (H \div E) * E + (H % E)
    <3>1. H \in Int /\ H >= 0 OBVIOUS
    <3>. QED BY <1>3, <3>1, Divided
  <2>. QED BY <2>1
<1>5. w <= E * K
  <2>1. E * K = e * K + K BY <1>1, <1>3
  <2>2. PICK s \in Int : s = e * K BY <1>1
  <2>. QED BY <2>1, <2>2
<1>6. H < E * B
  <2>1. H * K < (E * B) * K
    <3>1. w * B <= (E * K) * B
      <4>1. E * K \in Int BY <1>3
      <4>. QED BY <1>5, <4>1, ProductOrder
    <3>2. (E * K) * B = (E * B) * K BY <1>3
    <3>3. PICK s, u, o \in Int : s = w * B /\ u = (E * B) * K /\ o = H * K
      <4>1. w * B \in Int /\ (E * B) * K \in Int /\ H * K \in Int BY <1>2, <1>3
      <4>. QED BY <4>1
    <3>. QED BY <1>2, <3>1, <3>2, <3>3
  <2>2. E * B \in Int BY <1>3
  <2>. QED BY <1>2, <2>1, <2>2, ProductOrder
<1>7. z < B
  <2>1. E * B = B * E BY <1>3
  <2>2. z * E < B * E BY <1>2, <1>3, <1>4, <1>6, <2>1
  <2>. QED BY <1>3, <1>4, <2>2, ProductOrder
<1>8. z \in Digit BY <1>4, <1>7 DEF Digit
<1>9. Div!EstimateOf(p, q, e) = z
  <2>1. CASE e = B - 1
    <3>1. E = B /\ Div!EstimateOf(p, q, e) = p BY <1>3, <2>1, DivNames DEF Div!EstimateOf
    <3>2. H = p * B + q /\ q \in 0..B-1 /\ B > 0 BY <1>1, <1>2
    <3>3. H \div B = p BY <1>1, <3>2, DividedUnique
    <3>. QED BY <1>4, <3>1, <3>3
  <2>2. CASE e # B - 1
    <3>1. Div!EstimateOf(p, q, e) = ((p * B + q) \div (e + 1)) % B BY <2>2, DivNames DEF Div!EstimateOf
    <3>2. Div!EstimateOf(p, q, e) = z % B BY <1>2, <1>3, <1>4, <3>1, Zenon
    <3>. QED BY <1>8, <3>2, WrapSmall
  <2>. QED BY <2>1, <2>2
<1>10. z * w <= v
  <2>1. z * w <= z * (E * K)
    <3>1. E * K \in Int BY <1>3
    <3>2. w * z <= (E * K) * z BY <1>4, <1>5, <3>1, ProductOrder
    <3>3. w * z = z * w /\ (E * K) * z = z * (E * K) BY <1>3, <1>4
    <3>. QED BY <3>2, <3>3
  <2>2. z * (E * K) = (z * E) * K BY <1>3, <1>4
  <2>3. (z * E) * K <= H * K
    <3>1. z * E \in Int /\ z * E <= H BY <1>2, <1>3, <1>4
    <3>. QED BY <1>2, <3>1, ProductOrder
  <2>4. PICK s, u, o \in Int : s = z * w /\ u = (z * E) * K /\ o = H * K
    <3>1. z * w \in Int /\ (z * E) * K \in Int /\ H * K \in Int BY <1>2, <1>3, <1>4
    <3>. QED BY <3>1
  <2>. QED BY <1>2, <2>1, <2>2, <2>3, <2>4
<1>11. v < (z + 3) * w
  <2>1. H + 1 <= (z + 1) * E
    <3>1. (z + 1) * E = z * E + E BY <1>3, <1>4
    <3>2. PICK s \in Int : s = z * E BY <1>3, <1>4
    <3>. QED BY <1>2, <1>3, <1>4, <3>1, <3>2
  <2>2. (z + 1) * E <= (z + 3) * e
    <3>1. (z + 1) * E = z * e + z + e + 1 BY <1>1, <1>3, <1>4
    <3>2. (z + 3) * e = z * e + 3 * e BY <1>1, <1>4
    <3>3. PICK s \in Int : s = z * e BY <1>1, <1>4
    <3>. QED BY <1>1, <1>4, <1>7, <3>1, <3>2, <3>3
  <2>3. (H + 1) * K <= ((z + 3) * e) * K
    <3>1. H + 1 \in Int /\ (z + 1) * E \in Int /\ (z + 3) * e \in Int BY <1>1, <1>2, <1>3, <1>4
    <3>2. H + 1 <= (z + 3) * e BY <2>1, <2>2, <3>1
    <3>. QED BY <3>1, <3>2, ProductOrder
  <2>4. (H + 1) * K = H * K + K BY <1>2
  <2>5. (z + 3) * w = ((z + 3) * e) * K + (z + 3) * g
    <3>1. PICK y \in Nat : y = z + 3 BY <1>4
    <3>2. y * (e * K + g) = (y * e) * K + y * g BY <1>1, <3>1
    <3>. QED BY <3>1, <3>2
  <2>6. (z + 3) * g \in Nat
    <3>1. PICK y \in Nat : y = z + 3 BY <1>4
    <3>2. y * g \in Nat BY <3>1
    <3>. QED BY <3>1, <3>2
  <2>7. PICK s, u, o \in Int : s = H * K /\ u = ((z + 3) * e) * K /\ o = (z + 3) * g
    <3>1. PICK y \in Nat : y = (z + 3) * e
      <4>1. PICK f \in Nat : f = z + 3 BY <1>4
      <4>2. f * e \in Nat BY <1>1, <4>1
      <4>. QED BY <4>1, <4>2
    <3>2. H * K \in Int /\ y * K \in Int BY <1>2, <3>1
    <3>. QED BY <2>6, <3>1, <3>2
  <2>. QED BY <1>2, <2>3, <2>4, <2>5, <2>6, <2>7
<1>. QED BY <1>8, <1>9, <1>10, <1>11 DEF EstimateStep

(* What the steps of bn_div need of all that.                                *)
LEMMA Magnitude ==
  ASSUME NEW n \in Nat, NEW k \in Nat, k + 1 <= n, NEW y, AllDigits(y, n), y[k] # 0
  PROVE  Low(y, k + 1) >= Pow(k)
<1>1. k \in 0..n-1 /\ k \in 0..n OBVIOUS
<1>2. PICK v \in Nat : v = y[k] /\ v >= 1
  <2>1. y[k] \in Nat BY <1>1, BaseAssumption DEF AllDigits, Digit
  <2>. QED BY <2>1
<1>3. PICK Y \in Nat, K \in Nat : Y = Low(y, k) /\ K = Pow(k)
  <2>1. Low(y, k) \in Nat BY <1>1, LowStep
  <2>2. Pow(k) \in Nat BY PowStep
  <2>. QED BY <2>1, <2>2
<1>4. Low(y, k + 1) = Y + v * K BY <1>1, <1>2, <1>3, LowStep
<1>5. v * K >= K BY <1>2, ProductGrows
<1>6. PICK z \in Int : z = v * K BY <1>2
<1>. QED BY <1>3, <1>4, <1>5, <1>6

LEMMA NoTopDigit ==
  ASSUME NEW n \in Nat, NEW k \in Nat, k + 1 <= n, NEW y, AllDigits(y, n), Low(y, k + 1) < Pow(k)
  PROVE  Low(y, k + 1) = Low(y, k)
<1>1. k \in 0..n-1 /\ k \in 0..n /\ k + 1 \in 0..n OBVIOUS
<1>2. PICK Y \in Nat, Z \in Nat, K \in Nat : Y = Low(y, k) /\ Z = Low(y, k + 1) /\ K = Pow(k)
  <2>1. Low(y, k) \in Nat /\ Low(y, k + 1) \in Nat BY <1>1, LowStep
  <2>2. Pow(k) \in Nat BY PowStep
  <2>. QED BY <2>1, <2>2
<1>3. y[k] = 0
  <2>. SUFFICES ASSUME y[k] # 0 PROVE FALSE OBVIOUS
  <2>1. Z >= K BY <1>2, Magnitude
  <2>. QED BY <1>2, <2>1
<1>4. Z = Y + 0 * K BY <1>1, <1>2, <1>3, LowStep
<1>5. 0 * K = 0 OBVIOUS
<1>. QED BY <1>2, <1>4, <1>5

LEMMA DigitSet ==
  ASSUME NEW n \in Nat, NEW x \in Array(n), NEW j \in 0..n-1, x[j] = 0, NEW v \in Digit
  PROVE  /\ [x EXCEPT ![j] = v] \in Array(n)
         /\ Low([x EXCEPT ![j] = v], n) = Low(x, n) + v * Pow(j)
<1> USE BaseAssumption
<1> DEFINE y == [x EXCEPT ![j] = v]
<1>1. y \in Array(n) /\ y[j] = v /\ \A u \in 0..n-1 : u # j => y[u] = x[u] BY DEF Array
<1>. HIDE DEF y
<1>2. j + 1 \in 0..n /\ j \in 0..n /\ j \in Nat /\ n \in 0..n OBVIOUS
<1>3. AllDigits(x, n) /\ AllDigits(y, n) /\ AllDigits(x, j) /\ AllDigits(y, j) BY <1>1, <1>2, ArrayDigits
<1>4. Low(x, j) = Low(y, j)
  <2>1. \A u \in 0..j-1 : x[u] = y[u] BY <1>1
  <2>. QED BY <1>2, <1>3, <2>1, LowSame
<1>5. Low(y, n) + Low(x, j + 1) = Low(x, n) + Low(y, j + 1)
  <2>1. \A u \in j+1..n-1 : y[u] = x[u] BY <1>1
  <2>. QED BY <1>2, <1>3, <2>1, LowAbove
<1>6. PICK X \in Nat, Y \in Nat, Z \in Nat, K \in Nat :
        X = Low(x, n) /\ Y = Low(y, n) /\ Z = Low(x, j) /\ K = Pow(j)
  <2>1. Low(x, n) \in Nat /\ Low(y, n) \in Nat /\ Low(x, j) \in Nat BY <1>2, <1>3, LowStep
  <2>2. Pow(j) \in Nat BY <1>2, PowStep
  <2>. QED BY <2>1, <2>2
<1>7. Low(x, j + 1) = Z + 0 * K /\ Low(y, j + 1) = Z + v * K
  <2>1. Low(x, j + 1) = Low(x, j) + x[j] * Pow(j) BY <1>3, LowStep
  <2>2. Low(y, j + 1) = Low(y, j) + y[j] * Pow(j) BY <1>3, LowStep
  <2>. QED BY <1>1, <1>4, <1>6, <2>1, <2>2
<1>8. PICK z \in Int : z = v * K
  <2>1. v \in Int BY DEF Digit
  <2>. QED BY <2>1
<1>9. 0 * K = 0 OBVIOUS
<1>10. Y = X + z BY <1>5, <1>6, <1>7, <1>8, <1>9
<1>. QED BY <1>1, <1>6, <1>8, <1>10 DEF y

(* A shifted number with the digit that left it, and zeros behind.             *)
LEMMA Extended ==
  ASSUME NEW h \in Nat, NEW M \in Nat, h <= M, NEW x \in Array(h), NEW v \in Digit, NEW z,
         z = [j \in 0..M |-> IF j < h THEN x[j] ELSE IF j = h THEN v ELSE 0]
  PROVE  z \in Array(M + 1) /\ Low(z, M + 1) = Low(x, h) + v * Pow(h)
<1> USE BaseAssumption
<1>1. \A j \in 0..M : z[j] \in Digit
  <2>. SUFFICES ASSUME NEW j \in 0..M PROVE z[j] \in Digit OBVIOUS
  <2>1. j < h => x[j] \in Digit BY DEF Array
  <2>2. 0 \in Digit BY DEF Digit
  <2>. QED BY <2>1, <2>2
<1>2. z \in Array(M + 1)
  <2>1. 0..M = 0..(M + 1)-1 OBVIOUS
  <2>2. z \in [0..M -> Digit] BY <1>1
  <2>. QED BY <2>1, <2>2 DEF Array
<1>3. PICK len \in Nat : len = M + 1 /\ h + 1 \in 0..len /\ h \in 0..len /\ h \in 0..len-1 OBVIOUS
<1>4. AllDigits(z, len) /\ AllDigits(z, h)
  <2>1. len \in 0..len OBVIOUS
  <2>. QED BY <1>2, <1>3, <2>1, ArrayDigits
<1>5. AllDigits(x, h)
  <2>1. h \in 0..h OBVIOUS
  <2>. QED BY <2>1, ArrayDigits
<1>6. Low(z, len) = Low(z, h + 1)
  <2>1. \A u \in h+1..len-1 : z[u] = 0 BY <1>3
  <2>. QED BY <1>3, <1>4, <2>1, LowShort
<1>7. Low(z, h) = Low(x, h)
  <2>1. \A u \in 0..h-1 : z[u] = x[u] OBVIOUS
  <2>. QED BY <1>4, <1>5, <2>1, LowSame
<1>8. z[h] = v OBVIOUS
<1>9. Low(z, h + 1) = Low(z, h) + z[h] * Pow(h) BY <1>3, <1>4, LowStep
<1>. QED BY <1>2, <1>3, <1>6, <1>7, <1>8, <1>9

(* The digits from k on of x, n + 1 of them, against y.                       *)
LEMMA DigitEstimated ==
  ASSUME NEW len \in Nat, NEW x \in Array(len), NEW n \in Nat, n > 0, NEW k \in Nat, k + n < len,
         NEW y \in Array(n), 2 * y[n-1] >= B, Low(x, k + n + 1) < Low(y, n) * Pow(k + 1)
  PROVE  EstimateStep(Low(x, k + n + 1), Low(y, n) * Pow(k), Div!EstimateOf(x[k+n], x[k+n-1], y[n-1]))
<1> USE BaseAssumption
<1>1. PICK j \in 0..n-1 : j = n - 1 /\ j + 1 = n /\ j \in Nat OBVIOUS
<1>2. PICK p \in Nat : p = n + 1 /\ k + p = k + n + 1 /\ k + p \in 0..len /\ k \in 0..len OBVIOUS
<1> DEFINE w == [u \in 0..p-1 |-> x[k+u]]
<1>3. AllDigits(x, k + p) /\ AllDigits(y, n) /\ AllDigits(x, len)
  <2>1. n \in 0..n /\ len \in 0..len OBVIOUS
  <2>. QED BY <1>2, <2>1, ArrayDigits
<1>4. AllDigits(w, p) /\ Low(x, k + p) = Low(x, k) + Low(w, p) * Pow(k)
  <2>1. \A u \in 0..p-1 : w[u] = x[k+u] OBVIOUS
  <2>. HIDE DEF w
  <2>. QED BY <1>3, <2>1, LowWindow
<1>5. PICK g \in Digit, h \in Digit, e \in Digit : g = x[k+n] /\ h = x[k+n-1] /\ e = y[n-1] /\ g = w[n] /\ h = w[j] /\ e = y[j]
  <2>1. n \in 0..p-1 /\ j \in 0..p-1 BY <1>1, <1>2
  <2>2. w[n] = x[k+n] /\ w[j] = x[k+n-1] BY <1>1, <2>1
  <2>3. w[n] \in Digit /\ w[j] \in Digit /\ y[j] \in Digit BY <1>1, <1>3, <1>4, <2>1 DEF AllDigits
  <2>. QED BY <1>1, <2>2, <2>3
<1>. HIDE DEF w
<1>6. PICK J \in Nat, K \in Nat : J = Pow(j) /\ K = Pow(k) /\ Pow(n) = J * B /\ Pow(k + 1) = K * B /\ K >= 1
  <2>1. Pow(j) \in Nat /\ Pow(j + 1) = Pow(j) * B BY <1>1, PowStep
  <2>2. Pow(k) \in Nat /\ Pow(k) >= 1 /\ Pow(k + 1) = Pow(k) * B BY PowStep
  <2>. QED BY <1>1, <2>1, <2>2
<1>7. PICK r \in Nat, f \in Nat, V \in Nat, W \in Nat, X \in Nat :
        /\ r = Low(w, j) /\ f = Low(y, j) /\ V = Low(w, p) /\ W = Low(y, n) /\ X = Low(x, k)
        /\ r < J /\ f < J /\ X < K
  <2>1. j \in 0..p /\ p \in 0..p /\ j \in 0..n /\ n \in 0..n BY <1>1, <1>2
  <2>2. Low(w, j) \in Nat /\ Low(w, p) \in Nat /\ Low(w, j) < Pow(j) BY <1>4, <2>1, LowStep
  <2>3. Low(y, j) \in Nat /\ Low(y, n) \in Nat /\ Low(y, j) < Pow(j) BY <1>3, <2>1, LowStep
  <2>4. Low(x, k) \in Nat /\ Low(x, k) < Pow(k) BY <1>2, <1>3, LowStep
  <2>. QED BY <1>6, <2>2, <2>3, <2>4
<1>8. W = e * J + f
  <2>1. Low(y, j + 1) = Low(y, j) + y[j] * Pow(j) BY <1>1, <1>3, LowStep
  <2>2. W = f + e * J BY <1>1, <1>5, <1>6, <1>7, <2>1
  <2>3. PICK z \in Int : z = e * J
    <3>1. e \in Int BY DEF Digit
    <3>. QED BY <3>1
  <2>. QED BY <1>7, <2>2, <2>3
<1>9. V = (g * B + h) * J + r
  <2>1. j \in 0..p-1 /\ n \in 0..p-1 BY <1>1, <1>2
  <2>2. Low(w, j + 1) = Low(w, j) + w[j] * Pow(j) BY <1>4, <2>1, LowStep
  <2>3. Low(w, n + 1) = Low(w, n) + w[n] * Pow(n) BY <1>4, <2>1, LowStep
  <2>4. V = (r + h * J) + g * (J * B) BY <1>1, <1>2, <1>5, <1>6, <1>7, <2>2, <2>3
  <2>5. g \in Int /\ h \in Int BY DEF Digit
  <2>6. (g * B + h) * J = g * (J * B) + h * J BY <2>5
  <2>7. PICK z, o \in Int : z = h * J /\ o = g * (J * B) BY <2>5
  <2>. QED BY <1>7, <2>4, <2>6, <2>7
<1>10. Low(x, k + n + 1) = X + V * K BY <1>2, <1>4, <1>6, <1>7
<1>11. PICK z, o \in Int : z = V * K /\ o = W * K OBVIOUS
<1>12. V < W * B
  <2>1. X + V * K < W * (K * B) BY <1>6, <1>7, <1>10
  <2>2. W * (K * B) = (W * B) * K OBVIOUS
  <2>3. PICK s \in Int : s = (W * B) * K OBVIOUS
  <2>4. V * K < (W * B) * K BY <1>7, <1>11, <2>1, <2>2, <2>3
  <2>5. W * B \in Int OBVIOUS
  <2>. QED BY <2>4, <2>5, ProductOrder
<1>13. 2 * e >= B BY <1>5
<1>14. PICK q : q = Div!EstimateOf(g, h, e) /\ EstimateStep(V, W, q)
  <2>1. EstimateStep(V, W, Div!EstimateOf(g, h, e)) BY <1>7, <1>8, <1>9, <1>12, <1>13, EstimateFact
  <2>. QED BY <2>1
<1>15. q \in Digit /\ q * W <= V /\ V < (q + 3) * W BY <1>14 DEF EstimateStep
<1>16. q \in Nat BY <1>15 DEF Digit
<1>17. q * (W * K) <= X + V * K
  <2>1. q * W \in Int BY <1>16
  <2>2. (q * W) * K <= V * K BY <1>15, <2>1, ProductOrder
  <2>3. (q * W) * K = q * (W * K) BY <1>16
  <2>4. PICK s \in Int : s = q * (W * K) BY <1>16
  <2>. QED BY <1>7, <1>11, <2>2, <2>3, <2>4
<1>18. X + V * K < (q + 3) * (W * K)
  <2>1. PICK y1 \in Nat : y1 = q + 3 BY <1>16
  <2>2. y1 * W \in Int BY <2>1
  <2>3. V * K + K <= (y1 * W) * K BY <1>6, <1>15, <2>1, <2>2, ProductOrder
  <2>4. (y1 * W) * K = y1 * (W * K) BY <2>1
  <2>5. PICK s \in Int : s = y1 * (W * K) BY <2>1
  <2>6. X + V * K < y1 * (W * K) BY <1>7, <1>11, <2>3, <2>4, <2>5
  <2>. QED BY <2>1, <2>6
<1>. QED BY <1>5, <1>6, <1>7, <1>10, <1>14, <1>15, <1>17, <1>18 DEF EstimateStep

LEMMA DigitTooSmall ==
  ASSUME NEW len \in Nat, NEW x \in Array(len), NEW n \in Nat, NEW k \in Nat, k + n < len, NEW y \in Array(n)
  PROVE  (x[k+n] # 0 \/ Div!bn_cmp([j \in 0..n-1 |-> x[k+j]], y, n) >= 0)
           <=> Low(x, k + n + 1) >= Low(y, n) * Pow(k)
<1> USE BaseAssumption
<1> DEFINE w == [j \in 0..n-1 |-> x[k+j]]
<1>1. k + n \in 0..len-1 /\ k + n \in 0..len /\ k \in 0..len /\ k + n \in Nat OBVIOUS
<1>2. AllDigits(x, k + n) /\ AllDigits(y, n) /\ AllDigits(x, len)
  <2>1. n \in 0..n /\ len \in 0..len OBVIOUS
  <2>. QED BY <1>1, <2>1, ArrayDigits
<1>3. AllDigits(w, n) /\ Low(x, k + n) = Low(x, k) + Low(w, n) * Pow(k)
  <2>1. \A u \in 0..n-1 : w[u] = x[k+u] OBVIOUS
  <2>. HIDE DEF w
  <2>. QED BY <1>2, <2>1, LowWindow
<1>4. Div!bn_cmp(w, y, n) >= 0 <=> Low(w, n) >= Low(y, n)
  <2>. HIDE DEF w
  <2>. QED BY <1>2, <1>3, CmpFact
<1>. HIDE DEF w
<1>5. PICK h \in Nat : h = x[k+n]
  <2>1. x[k+n] \in Nat BY <1>1, <1>2 DEF AllDigits, Digit
  <2>. QED BY <2>1
<1>6. PICK J \in Nat, K \in Nat, N \in Nat : J = Pow(k + n) /\ K = Pow(k) /\ N = Pow(n) /\ J = K * N
  <2>1. Pow(k + n) \in Nat /\ Pow(k) \in Nat /\ Pow(n) \in Nat BY <1>1, PowStep
  <2>2. Pow(k + n) = Pow(k) * Pow(n) BY PowSum
  <2>. QED BY <2>1, <2>2
<1>7. PICK V \in Nat, W \in Nat, X \in Nat : V = Low(w, n) /\ W = Low(y, n) /\ X = Low(x, k) /\ X < K /\ W < N
  <2>1. n \in 0..n OBVIOUS
  <2>2. Low(w, n) \in Nat BY <1>3, <2>1, LowStep
  <2>3. Low(y, n) \in Nat /\ Low(y, n) < Pow(n) BY <1>2, <2>1, LowStep
  <2>4. Low(x, k) \in Nat /\ Low(x, k) < Pow(k) BY <1>1, <1>2, LowStep
  <2>. QED BY <1>6, <2>2, <2>3, <2>4
<1>8. Low(x, k + n + 1) = (X + V * K) + h * J
  <2>1. Low(x, (k + n) + 1) = Low(x, k + n) + x[k+n] * Pow(k + n) BY <1>1, <1>2, LowStep
  <2>. QED BY <1>3, <1>5, <1>6, <1>7, <2>1
<1>9. PICK z \in Nat, o \in Int, s \in Nat : z = V * K /\ o = W * K /\ s = h * J
  <2>1. V * K \in Nat /\ W * K \in Int /\ h * J \in Nat OBVIOUS
  <2>. QED BY <2>1
<1>10. CASE h # 0
  <2>1. s >= J BY <1>9, <1>10, ProductGrows
  <2>2. o <= J
    <3>1. W * K <= N * K BY <1>7, ProductOrder
    <3>2. N * K = K * N OBVIOUS
    <3>. QED BY <1>6, <1>9, <3>1, <3>2
  <2>3. (X + z) + s >= o BY <2>1, <2>2
  <2>. QED BY <1>5, <1>6, <1>7, <1>8, <1>9, <1>10, <2>3
<1>11. CASE h = 0
  <2>1. s = 0 BY <1>9, <1>11
  <2>2. V >= W => z >= o BY <1>9, ProductOrder
  <2>3. V < W => z + K <= o BY <1>7, <1>9, ProductOrder
  <2>8. X < K BY <1>7
  <2>4. (X + z) + s >= o <=> V >= W
    <3>1. CASE V >= W BY <2>1, <2>2, <3>1
    <3>2. CASE V < W BY <2>1, <2>3, <2>8, <3>2
    <3>. QED BY <3>1, <3>2
  <2>5. Low(x, k + n + 1) = (X + z) + s BY <1>8, <1>9
  <2>6. Low(y, n) * Pow(k) = o BY <1>6, <1>7, <1>9
  <2>7. Div!bn_cmp(w, y, n) >= 0 <=> V >= W BY <1>4, <1>7
  <2>. QED BY <1>5, <1>11, <2>4, <2>5, <2>6, <2>7 DEF w
<1>. QED BY <1>10, <1>11

-----------------------------------------------------------------------------
(* bn_div: the inductive invariant.  What is left, below the digit that is     *)
(* being computed, and the quotient so far make up the dividend, both shifted; *)
(* and what is left is less than one more digit can take.                     *)
Left == Low(cc, i + dddigits + 1)
Divisor == Low(dd, dddigits)
Dividend == 2^shift * Low(c, cdigits)
Quotient == Low(a, cdigits)

DivArguments ==
  /\ cdigits \in Nat /\ ddigits \in Nat /\ c \in Array(cdigits) /\ d \in Array(ddigits)
  /\ tries \in 0..2 /\ at \in {"start", "digit", "correct", "remainder", "done"}
Shifted ==
  /\ LeadingZeros(d, ddigits, dddigits) /\ dddigits > 0 /\ shift \in 0..DigitBits
  /\ dd \in Array(dddigits) /\ 2 * dd[dddigits-1] >= B
  /\ Divisor = 2^shift * Low(d, ddigits)
  /\ cc \in Array((IF cdigits >= dddigits THEN cdigits ELSE dddigits - 1) + 1)
  /\ a \in Array(cdigits)
AtDigit == i \in 0 .. cdigits - dddigits /\ \A u \in 0..i : a[u] = 0
DivInv ==
  /\ DivArguments
  /\ at \in {"digit", "correct", "remainder"} => Shifted
  /\ at \in {"digit", "correct"} => AtDigit
  /\ at = "digit" =>
       /\ Left + Quotient * Divisor = Dividend
       /\ Left < Divisor * Pow(i + 1)
  /\ at = "correct" =>
       /\ ai \in Digit
       /\ Left + (Quotient + ai * Pow(i)) * Divisor = Dividend
       /\ Left + ai * (Divisor * Pow(i)) < Divisor * Pow(i + 1)
       /\ Left + tries * (Divisor * Pow(i)) < 3 * (Divisor * Pow(i))
  /\ at = "remainder" =>
       /\ Low(cc, dddigits) + Quotient * Divisor = Dividend
       /\ Low(cc, dddigits) < Divisor
  /\ at = "done" => Div!DividesExactly

LEMMA DivInitial == DivSetting /\ Div!Init => DivInv
BY DivNames DEF DivSetting, Div!Init, DivInv, DivArguments

(* The numbers of a state within the loop, once for all its steps.             *)
DivNumbers(n, len, K, W, X, C, Q) ==
  /\ n = dddigits /\ len = (IF cdigits >= dddigits THEN cdigits ELSE dddigits - 1) + 1
  /\ K = Pow(i) /\ K >= 1 /\ Pow(i + 1) = K * B /\ W = Divisor /\ X = Left /\ C = Dividend /\ Q = Quotient
  /\ n > 0 /\ i \in Nat /\ i + n < len /\ i \in 0..cdigits-1
  /\ dd \in Array(n) /\ AllDigits(dd, n) /\ 2 * dd[n-1] >= B
  /\ cc \in Array(len) /\ a \in Array(cdigits) /\ W * K \in Nat
LEMMA DivNumbersExist ==
  ASSUME DivSetting, DivInv, at \in {"digit", "correct"}
  PROVE  \E n, len, K, W, X, C, Q \in Nat : DivNumbers(n, len, K, W, X, C, Q)
<1>1. DivArguments /\ Shifted /\ AtDigit BY DEF DivInv
<1>2. PICK n, h \in Nat : n = dddigits /\ h = cdigits /\ n > 0
  <2>1. dddigits \in Nat BY <1>1 DEF DivArguments, Shifted, LeadingZeros
  <2>. QED BY <1>1, <2>1 DEF DivArguments, Shifted
<1>3. i \in 0..h-n BY <1>1, <1>2 DEF AtDigit
<1>4. PICK k, len \in Nat : k = i /\ len = h + 1 /\ k + n < len /\ k \in 0..h-1 /\ k + n + 1 \in 0..len
  /\ len = (IF cdigits >= dddigits THEN cdigits ELSE dddigits - 1) + 1
  BY <1>2, <1>3
<1>5. /\ dd \in Array(n) /\ 2 * dd[n-1] >= B /\ cc \in Array(len) /\ a \in Array(h)
      /\ c \in Array(h) /\ shift \in 0..DigitBits
  BY <1>1, <1>2, <1>4 DEF DivArguments, Shifted
<1>6. AllDigits(dd, n) /\ AllDigits(cc, len) /\ AllDigits(a, h) /\ AllDigits(c, h)
  <2>1. n \in 0..n /\ len \in 0..len /\ h \in 0..h OBVIOUS
  <2>. QED BY <1>5, <2>1, ArrayDigits
<1>7. Low(dd, n) \in Nat /\ Low(cc, k + n + 1) \in Nat /\ Low(a, h) \in Nat /\ Low(c, h) \in Nat
  <2>1. n \in 0..n /\ len \in 0..len /\ h \in 0..h OBVIOUS
  <2>. QED BY <1>4, <1>6, <2>1, LowStep
<1>8. 2^shift * Low(c, h) \in Nat
  <2>1. shift \in Nat BY <1>5 DEF DivSetting
  <2>2. 2^shift \in Nat BY <2>1, TwoTo
  <2>. QED BY <1>7, <2>2
<1>9. PICK K, W, X, C, Q \in Nat :
        K = Pow(i) /\ W = Divisor /\ X = Left /\ C = Dividend /\ Q = Quotient /\ K >= 1 /\ Pow(i + 1) = K * B
  <2>1. Pow(k) \in Nat /\ Pow(k) >= 1 /\ Pow(k + 1) = Pow(k) * B BY PowStep
  <2>. QED BY <1>2, <1>4, <1>7, <1>8, <2>1 DEF Divisor, Left, Dividend, Quotient
<1>10. W * K \in Nat OBVIOUS
<1>11. DivNumbers(n, len, K, W, X, C, Q) BY <1>2, <1>4, <1>5, <1>6, <1>9, <1>10 DEF DivNumbers
<1>. QED BY <1>11

LEMMA EstimateStepHolds == DivSetting /\ DivInv /\ Div!Estimate => DivInv'
<1>. SUFFICES ASSUME DivSetting, DivInv, Div!Estimate PROVE DivInv' OBVIOUS
<1>1. /\ at = "digit" /\ at' = "correct" /\ tries' = 0
      /\ UNCHANGED <<c, cdigits, d, ddigits, a, b, dd, dddigits, shift, i>>
      /\ ai' = Div!EstimateOf(cc[i+dddigits], cc[i+dddigits-1], dd[dddigits-1])
      /\ cc' = Div!SubMul(cc, i, dddigits, ai', dd)
  BY DEF Div!Estimate
<1>2. PICK n, len, K, W, X, C, Q \in Nat : DivNumbers(n, len, K, W, X, C, Q) BY <1>1, DivNumbersExist
<1>3. DivArguments /\ Shifted /\ AtDigit /\ X + Q * W = C /\ X < W * (K * B) BY <1>1, <1>2 DEF DivInv, DivNumbers
<1>4. PICK q : q = ai' /\ EstimateStep(X, W * K, q)
  <2>1. Low(cc, i + n + 1) < Low(dd, n) * Pow(i + 1) BY <1>2, <1>3 DEF DivNumbers, Left, Divisor
  <2>2. EstimateStep(Low(cc, i + n + 1), Low(dd, n) * Pow(i), Div!EstimateOf(cc[i+n], cc[i+n-1], dd[n-1]))
    BY <1>2, <2>1, DigitEstimated DEF DivNumbers
  <2>. QED BY <1>1, <1>2, <2>2 DEF DivNumbers, Left, Divisor
<1>5. q \in Digit /\ q * (W * K) <= X /\ X < (q + 3) * (W * K) BY <1>4 DEF EstimateStep
<1>6. q \in Nat BY <1>5 DEF Digit
<1>7. cc' \in Array(len) /\ Left' = X - q * (W * K)
  <2>1. q * (Low(dd, n) * Pow(i)) <= Low(cc, i + n + 1) BY <1>2, <1>5 DEF DivNumbers, Left, Divisor
  <2>2. /\ Div!SubMul(cc, i, n, q, dd) \in Array(len)
        /\ Low(Div!SubMul(cc, i, n, q, dd), i + n + 1) = Low(cc, i + n + 1) - q * (Low(dd, n) * Pow(i))
    BY <1>2, <1>5, <2>1, SubMulFact DEF DivNumbers
  <2>. QED BY <1>1, <1>2, <1>4, <2>2 DEF DivNumbers, Left, Divisor
<1>8. PICK F, Z \in Nat : F = W * K /\ Z = q * F
  <2>1. W * K \in Nat BY <1>2 DEF DivNumbers
  <2>2. q * (W * K) \in Nat BY <1>6, <2>1
  <2>. QED BY <2>1, <2>2
<1>9. (X - Z) + (Q + q * K) * W = C
  <2>1. (Q + q * K) * W = Q * W + q * (W * K)
    <3>1. (Q + q * K) * W = Q * W + (q * K) * W BY <1>6
    <3>2. (q * K) * W = q * (W * K) BY <1>6
    <3>. QED BY <3>1, <3>2
  <2>2. PICK o \in Int : o = Q * W OBVIOUS
  <2>3. (Q + q * K) * W = o + Z BY <1>8, <2>1, <2>2, Zenon
  <2>4. X + o = C BY <1>3, <2>2
  <2>5. (X - Z) + (o + Z) = C BY <2>4
  <2>. QED BY <2>3, <2>5
<1>10. (X - Z) + q * F < W * (K * B) BY <1>3, <1>8
<1>11. (X - Z) + 0 * F < 3 * F
  <2>1. (q + 3) * F = Z + 3 * F BY <1>6, <1>8
  <2>. QED BY <1>5, <1>8, <2>1
<1>12. UNCHANGED <<Quotient, Divisor, Dividend>> /\ i' = i /\ Shifted' /\ AtDigit' /\ DivArguments'
  <2>1. UNCHANGED <<Quotient, Divisor, Dividend>> BY <1>1 DEF Quotient, Divisor, Dividend
  <2>2. Shifted'
    <3>1. cc' \in Array((IF cdigits' >= dddigits' THEN cdigits' ELSE dddigits' - 1) + 1) BY <1>1, <1>2, <1>7 DEF DivNumbers
    <3>. QED BY <1>1, <1>3, <2>1, <3>1 DEF Shifted
  <2>3. AtDigit' BY <1>1, <1>3 DEF AtDigit
  <2>4. DivArguments' BY <1>1, <1>3 DEF DivArguments
  <2>. QED BY <1>1, <2>1, <2>2, <2>3, <2>4
<1>13. /\ ai' \in Digit
       /\ Left' + (Quotient' + ai' * Pow(i')) * Divisor' = Dividend'
       /\ Left' + ai' * (Divisor' * Pow(i')) < Divisor' * Pow(i' + 1)
       /\ Left' + tries' * (Divisor' * Pow(i')) < 3 * (Divisor' * Pow(i'))
  BY <1>1, <1>2, <1>4, <1>5, <1>7, <1>8, <1>9, <1>10, <1>11, <1>12 DEF DivNumbers
<1>. QED BY <1>1, <1>12, <1>13 DEF DivInv

LEMMA CorrectStepHolds == DivSetting /\ DivInv /\ Div!Correct => DivInv'
<1>. SUFFICES ASSUME DivSetting, DivInv, Div!Correct PROVE DivInv' OBVIOUS
<1> USE BaseAssumption
<1>1. /\ at = "correct" /\ at' = "correct" /\ Div!TooSmall /\ ai' = (ai + 1) % B /\ tries' = tries + 1
      /\ cc' = Div!Sub(cc, i, dddigits, dd)
      /\ UNCHANGED <<c, cdigits, d, ddigits, a, b, dd, dddigits, shift, i>>
  BY DEF Div!Correct
<1>2. PICK n, len, K, W, X, C, Q \in Nat : DivNumbers(n, len, K, W, X, C, Q) BY <1>1, DivNumbersExist
<1>3. PICK F, q, t2 \in Nat : F = W * K /\ q = ai /\ t2 = tries /\ q \in Digit /\ t2 <= 2
  <2>1. ai \in Digit /\ ai \in Nat /\ tries \in Nat /\ tries <= 2 BY <1>1 DEF DivInv, DivArguments, Digit
  <2>2. W * K \in Nat BY <1>2 DEF DivNumbers
  <2>. QED BY <2>1, <2>2
<1>4. /\ DivArguments /\ Shifted /\ AtDigit
      /\ X + (Q + q * K) * W = C /\ X + q * F < W * (K * B) /\ X + t2 * F < 3 * F
  BY <1>1, <1>2, <1>3 DEF DivInv, DivNumbers
<1>5. X >= F
  <2>1. cc[i+n] # 0 \/ Div!bn_cmp([j \in 0..n-1 |-> cc[i+j]], dd, n) >= 0 BY <1>1, <1>2 DEF Div!TooSmall, DivNumbers
  <2>2. Low(cc, i + n + 1) >= Low(dd, n) * Pow(i) BY <1>2, <2>1, DigitTooSmall DEF DivNumbers
  <2>. QED BY <1>2, <1>3, <2>2 DEF DivNumbers, Left, Divisor
<1>6. cc' \in Array(len) /\ Left' = X - F
  <2>1. Low(dd, n) * Pow(i) <= Low(cc, i + n + 1) BY <1>2, <1>3, <1>5 DEF DivNumbers, Left, Divisor
  <2>2. /\ Div!Sub(cc, i, n, dd) \in Array(len)
        /\ Low(Div!Sub(cc, i, n, dd), i + n + 1) = Low(cc, i + n + 1) - Low(dd, n) * Pow(i)
    BY <1>2, <2>1, SubFact DEF DivNumbers
  <2>. QED BY <1>1, <1>2, <1>3, <2>2 DEF DivNumbers, Left, Divisor
<1>7. ai' = q + 1 /\ q + 1 \in Digit
  <2>1. PICK o \in Int : o = q * F OBVIOUS
  <2>2. W * (K * B) = B * F
    <3>1. W * (K * B) = (W * K) * B OBVIOUS
    <3>. QED BY <1>3, <3>1
  <2>3. (q + 1) * F = o + F BY <2>1
  <2>4. (q + 1) * F < B * F BY <1>4, <1>5, <2>1, <2>2, <2>3
  <2>5. q + 1 < B
    <3>1. q + 1 \in Int /\ B \in Int OBVIOUS
    <3>. QED BY <2>4, <3>1, ProductOrder
  <2>6. q + 1 \in Digit BY <2>5 DEF Digit
  <2>7. (q + 1) % B = q + 1 BY <2>6, WrapSmall
  <2>. QED BY <1>1, <1>3, <2>6, <2>7
<1>8. t2 + 1 <= 2
  <2>1. PICK o \in Int : o = t2 * F OBVIOUS
  <2>2. (t2 + 1) * F = o + F BY <2>1
  <2>3. (t2 + 1) * F < 3 * F BY <1>4, <1>5, <2>1, <2>2
  <2>4. t2 + 1 < 3
    <3>1. t2 + 1 \in Int /\ 3 \in Int OBVIOUS
    <3>. QED BY <2>3, <3>1, ProductOrder
  <2>. QED BY <2>4
<1>9. (X - F) + (Q + (q + 1) * K) * W = C
  <2>1. PICK G \in Nat : G = Q + q * K
    <3>1. q * K \in Nat OBVIOUS
    <3>. QED BY <3>1
  <2>2. Q + (q + 1) * K = G + K
    <3>1. (q + 1) * K = q * K + K OBVIOUS
    <3>2. PICK o \in Int : o = q * K OBVIOUS
    <3>. QED BY <2>1, <3>1, <3>2
  <2>3. (G + K) * W = G * W + W * K OBVIOUS
  <2>4. PICK o \in Int : o = G * W OBVIOUS
  <2>. QED BY <1>3, <1>4, <2>1, <2>2, <2>3, <2>4
<1>10. (X - F) + (q + 1) * F < W * (K * B)
  <2>1. PICK o, v \in Int : o = q * F /\ v = W * (K * B)
    <3>1. q * F \in Int /\ W * (K * B) \in Int OBVIOUS
    <3>. QED BY <3>1
  <2>2. (q + 1) * F = o + F BY <2>1
  <2>. QED BY <1>4, <2>1, <2>2
<1>11. (X - F) + (t2 + 1) * F < 3 * F
  <2>1. PICK o \in Int : o = t2 * F OBVIOUS
  <2>2. (t2 + 1) * F = o + F BY <2>1
  <2>. QED BY <1>4, <2>1, <2>2
<1>12. UNCHANGED <<Quotient, Divisor, Dividend>> /\ i' = i /\ Shifted' /\ AtDigit' /\ DivArguments'
  <2>1. UNCHANGED <<Quotient, Divisor, Dividend>> BY <1>1 DEF Quotient, Divisor, Dividend
  <2>2. Shifted'
    <3>1. cc' \in Array((IF cdigits' >= dddigits' THEN cdigits' ELSE dddigits' - 1) + 1) BY <1>1, <1>2, <1>6 DEF DivNumbers
    <3>. QED BY <1>1, <1>4, <2>1, <3>1 DEF Shifted
  <2>3. AtDigit' BY <1>1, <1>4 DEF AtDigit
  <2>4. tries' \in 0..2 BY <1>1, <1>3, <1>8
  <2>5. DivArguments' BY <1>1, <1>4, <2>4 DEF DivArguments
  <2>. QED BY <1>1, <2>1, <2>2, <2>3, <2>5
<1>13. /\ ai' \in Digit
       /\ Left' + (Quotient' + ai' * Pow(i')) * Divisor' = Dividend'
       /\ Left' + ai' * (Divisor' * Pow(i')) < Divisor' * Pow(i' + 1)
       /\ Left' + tries' * (Divisor' * Pow(i')) < 3 * (Divisor' * Pow(i'))
  BY <1>1, <1>2, <1>3, <1>6, <1>7, <1>9, <1>10, <1>11, <1>12 DEF DivNumbers
<1>. QED BY <1>1, <1>12, <1>13 DEF DivInv

LEMMA StoreStepHolds == DivSetting /\ DivInv /\ Div!StoreDigit => DivInv'
<1>. SUFFICES ASSUME DivSetting, DivInv, Div!StoreDigit PROVE DivInv' OBVIOUS
<1> USE BaseAssumption
<1>1. /\ at = "correct" /\ ~Div!TooSmall /\ a' = [a EXCEPT ![i] = ai] /\ i' = i - 1
      /\ at' = IF i > 0 THEN "digit" ELSE "remainder"
      /\ UNCHANGED <<c, cdigits, d, ddigits, b, cc, dd, dddigits, shift, ai, tries>>
  BY DEF Div!StoreDigit
<1>2. PICK n, len, K, W, X, C, Q \in Nat : DivNumbers(n, len, K, W, X, C, Q) BY <1>1, DivNumbersExist
<1>3. PICK q \in Nat : q = ai /\ q \in Digit
  <2>1. ai \in Digit /\ ai \in Nat BY <1>1 DEF DivInv, Digit
  <2>. QED BY <2>1
<1>4. DivArguments /\ Shifted /\ AtDigit /\ X + (Q + q * K) * W = C
  BY <1>1, <1>2, <1>3 DEF DivInv, DivNumbers
<1>5. PICK k \in Nat : k = i /\ k + n \in Nat /\ k + n + 1 <= len BY <1>2 DEF DivNumbers
<1>6. AllDigits(cc, len)
  <2>1. len \in 0..len OBVIOUS
  <2>. QED BY <1>2, <2>1, ArrayDigits DEF DivNumbers
<1>7. X < W * K
  <2>1. ~(cc[i+n] # 0 \/ Div!bn_cmp([j \in 0..n-1 |-> cc[i+j]], dd, n) >= 0) BY <1>1, <1>2 DEF Div!TooSmall, DivNumbers
  <2>2. ~(Low(cc, i + n + 1) >= Low(dd, n) * Pow(i))
    <3>1. cc \in Array(len) /\ i \in Nat /\ i + n < len /\ dd \in Array(n) BY <1>2 DEF DivNumbers
    <3>2. (cc[i+n] # 0 \/ Div!bn_cmp([j \in 0..n-1 |-> cc[i+j]], dd, n) >= 0)
            <=> Low(cc, i + n + 1) >= Low(dd, n) * Pow(i)
      BY <3>1, DigitTooSmall
    <3>. QED BY <2>1, <3>2, Zenon
  <2>3. ~(X >= W * K) BY <1>2, <2>2 DEF DivNumbers, Left, Divisor
  <2>4. W * K \in Int OBVIOUS
  <2>. QED BY <2>3, <2>4
<1>8. Low(cc, k + n) = X
  <2>1. PICK N, P \in Nat : N = Pow(n) /\ P = Pow(k + n) /\ P = N * K /\ W < N
    <3>1. Pow(n) \in Nat /\ Pow(k + n) \in Nat BY <1>5, PowStep
    <3>2. Pow(k + n) = Pow(k) * Pow(n) BY PowSum
    <3>3. Pow(k) * Pow(n) = Pow(n) * Pow(k)
      <4>1. Pow(k) \in Nat BY PowStep
      <4>. QED BY <3>1, <4>1
    <3>4. Low(dd, n) < Pow(n)
      <4>1. n \in 0..n OBVIOUS
      <4>. QED BY <1>2, <4>1, LowStep DEF DivNumbers
    <3>. QED BY <1>2, <1>5, <3>1, <3>2, <3>3, <3>4 DEF DivNumbers, Divisor
  <2>2. W * K <= N * K
    <3>1. W <= N BY <2>1
    <3>. QED BY <3>1, ProductOrder
  <2>3. X < P
    <3>1. PICK o \in Int : o = W * K OBVIOUS
    <3>. QED BY <1>7, <2>1, <2>2, <3>1
  <2>4. Low(cc, (k + n) + 1) = X BY <1>2, <1>5 DEF DivNumbers, Left
  <2>5. Low(cc, (k + n) + 1) < Pow(k + n) BY <2>1, <2>3, <2>4
  <2>6. Low(cc, (k + n) + 1) = Low(cc, k + n) BY <1>5, <1>6, <2>5, NoTopDigit
  <2>. QED BY <2>4, <2>6
<1>9. a' \in Array(cdigits) /\ Quotient' = Q + q * K
  <2>1. PICK h \in Nat : h = cdigits /\ a \in Array(h) /\ i \in 0..h-1 /\ a[i] = 0
    <3>1. a[i] = 0 BY <1>4, <1>5 DEF AtDigit
    <3>. QED BY <1>2, <1>4, <3>1 DEF DivNumbers, DivArguments
  <2>2. a' \in Array(h) /\ Low(a', h) = Low(a, h) + q * Pow(i) BY <1>1, <1>3, <2>1, DigitSet
  <2>. QED BY <1>1, <1>2, <2>1, <2>2 DEF DivNumbers, Quotient
<1>10. UNCHANGED <<Divisor, Dividend>> /\ Shifted' /\ DivArguments'
  <2>1. UNCHANGED <<Divisor, Dividend>> BY <1>1 DEF Divisor, Dividend
  <2>2. Shifted' BY <1>1, <1>4, <1>9, <2>1 DEF Shifted
  <2>3. DivArguments' BY <1>1, <1>4 DEF DivArguments
  <2>. QED BY <2>1, <2>2, <2>3
<1>11. CASE i > 0
  <2>1. PICK g \in Nat : g = i' /\ g + 1 = k /\ g + n + 1 = k + n BY <1>1, <1>5, <1>11
  <2>7. \A v \in 0..g : v \in 0..k /\ v # k
    <3>1. g + 1 = k BY <2>1
    <3>. QED BY <3>1
  <2>2. AtDigit'
    <3>1. i' \in 0 .. cdigits' - dddigits' BY <1>1, <1>4, <1>11 DEF AtDigit, DivArguments, Shifted, LeadingZeros
    <3>2. ASSUME NEW u \in 0..i' PROVE a'[u] = 0
      <4>0. u \in 0..g BY <2>1
      <4>1. u \in 0..k /\ u # k BY <2>7, <4>0
      <4>2. a[u] = 0 BY <1>4, <1>5, <4>1 DEF AtDigit
      <4>3. u \in 0..cdigits-1 /\ a = [v \in 0..cdigits-1 |-> a[v]]
        <5>1. k \in 0..cdigits-1 /\ cdigits \in Nat BY <1>2, <1>4, <1>5 DEF DivNumbers, DivArguments
        <5>2. u \in 0..cdigits-1 BY <4>1, <5>1
        <5>. QED BY <1>4, <5>2 DEF Shifted, Array
      <4>. QED BY <1>1, <1>5, <4>1, <4>2, <4>3
    <3>. QED BY <1>1, <3>1, <3>2 DEF AtDigit
  <2>3. Left' = X BY <1>1, <1>2, <1>8, <2>1 DEF Left, DivNumbers
  <2>4. Divisor' = W /\ Dividend' = C /\ Pow(i' + 1) = K BY <1>2, <1>5, <1>10, <2>1 DEF DivNumbers
  <2>5. at' = "digit" BY <1>1, <1>11
  <2>6. Left' + Quotient' * Divisor' = Dividend' /\ Left' < Divisor' * Pow(i' + 1)
    BY <1>4, <1>7, <1>9, <2>3, <2>4
  <2>. QED BY <1>10, <2>2, <2>5, <2>6 DEF DivInv
<1>12. CASE ~(i > 0)
  <2>1. k = 0 /\ k + n = n /\ at' = "remainder" BY <1>1, <1>5, <1>12
  <2>2. Low(cc', dddigits') = X BY <1>1, <1>2, <1>8, <2>1 DEF DivNumbers
  <2>3. K = 1 /\ W * K = W
    <3>1. K = 1 BY <1>2, <1>5, <2>1, PowStep DEF DivNumbers
    <3>. QED BY <3>1
  <2>4. Divisor' = W /\ Dividend' = C BY <1>2, <1>10 DEF DivNumbers
  <2>5. Low(cc', dddigits') + Quotient' * Divisor' = Dividend' /\ Low(cc', dddigits') < Divisor'
    BY <1>4, <1>7, <1>9, <2>2, <2>3, <2>4
  <2>. QED BY <1>10, <2>1, <2>5 DEF DivInv
<1>. QED BY <1>11, <1>12

LEMMA RemainderStepHolds == DivSetting /\ DivInv /\ Div!Remainder => DivInv'
<1>. SUFFICES ASSUME DivSetting, DivInv, Div!Remainder PROVE DivInv' OBVIOUS
<1> USE BaseAssumption
<1>1. /\ at = "remainder" /\ at' = "done"
      /\ b' = [j \in 0..ddigits-1 |-> IF j < dddigits THEN Div!bn_shift_r(cc, shift, dddigits)[j] ELSE 0]
      /\ UNCHANGED <<c, cdigits, d, ddigits, a, cc, dd, dddigits, shift, i, ai, tries>>
  BY DEF Div!Remainder
<1>2. /\ DivArguments /\ Shifted
      /\ Low(cc, dddigits) + Quotient * Divisor = Dividend /\ Low(cc, dddigits) < Divisor
  BY <1>1 DEF DivInv
<1>3. PICK n, h, e \in Nat : n = dddigits /\ h = cdigits /\ e = ddigits /\ n > 0 /\ n \in 0..e
  BY <1>2 DEF DivArguments, Shifted, LeadingZeros
<1>4. /\ c \in Array(h) /\ d \in Array(e) /\ a \in Array(h) /\ dd \in Array(n)
      /\ AllDigits(c, h) /\ AllDigits(d, e) /\ AllDigits(a, h)
  <2>1. c \in Array(h) /\ d \in Array(e) /\ a \in Array(h) /\ dd \in Array(n) BY <1>2, <1>3 DEF DivArguments, Shifted
  <2>2. h \in 0..h /\ e \in 0..e OBVIOUS
  <2>. QED BY <2>1, <2>2, ArrayDigits
<1>5. AllDigits(cc, n)
  <2>1. PICK len \in Nat : cc \in Array(len) /\ n <= len
    <3>1. (IF h >= n THEN h ELSE n - 1) + 1 \in Nat /\ n <= (IF h >= n THEN h ELSE n - 1) + 1 BY <1>3
    <3>. QED BY <1>2, <1>3, <3>1 DEF Shifted
  <2>2. n \in 0..len BY <2>1
  <2>. QED BY <2>1, <2>2, ArrayDigits
<1>6. PICK T, U \in Nat : Shifts(shift, T, U) /\ T >= 1
  <2>1. shift \in Nat /\ DigitBits - shift \in Nat BY <1>2 DEF Shifted, DivSetting
  <2>2. 2^shift \in Nat /\ 2^shift >= 1 /\ 2^(DigitBits - shift) \in Nat BY <2>1, TwoTo
  <2>. QED BY <1>2, <2>2 DEF Shifts, Shifted
<1>7. PICK X, C, D, Q \in Nat : X = Low(cc, n) /\ C = Low(c, h) /\ D = Low(d, e) /\ Q = Low(a, h)
  <2>1. n \in 0..n /\ h \in 0..h /\ e \in 0..e OBVIOUS
  <2>2. Low(cc, n) \in Nat /\ Low(c, h) \in Nat BY <1>4, <1>5, <2>1, LowStep
  <2>3. Low(d, e) \in Nat /\ Low(a, h) \in Nat BY <1>4, <2>1, LowStep
  <2>. QED BY <2>2, <2>3
<1>8. X + Q * (T * D) = T * C /\ X < T * D
  BY <1>2, <1>3, <1>6, <1>7 DEF Shifts, Shifted, Quotient, Divisor, Dividend
<1>9. PICK o \in Nat : o = Q * D
  <2>1. Q * D \in Nat OBVIOUS
  <2>. QED BY <2>1
<1>10. X = (C - o) * T
  <2>1. Q * (T * D) = T * (Q * D) OBVIOUS
  <2>2. Q * (T * D) = T * o BY <1>9, <2>1, Zenon
  <2>3. (C - o) * T = T * C - T * o OBVIOUS
  <2>4. PICK u, v \in Int : u = T * C /\ v = T * o OBVIOUS
  <2>. QED BY <1>8, <2>2, <2>3, <2>4
<1>11. C - o >= 0 /\ C - o < D
  <2>1. C - o \in Int /\ T * D = D * T OBVIOUS
  <2>2. (C - o) * T < D * T BY <1>8, <1>10, <2>1
  <2>3. C - o < D BY <2>1, <2>2, ProductOrder
  <2>4. (-1) * T < (C - o) * T BY <1>6, <1>10
  <2>5. -1 < C - o
    <3>1. -1 \in Int OBVIOUS
    <3>. QED BY <2>1, <2>4, <3>1, ProductOrder
  <2>. QED BY <2>1, <2>3, <2>5
<1>12. PICK R \in Nat : R = C - o /\ R < D /\ C = Q * D + R
  <2>1. C - o \in Nat BY <1>11
  <2>. QED BY <1>9, <1>11, <2>1
<1>13. PICK y : y = Div!bn_shift_r(cc, shift, n) /\ y \in Array(n) /\ Low(y, n) = R
  <2>1. R * T = T * R OBVIOUS
  <2>2. Low(cc, n) = T * R BY <1>7, <1>10, <1>12, <2>1
  <2>. QED BY <1>3, <1>5, <1>6, <2>2, ShiftRightFact
<1>14. PICK z : z = b' /\ AllDigits(z, e) /\ Low(z, e) = R
  <2>1. b' = [j \in 0..e-1 |-> IF j < n THEN y[j] ELSE 0] BY <1>1, <1>3, <1>13
  <2>2. PICK z : z = b' OBVIOUS
  <2>3. \A j \in 0..e-1 : z[j] = IF j < n THEN y[j] ELSE 0 BY <2>1, <2>2
  <2>4. AllDigits(y, n)
    <3>1. n \in 0..n OBVIOUS
    <3>. QED BY <1>13, <3>1, ArrayDigits
  <2>5. AllDigits(z, e) /\ AllDigits(z, n)
    <3>1. 0 \in Digit BY DEF Digit
    <3>2. \A j \in 0..e-1 : z[j] \in Digit
      <4>. SUFFICES ASSUME NEW j \in 0..e-1 PROVE z[j] \in Digit OBVIOUS
      <4>1. CASE j < n
        <5>1. j \in 0..n-1 BY <4>1
        <5>. QED BY <2>3, <2>4, <4>1, <5>1 DEF AllDigits
      <4>2. CASE ~(j < n) BY <2>3, <3>1, <4>2
      <4>. QED BY <4>1, <4>2
    <3>3. \A j \in 0..n-1 : j \in 0..e-1 BY <1>3
    <3>. QED BY <3>2, <3>3 DEF AllDigits
  <2>6. Low(z, e) = Low(z, n)
    <3>1. \A u \in n..e-1 : z[u] = 0
      <4>1. \A u \in n..e-1 : u \in 0..e-1 /\ ~(u < n) OBVIOUS
      <4>. QED BY <2>3, <4>1
    <3>. QED BY <1>3, <2>5, <3>1, LowShort
  <2>7. Low(z, n) = Low(y, n)
    <3>1. \A u \in 0..n-1 : z[u] = y[u]
      <4>1. \A u \in 0..n-1 : u \in 0..e-1 /\ u < n BY <1>3
      <4>. QED BY <2>3, <4>1
    <3>. QED BY <2>4, <2>5, <3>1, LowSame
  <2>. QED BY <1>13, <2>2, <2>5, <2>6, <2>7
<1>15. Value(c, h) = C /\ Value(d, e) = D /\ Value(a, h) = Q /\ Value(z, e) = R
  <2>1. Value(c, h) = C /\ Value(d, e) = D BY <1>4, <1>7, ValueIsLow
  <2>2. Value(a, h) = Q /\ Value(z, e) = R BY <1>4, <1>7, <1>14, ValueIsLow
  <2>. QED BY <2>1, <2>2
<1>16. C \div D = Q /\ C % D = R
  <2>1. D > 0 /\ Q \in Int /\ R \in 0..D-1 /\ C \in Int BY <1>12
  <2>. QED BY <1>12, <2>1, DividedUnique
<1>17. (Div!DividesExactly)'
  <2>1. Value(a', cdigits') = Value(c', cdigits') \div Value(d', ddigits')
    BY <1>1, <1>3, <1>15, <1>16
  <2>2. Value(b', ddigits') = Value(c', cdigits') % Value(d', ddigits')
    BY <1>1, <1>3, <1>14, <1>15, <1>16
  <2>. QED BY <2>1, <2>2, DivNames DEF Div!DividesExactly
<1>18. DivArguments' BY <1>1, <1>2 DEF DivArguments
<1>. QED BY <1>1, <1>17, <1>18 DEF DivInv

LEMMA StartStepHolds == DivSetting /\ DivInv /\ Div!Start => DivInv'
<1>. SUFFICES ASSUME DivSetting, DivInv, Div!Start PROVE DivInv' OBVIOUS
<1> USE BaseAssumption
<1>1. PICK n, h, e : n = Div!bn_digits(d, ddigits) /\ h = cdigits /\ e = ddigits OBVIOUS
<1>2. DivArguments BY DEF DivInv
<1>3. /\ h \in Nat /\ e \in Nat /\ n \in 0..e /\ LeadingZeros(d, e, n)
      /\ c \in Array(h) /\ d \in Array(e) /\ AllDigits(c, h) /\ AllDigits(d, e) /\ AllDigits(d, n)
  <2>1. h \in Nat /\ e \in Nat /\ c \in Array(h) /\ d \in Array(e) BY <1>1, <1>2 DEF DivArguments
  <2>2. LeadingZeros(d, e, n) BY <1>1, <2>1, DivDigitsFact
  <2>3. n \in 0..e /\ h \in 0..h /\ e \in 0..e BY <2>1, <2>2 DEF LeadingZeros
  <2>. QED BY <2>1, <2>2, <2>3, ArrayDigits
<1>4. Low(d, e) = Low(d, n) BY <1>3, LowShort DEF LeadingZeros
<1>5. CASE n = 0
  <2>1. /\ at' = "done" /\ UNCHANGED <<c, cdigits, d, ddigits, b, ai, tries>>
    BY <1>1, <1>5 DEF Div!Start
  <2>2. Value(d, e) = 0
    <3>1. Low(d, 0) = 0 BY <1>3, LowStep
    <3>. QED BY <1>3, <1>4, <1>5, <3>1, ValueIsLow
  <2>3. (Div!DividesExactly)' BY <1>1, <2>1, <2>2, DivNames DEF Div!DividesExactly
  <2>4. DivArguments' BY <1>2, <2>1 DEF DivArguments
  <2>. QED BY <2>1, <2>3, <2>4 DEF DivInv
<1>6. CASE n # 0
  <2>1. PICK k \in 0..e-1 : k = n - 1 /\ k \in Nat /\ k + 1 = n /\ n \in Nat BY <1>3, <1>6
  <2>2. PICK v \in Digit : v = d[k] /\ v = d[n-1] /\ v # 0
    <3>1. d[n-1] # 0 BY <1>3, <1>6 DEF LeadingZeros
    <3>2. d[k] \in Digit BY <1>3, <2>1 DEF AllDigits
    <3>. QED BY <2>1, <3>1, <3>2
  <2>3. PICK s, T, U : s = Div!TopBitShift(v) /\ T \in Nat /\ U \in Nat /\ Shifts(s, T, U) /\ v < U /\ U <= 2 * v
    BY <2>2, TopBitFact
  <2>4. T >= 1 /\ T * U = B /\ s \in 0..DigitBits /\ T = 2^s BY <2>3, ShiftsFact DEF Shifts
  <2>5. PICK l : /\ l = Div!bn_shift_l(c, s, h) /\ l.digits \in Array(h) /\ l.carry \in Digit
                 /\ Low(l.digits, h) + l.carry * Pow(h) = T * Low(c, h)
    BY <1>3, <2>3, ShiftLeftFact
  <2>6. PICK g : /\ g = Div!bn_shift_l(d, s, n) /\ g.digits \in Array(n) /\ g.carry = 0
                 /\ Low(g.digits, n) + g.carry * Pow(n) = T * Low(d, n)
                 /\ g.digits[n-1] >= v * T
    <3>1. n > 0 /\ d[n-1] < U BY <2>1, <2>2, <2>3
    <3>. QED BY <1>3, <2>1, <2>2, <2>3, <3>1, ShiftLeftFact
  <2>7. PICK M \in Nat : M = (IF h >= n THEN h ELSE n - 1) /\ h <= M /\ M + 1 = (IF h >= n THEN h ELSE n - 1) + 1
    BY <1>3, <2>1
  <2>8. /\ at = "start" /\ dddigits' = n /\ shift' = s
        /\ cc' = [j \in 0..M |-> IF j < h THEN l.digits[j] ELSE IF j = h THEN l.carry ELSE 0]
        /\ dd' = g.digits /\ a' = bn_assign_zero(h) /\ i' = h - n
        /\ at' = IF i' >= 0 THEN "digit" ELSE "remainder"
        /\ UNCHANGED <<c, cdigits, d, ddigits, b, ai, tries>>
    BY <1>1, <1>6, <2>2, <2>3, <2>5, <2>6, <2>7, DivNames DEF Div!Start
  <2>9. cc' \in Array(M + 1) /\ Low(cc', M + 1) = T * Low(c, h)
    <3>1. cc' \in Array(M + 1) /\ Low(cc', M + 1) = Low(l.digits, h) + l.carry * Pow(h)
      <4>1. PICK x, o, z : x = l.digits /\ o = l.carry /\ z = cc' OBVIOUS
      <4>2. z = [j \in 0..M |-> IF j < h THEN x[j] ELSE IF j = h THEN o ELSE 0] BY <2>8, <4>1
      <4>3. x \in Array(h) /\ o \in Digit /\ h \in Nat /\ h <= M BY <1>3, <2>5, <2>7, <4>1
      <4>4. z \in Array(M + 1) /\ Low(z, M + 1) = Low(x, h) + o * Pow(h) BY <4>2, <4>3, Extended
      <4>. QED BY <4>1, <4>4
    <3>. QED BY <2>5, <3>1
  <2>10. PICK C, D, W, P, J \in Nat :
           /\ C = Low(c, h) /\ D = Low(d, e) /\ W = Low(dd', n) /\ W = T * D
           /\ P = Pow(h) /\ C < P /\ J = Pow(k) /\ J <= D
    <3>1. h \in 0..h /\ e \in 0..e /\ n \in 0..n BY <1>3, <2>1
    <3>2. Low(c, h) \in Nat /\ Low(c, h) < Pow(h) BY <1>3, <3>1, LowStep
    <3>3. Low(d, e) \in Nat BY <1>3, <3>1, LowStep
    <3>4. Low(d, k + 1) >= Pow(k)
      <4>1. k + 1 <= e BY <1>3, <2>1
      <4>. QED BY <1>3, <2>1, <2>2, <4>1, Magnitude
    <3>5. Pow(h) \in Nat /\ Pow(k) \in Nat /\ Pow(n) \in Nat BY <1>3, <2>1, PowStep
    <3>6. AllDigits(g.digits, n) BY <2>1, <2>6, <3>1, ArrayDigits
    <3>7. Low(g.digits, n) \in Nat BY <2>1, <3>1, <3>6, LowStep
    <3>8. Low(g.digits, n) = T * Low(d, e)
      <4>1. PICK o \in Nat, N \in Nat : o = Low(g.digits, n) /\ N = Pow(n) BY <3>5, <3>7
      <4>2. o + 0 * N = T * Low(d, n) BY <2>6, <4>1
      <4>3. o + 0 * N = o BY <4>1
      <4>. QED BY <1>4, <4>1, <4>2, <4>3
    <3>. QED BY <1>4, <2>1, <2>8, <3>2, <3>3, <3>4, <3>5, <3>7, <3>8
  <2>11. 2 * g.digits[n-1] >= B
    <3>1. PICK y \in Int : y = g.digits[n-1]
      <4>1. n - 1 \in 0..n-1 BY <2>1
      <4>2. g.digits[n-1] \in Digit BY <2>6, <4>1 DEF Array
      <4>. QED BY <4>2 DEF Digit
    <3>2. v \in Int BY <2>2 DEF Digit
    <3>3. U * T <= (2 * v) * T
      <4>1. 2 * v \in Int /\ U \in Int BY <2>3, <3>2
      <4>. QED BY <2>3, <4>1, ProductOrder
    <3>4. PICK o \in Int : o = v * T BY <2>3, <3>2
    <3>5. (2 * v) * T = 2 * o BY <2>3, <3>2, <3>4
    <3>6. U * T = B BY <2>3, <2>4
    <3>. QED BY <2>6, <3>1, <3>3, <3>4, <3>5, <3>6
  <2>12. T * C < T * D \/ P > J
    <3>. SUFFICES ASSUME P <= J PROVE T * C < T * D BY <2>10
    <3>1. C < D BY <2>10
    <3>2. C * T + T <= D * T BY <2>3, <2>4, <2>10, <3>1, ProductOrder
    <3>3. C * T = T * C /\ D * T = T * D BY <2>3, <2>10
    <3>4. PICK u1, u2 \in Int : u1 = T * C /\ u2 = T * D
      <4>1. T * C \in Int /\ T * D \in Int BY <2>3
      <4>. QED BY <4>1
    <3>. QED BY <2>3, <2>4, <3>2, <3>3, <3>4
  <2>13. \A u \in 0..h-1 : a'[u] = 0 BY <2>8 DEF bn_assign_zero
  <2>14. a' \in Array(h) /\ Low(a', h) = 0
    <3>1. a' \in Array(h) BY <2>8 DEF bn_assign_zero, Array, Digit
    <3>2. h \in 0..h /\ 0 \in 0..h BY <1>3
    <3>3. AllDigits(a', h) BY <1>3, <3>1, <3>2, ArrayDigits
    <3>4. Low(a', h) = Low(a', 0) BY <1>3, <2>13, <3>2, <3>3, LowShort
    <3>5. Low(a', 0) = 0 BY <1>3, <3>3, LowStep
    <3>. QED BY <3>1, <3>4, <3>5
  <2>15. Divisor' = W /\ Dividend' = T * C /\ Quotient' = 0
    BY <1>1, <2>4, <2>8, <2>10, <2>14 DEF Divisor, Dividend, Quotient
  <2>16. Shifted'
    <3>1. LeadingZeros(d', ddigits', dddigits') /\ dddigits' > 0 /\ shift' \in 0..DigitBits
      BY <1>1, <1>3, <2>1, <2>4, <2>8
    <3>2. dd' \in Array(dddigits') /\ 2 * dd'[dddigits'-1] >= B BY <2>6, <2>8, <2>11
    <3>3. Divisor' = 2^shift' * Low(d', ddigits') BY <1>1, <2>4, <2>8, <2>10, <2>15
    <3>4. cc' \in Array((IF cdigits' >= dddigits' THEN cdigits' ELSE dddigits' - 1) + 1)
      BY <1>1, <2>7, <2>8, <2>9
    <3>5. a' \in Array(cdigits') BY <1>1, <2>8, <2>14
    <3>. QED BY <3>1, <3>2, <3>3, <3>4, <3>5 DEF Shifted
  <2>17. DivArguments'
    <3>1. at' \in {"digit", "remainder"} BY <2>8
    <3>. QED BY <1>2, <2>8, <3>1 DEF DivArguments
  <2>18. PICK X \in Nat : X = T * C BY <2>3
  <2>19. 0 * W = 0 /\ X + 0 = X BY <2>10
  <2>20. CASE h >= n
    <3>1. PICK j \in Nat : j = h - n /\ j = i' /\ j + n + 1 = M + 1 /\ M = h /\ at' = "digit" /\ k + (j + 1) = h
      <4>1. h - n \in Nat /\ (h - n) + n + 1 = h + 1 /\ k + ((h - n) + 1) = h BY <1>3, <2>1, <2>20
      <4>2. h - n >= 0 BY <4>1
      <4>3. M = h BY <2>7, <2>20
      <4>. QED BY <2>8, <4>1, <4>2, <4>3
    <3>2. Left' = X BY <2>8, <2>9, <2>10, <2>18, <3>1 DEF Left
    <3>3. AtDigit'
      <4>1. i' \in 0 .. cdigits' - dddigits' BY <1>1, <2>8, <3>1
      <4>2. \A u \in 0..j : u \in 0..h-1 BY <1>3, <2>1, <3>1
      <4>3. \A u \in 0..i' : a'[u] = 0 BY <2>13, <3>1, <4>2
      <4>. QED BY <4>1, <4>3 DEF AtDigit
    <3>4. X < W * Pow(j + 1)
      <4>1. PICK N \in Nat : N = Pow(j + 1) /\ P = J * N
        <5>1. j + 1 \in Nat OBVIOUS
        <5>2. Pow(j + 1) \in Nat BY <5>1, PowStep
        <5>3. Pow(k + (j + 1)) = Pow(k) * Pow(j + 1) BY <2>1, <5>1, PowSum
        <5>. QED BY <2>10, <3>1, <5>2, <5>3
      <4>2. J * N <= D * N BY <2>10, ProductOrder
      <4>3. PICK o \in Nat : o = D * N
        <5>1. D * N \in Nat BY <2>10
        <5>. QED BY <5>1
      <4>4. C < o BY <2>10, <4>1, <4>2, <4>3
      <4>5. C * T + T <= o * T BY <2>3, <2>4, <2>10, <4>4, ProductOrder
      <4>6. o * T = (T * D) * N
        <5>1. (D * N) * T = (T * D) * N BY <2>3, <2>10
        <5>. QED BY <4>3, <5>1
      <4>7. C * T = X BY <2>3, <2>10, <2>18
      <4>8. PICK y \in Int : y = o * T BY <2>3
      <4>9. X < y BY <2>3, <2>4, <4>5, <4>7, <4>8
      <4>. QED BY <2>10, <4>1, <4>6, <4>8, <4>9
    <3>5. Left' + Quotient' * Divisor' = Dividend' /\ Left' < Divisor' * Pow(i' + 1)
      BY <2>15, <2>18, <2>19, <3>1, <3>2, <3>4
    <3>. QED BY <2>16, <2>17, <3>1, <3>3, <3>5 DEF DivInv
  <2>21. CASE ~(h >= n)
    <3>1. M = n - 1 /\ M + 1 = n /\ at' = "remainder"
      <4>1. M = n - 1 BY <2>7, <2>21
      <4>2. ~(h - n >= 0) /\ (n - 1) + 1 = n BY <1>3, <2>1, <2>21
      <4>. QED BY <2>8, <4>1, <4>2
    <3>2. P <= J
      <4>1. PICK j \in Nat : h + j = k BY <1>3, <2>1, <2>21
      <4>2. PICK N \in Nat : N = Pow(j) /\ N >= 1 /\ J = P * N
        <5>1. Pow(j) \in Nat /\ Pow(j) >= 1 BY PowStep
        <5>2. Pow(h + j) = Pow(h) * Pow(j) BY <1>3, PowSum
        <5>. QED BY <2>10, <4>1, <5>1, <5>2
      <4>3. N * P >= P /\ N * P = P * N BY <2>10, <4>2, ProductGrows
      <4>. QED BY <4>2, <4>3
    <3>3. T * C < T * D BY <2>10, <2>12, <3>2
    <3>4. Low(cc', dddigits') = X BY <2>8, <2>9, <2>10, <2>18, <3>1
    <3>5. Low(cc', dddigits') + Quotient' * Divisor' = Dividend' /\ Low(cc', dddigits') < Divisor'
      BY <2>10, <2>15, <2>18, <2>19, <3>3, <3>4
    <3>. QED BY <2>16, <2>17, <3>1, <3>5 DEF DivInv
  <2>. QED BY <2>20, <2>21
<1>. QED BY <1>5, <1>6

LEMMA DivInvHolds == DivSetting /\ Div!Spec => []DivInv
<1>. SUFFICES ASSUME DivSetting PROVE Div!Spec => []DivInv OBVIOUS
<1>1. DivInv /\ [Div!Next]_(Div!vars) => DivInv'
  <2>. SUFFICES ASSUME DivInv, [Div!Next]_(Div!vars) PROVE DivInv' OBVIOUS
  <2>1. CASE UNCHANGED Div!vars
    <3>1. UNCHANGED <<c, cdigits, d, ddigits, a, b, cc, dd, dddigits, shift, i, ai, at, tries>>
      BY <2>1 DEF Div!vars
    <3>2. UNCHANGED <<Left, Divisor, Dividend, Quotient>> BY <3>1 DEF Left, Divisor, Dividend, Quotient
    <3>3. DivArguments' = DivArguments BY <3>1 DEF DivArguments
    <3>4. Shifted' = Shifted BY <3>1, <3>2 DEF Shifted
    <3>5. AtDigit' = AtDigit BY <3>1 DEF AtDigit
    <3>6. (Div!DividesExactly)' = Div!DividesExactly BY <3>1 DEF Div!DividesExactly
    <3>. QED BY <3>1, <3>2, <3>3, <3>4, <3>5, <3>6, ZenonT(30) DEF DivInv
  <2>. QED BY <2>1, StartStepHolds, EstimateStepHolds, CorrectStepHolds, StoreStepHolds, RemainderStepHolds
       DEF Div!Next
<1>2. Div!Init => DivInv BY DivInitial
<1>. QED BY <1>1, <1>2, PTL DEF Div!Spec

(* Quotient and remainder are exact, for every number of bits of a digit, every *)
(* length of dividend and divisor and every content: bn_div.                  *)
THEOREM DivExact == DivSetting /\ Div!Spec => []Div!DividesExactly
<1>1. DivInv => Div!DividesExactly BY DEF DivInv, Div!DividesExactly
<1>. QED BY <1>1, DivInvHolds, PTL

(* An estimated digit is corrected twice at most, whatever the digits: the loop *)
(* in bn_div that has no bound of its own (line 150) ends.                    *)
THEOREM FewCorrectionsHolds == DivSetting /\ Div!Spec => []Div!FewCorrections
<1>1. DivInv => Div!FewCorrections BY DEF DivInv, DivArguments, Div!FewCorrections
<1>. QED BY <1>1, DivInvHolds, PTL
=============================================================================
