-------------------------------- MODULE Rsa ---------------------------------
(***************************************************************************)
(* RSA as a whole (crypto_lib, rsa.c): the blocks of RsaPadding.tla go      *)
(* through private_block_operation, which works modulo each prime and      *)
(* combines the two results, and public_block_operation, in the order the  *)
(* sender's and the receiver's function call them.  The numbers are those  *)
(* the arrays stand for; the arrays of the combination have pdigits or      *)
(* ndigits digits, so that a result is modulo a power of Radix.  What the       *)
(* operations of bignum.c do is the subject of BnCarry, BnDiv and ModExp.  *)
(***************************************************************************)
EXTENDS RsaPadding

CONSTANTS
  Base,       \* 256 in the code: a byte is below it
  Radix,      \* 2^BN_DIGIT_BITS
  Keys        \* primes p and q, exponents e and d that belong together

ASSUME RadixAssumption == Base \in Nat /\ Radix \in Nat /\ Byte = 0..Base-1 /\ Radix > 1

Power(y, e) ==
  LET pow[k \in 0..e] == IF k = 0 THEN 1 ELSE pow[k-1] * y
  IN pow[e]

(* y^e modulo m *)
bn_mod_exp(y, e, m) ==
  LET pow[k \in 0..e] == IF k = 0 THEN 1 ELSE (pow[k-1] * y) % m
  IN pow[e]

(* The larger prime is the first: otherwise the difference of line 223 can   *)
(* borrow; with 41 and 61 some messages do not come back.                  *)
ASSUME KeyAssumption ==
  \A k \in Keys :
    /\ k.p \in Nat /\ k.q \in Nat /\ k.e \in Nat /\ k.d \in Nat
    /\ k.q > 1 /\ k.p > k.q
    /\ (k.e * k.d) % ((k.p - 1) * (k.q - 1)) = 1
    /\ Power(Base, modulus_len - 1) <= k.p * k.q /\ k.p * k.q < Power(Base, modulus_len)
(* What primes are needed for: one has an inverse modulo the other, and       *)
(* modulo each, by Fermat's theorem, the exponents undo each other.          *)
ASSUME PrimeAssumption ==
  \A k \in Keys :
    /\ \E y \in 1..k.p-1 : (y * k.q) % k.p = 1
    /\ \A r \in {k.p, k.q} : \A y \in 0..r-1 :
         /\ bn_mod_exp(bn_mod_exp(y, k.e, r), k.d % (r - 1), r) = y
         /\ bn_mod_exp(bn_mod_exp(y, k.d % (r - 1), r), k.e, r) = y

(* bytes to a number, the first one being the most significant, and back   *)
bn_decode(s) ==
  LET sum[k \in 0..modulus_len] == IF k = 0 THEN 0 ELSE sum[k-1] * Base + s[k-1]
  IN sum[modulus_len]
bn_encode(x) == [k \in 0..modulus_len-1 |-> (x \div Power(Base, modulus_len-1-k)) % Base]

bn_digits(x) == CHOOSE k \in 0..x : Power(Radix, k) > x /\ (k > 0 => Power(Radix, k-1) <= x)

VARIABLES
  key,
  step,      \* of the block operation: "none" while there is none
  second,    \* it is the receiver's
  padded,    \* history: what the sender's got is a padded message
  x,         \* the number it works on
  cp, cq,    \* that number modulo the primes
  mp, mq     \* the results modulo the primes

work == <<x, cp, cq, mp, mq>>
allvars == <<vars, key, step, second, padded, work>>

modulus == key.p * key.q
dp == key.d % (key.p - 1)
dq == key.d % (key.q - 1)
q_inv == CHOOSE y \in 1..key.p-1 : (y * key.q) % key.p = 1
pdigits == bn_digits(key.p)
ndigits == bn_digits(modulus)
Width(k) == Power(Radix, k)

RsaInit ==
  /\ Init
  /\ key \in Keys
  /\ step = "none" /\ second = FALSE /\ padded = FALSE
  /\ x = 0 /\ cp = 0 /\ cq = 0 /\ mp = 0 /\ mq = 0

-----------------------------------------------------------------------------

(* The operation of the sender's side, or of the other. *)
Operation(other) == IF (sender = "private") # other THEN "private" ELSE "public"

Refuse == TooLong /\ UNCHANGED <<key, step, second, padded, work>>

Call(y, whole) ==
  /\ pc = "encrypt" /\ step = "none" /\ n + Overhead <= modulus_len
  /\ x' = y
  /\ step' = Operation(FALSE)
  /\ padded' = whole
  /\ UNCHANGED <<vars, key, second, cp, cq, mp, mq>>

CallPadded ==
  \/ sender = "private" /\ Call(bn_decode(Layout(1, FillFF, n, msg)), TRUE)
  \/ sender = "public" /\ \E fill \in RandomFill : Call(bn_decode(Layout(2, fill, n, msg)), TRUE)

(* Another program uses the key for a number of its own. *)
CallOther == n = 0 /\ \E y \in 0..Power(Base, modulus_len)-1 : Call(y, FALSE)

(* Lines 175 and 210. *)
TooLarge ==
  /\ step \in {"public", "private"} /\ x >= modulus
  /\ step' = "over"
  /\ result' = Error("ERR_WRONG_DATA") /\ pc' = "done"
  /\ UNCHANGED <<sender, n, msg, block, intact, key, second, padded, work>>

public_block_operation ==
  /\ step = "public" /\ x < modulus
  /\ x' = bn_mod_exp(x, key.e, modulus)
  /\ step' = "over"
  /\ UNCHANGED <<vars, key, second, padded, cp, cq, mp, mq>>

Reduce ==
  /\ step = "private" /\ x < modulus
  /\ cp' = x % key.p /\ cq' = x % key.q
  /\ step' = "exponentiate"
  /\ UNCHANGED <<vars, key, second, padded, x, mp, mq>>

Powers == <<bn_mod_exp(cp, dp, key.p), bn_mod_exp(cq, dq, key.q)>>

Exponentiate ==
  /\ step = "exponentiate"
  /\ mp' = Powers[1] /\ mq' = Powers[2]
  /\ step' = "combine"
  /\ UNCHANGED <<vars, key, second, padded, x, cp, cq>>

(* Lines 219-224, subtractions of pdigits digits. *)
Difference ==
  IF mp >= mq THEN mp - mq
  ELSE (key.p - (mq - mp)) % Width(pdigits)

(* Mutant of the next: the factor q is left out. *)
CombinedNoQ == (((Difference * q_inv) % key.p) + mq) % Width(ndigits)

(* Lines 226-228. *)
Combined ==
  (((Difference * q_inv) % key.p) * key.q + mq) % Width(ndigits)

Combine ==
  /\ step = "combine"
  /\ x' = Combined
  /\ step' = "over"
  /\ UNCHANGED <<vars, key, second, padded, cp, cq, mp, mq>>

(* The block goes from one side to the other as bytes. *)
Transfer ==
  /\ pc = "encrypt" /\ step = "over" /\ ~second
  /\ x' = bn_decode(bn_encode(x))
  /\ second' = TRUE /\ step' = Operation(TRUE)
  /\ UNCHANGED <<vars, key, padded, cp, cq, mp, mq>>

Deliver ==
  /\ pc = "encrypt" /\ step = "over" /\ second
  /\ block' = bn_encode(x) /\ intact' = padded /\ pc' = "decrypt"
  /\ UNCHANGED <<sender, n, msg, result, key, step, second, padded, work>>

Check == Decrypt /\ UNCHANGED <<key, step, second, padded, work>>

RsaNext ==
  \/ Refuse \/ CallPadded \/ CallOther \/ TooLarge
  \/ public_block_operation \/ Reduce \/ Exponentiate \/ Combine
  \/ Transfer \/ Deliver \/ Check

RsaSpec == RsaInit /\ [][RsaNext]_allvars

-----------------------------------------------------------------------------
(* Properties.                                                             *)

(* The two operations undo each other, in both orders: to the padding it is *)
(* as if there were none between the two sides.  So every step is one of    *)
(* RsaPadding, and what is proved of that holds of the whole.              *)
ImplementsPadding == Spec
=============================================================================
