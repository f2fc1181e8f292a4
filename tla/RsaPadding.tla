----------------------------- MODULE RsaPadding -----------------------------
(***************************************************************************)
(* The blocks of the RSA functions (crypto_lib, rsa.c): how                *)
(* rsa_private_encrypt and rsa_public_encrypt pad a message to the length  *)
(* of the modulus, and what rsa_public_decrypt and rsa_private_decrypt      *)
(* accept.  An array of n bytes is a function on 0..n-1.  Between the two   *)
(* the block goes through private_block_operation and                      *)
(* public_block_operation, which are in Rsa.tla: they undo each other when *)
(* the keys belong together; otherwise any block may come out, or none.    *)
(***************************************************************************)
EXTENDS Integers

CONSTANTS
  Byte,          \* the bytes a block is made of
  FF,            \* 255 in the code
  modulus_len,   \* (bits + 7) / 8
  Overhead       \* 11 in the code: of every block, what is not message

ASSUME ByteAssumption == {0, 1, 2, FF} \subseteq Byte /\ FF # 0
ASSUME LengthAssumption ==
  /\ modulus_len \in Nat /\ Overhead \in Nat
  /\ 3 < Overhead /\ Overhead <= modulus_len

Bytes(n) == [0 .. n-1 -> Byte]
Block == Bytes(modulus_len)

Error(e) == [status |-> e, len |-> 0, out |-> [k \in 0..-1 |-> 0]]
Ok(n, s) == [status |-> "OK", len |-> n, out |-> s]

(* Mutant of the next: no 0 before the message. *)
LayoutNoZero(type, fill, n, msg) ==
  [k \in 0..modulus_len-1 |->
     IF k = 0 THEN 0
     ELSE IF k = 1 THEN type
     ELSE IF k < modulus_len - n THEN fill[k]
     ELSE msg[k - (modulus_len - n)]]

(* 0, the type, the fill, 0 and the message, of n bytes. *)
Layout(type, fill, n, msg) ==
  [k \in 0..modulus_len-1 |->
     IF k = 0 THEN 0
     ELSE IF k = 1 THEN type
     ELSE IF k < modulus_len - n - 1 THEN fill[k]
     ELSE IF k = modulus_len - n - 1 THEN 0
     ELSE msg[k - (modulus_len - n)]]

FillFF == [k \in 0..modulus_len-1 |-> FF]

(* generate_rand until the byte is not 0. *)
RandomFill == [0 .. modulus_len-1 -> Byte \ {0}]

(* Where the loops of lines 79 and 146 stop: the last byte is not looked at. *)
EndOfFF(s) ==
  CHOOSE k \in 2..modulus_len-1 :
    /\ k = modulus_len - 1 \/ s[k] # FF
    /\ \A j \in 2..k-1 : s[j] = FF
EndOfNonZero(s) ==
  CHOOSE k \in 2..modulus_len-1 :
    /\ k = modulus_len - 1 \/ s[k] = 0
    /\ \A j \in 2..k-1 : s[j] # 0

(* Mutant of the next: the minimum of fill is not asked for. *)
RestNoMinimum(s, i) ==
  Ok(modulus_len - i, [k \in 0 .. modulus_len-i-1 |-> s[i+k]])

(* The message from byte i on. *)
Rest(s, i) ==
  IF (modulus_len - i) + Overhead > modulus_len THEN Error("ERR_WRONG_DATA")
  ELSE Ok(modulus_len - i, [k \in 0 .. modulus_len-i-1 |-> s[i+k]])

PublicDecrypt(s) ==
  IF s[0] # 0 \/ s[1] # 1 \/ s[EndOfFF(s)] # 0 THEN Error("ERR_WRONG_DATA")
  ELSE Rest(s, EndOfFF(s) + 1)

PrivateDecrypt(s) ==
  IF s[0] # 0 \/ s[1] # 2 \/ EndOfNonZero(s) + 1 >= modulus_len
    THEN Error("ERR_WRONG_DATA")
  ELSE Rest(s, EndOfNonZero(s) + 1)

VARIABLES
  sender,    \* "private": rsa_private_encrypt, then rsa_public_decrypt; or "public"
  n, msg,    \* the message
  block,     \* what comes out of the block operations
  intact,    \* history: it is what went in
  result,    \* of the last function
  pc

vars == <<sender, n, msg, block, intact, result, pc>>

TypeOK ==
  /\ sender \in {"private", "public"}
  /\ n \in Nat /\ msg \in Bytes(n)
  /\ block \in Block /\ intact \in BOOLEAN
  /\ result.status \in {"OK", "ERR_WRONG_LEN", "ERR_WRONG_DATA"}
  /\ result.len \in 0..modulus_len /\ result.out \in Bytes(result.len)
  /\ pc \in {"encrypt", "decrypt", "done"}

Init ==
  /\ sender \in {"private", "public"}
  /\ n \in 0..modulus_len /\ msg \in Bytes(n)
  /\ block = [k \in 0..modulus_len-1 |-> 0] /\ intact = FALSE
  /\ result = Error("ERR_WRONG_LEN") /\ pc = "encrypt"

TooLong ==
  /\ pc = "encrypt" /\ n + Overhead > modulus_len
  /\ result' = Error("ERR_WRONG_LEN") /\ pc' = "done"
  /\ UNCHANGED <<sender, n, msg, block, intact>>

Send(s) ==
  /\ pc = "encrypt" /\ n + Overhead <= modulus_len
  /\ pc' = "decrypt" /\ intact' = TRUE /\ block' = s
  /\ UNCHANGED <<sender, n, msg, result>>

PrivateEncrypt == sender = "private" /\ Send(Layout(1, FillFF, n, msg))
PublicEncrypt ==
  /\ sender = "public"
  /\ \E fill \in RandomFill : Send(Layout(2, fill, n, msg))

(* A block of another key, or one that was damaged. *)
OtherBlock ==
  /\ pc = "encrypt" /\ n = 0
  /\ pc' = "decrypt" /\ intact' = FALSE /\ block' \in Block
  /\ UNCHANGED <<sender, n, msg, result>>

(* It is not a number the block operation takes. *)
Refused ==
  /\ pc = "encrypt" /\ n = 0
  /\ result' = Error("ERR_WRONG_DATA") /\ pc' = "done"
  /\ UNCHANGED <<sender, n, msg, block, intact>>

Decrypt ==
  /\ pc = "decrypt"
  /\ result' = IF sender = "private" THEN PublicDecrypt(block) ELSE PrivateDecrypt(block)
  /\ pc' = "done"
  /\ UNCHANGED <<sender, n, msg, block, intact>>

Next == TooLong \/ PrivateEncrypt \/ PublicEncrypt \/ OtherBlock \/ Refused \/ Decrypt

Spec == Init /\ [][Next]_vars

-----------------------------------------------------------------------------
(* Properties.                                                             *)

(* What one side pads the other gets back, whatever the message contains,   *)
(* a 0 or FF as its first byte included.  rsa_private_decrypt does not     *)
(* return an empty message, although rsa_public_encrypt pads one.          *)
RoundTrip ==
  pc = "done" /\ intact =>
    IF sender = "public" /\ n = 0
      THEN result = Error("ERR_WRONG_DATA")
      ELSE result = Ok(n, msg)

(* Nothing else is accepted: a block out of which a message comes is one   *)
(* the other side makes of that message, with at least Overhead - 3 bytes  *)
(* of fill.                                                                *)
OnlyPadded ==
  pc = "done" /\ ~intact /\ result.status = "OK" =>
    /\ result.len + Overhead <= modulus_len
    /\ IF sender = "private"
         THEN block = Layout(1, FillFF, result.len, result.out)
         ELSE /\ block = Layout(2, block, result.len, result.out)
              /\ \A k \in 2 .. modulus_len - result.len - 2 : block[k] # 0
=============================================================================
