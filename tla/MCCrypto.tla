------------------------------ MODULE MCCrypto -------------------------------
(***************************************************************************)
(* The crypto library for TLC.  A behaviour is one call of one function of  *)
(* bignum.c: the loops with carries (BnCarry), bn_mul (BnMul), bn_div         *)
(* (BnDiv) or bn_mod_exp (ModExp, with digits of two windows); or one message *)
(* through RSA, or one activation code or licence, or a message for the       *)
(* codecs.  op tells which.                                                 *)
(***************************************************************************)
EXTENDS BnCarry, Rsa

VARIABLES
  cdigits, d, ddigits, cc, dd, dddigits, shift, ai, at, tries,  \* bn_div
  bpower, t, ci, ci_bits, j,                                    \* bn_mod_exp
  digits, bdigits,                                              \* bn_mul
  dev_info, issue, sigkey, activate_code, complete, devinfo, rsa_key, found,
  sequence_txt

(* Two keys: primes of one length, far apart and close together.           *)
SomeKeys == {[p |-> 61, q |-> 37, e |-> 7, d |-> 1543],
             [p |-> 43, q |-> 41, e |-> 11, d |-> 611]}

Div == INSTANCE BnDiv WITH BN_DIGIT_BITS <- 3, MaxC <- MaxDigits + 1, MaxD <- MaxDigits, pc <- at
Mul == INSTANCE BnMul WITH ByteBase <- 2, DigitBytes <- 3, MulDigits <- MaxDigits, pc <- at
Exp == INSTANCE ModExp WITH B <- 16, BN_DIGIT_BITS <- 4, MaxC <- 2, MaxD <- 7, pc <- at

(* Codes of three blocks of Blowfish with bytes of four bits.                *)
Code == INSTANCE ActivationCode WITH
  Q <- 1, Rounds <- 2, ORIG_P <- [k \in 0 .. 3 |-> (k * 7919 + 40503) % 65536],
  ORIG_S <- [box \in 0 .. 3 |-> [k \in 0 .. 15 |-> (box * 31337 + k * k * 2749 + 977) % 65536]],
  MaxKeyBytes <- 4, CRC_POLY_16 <- 140, BlockBytes <- 8, LengthBytes <- 2,
  Devices <- {<<3>>, <<9, 9, 4, 15>>, <<1, 2, 3, 4, 5, 6, 7>>},
  Issues <- {[dwSeq |-> <<1>>, qwIssuedAt |-> <<7, 12>>, dwPeriod |-> <<5>>, dwFlag |-> <<3>>]},
  KeyPairs <- {[id |-> 3, len |-> 8], [id |-> 9, len |-> 8], [id |-> 3, len |-> 7]},
  KEYGEN_CRC_LEN <- 2, KEYGEN_HASH_LEN <- 2, KEYGEN_SIGNATURE_LEN <- 8, PaddingBytes <- 4,
  BreakAt <- {6}, Lost <- {1, 2, 3, 7}, intact <- complete
(* Texts of one device but for a letter, of another, and of lengths that do  *)
(* not make whole blocks.                                                  *)
Licence == INSTANCE License WITH
  DeviceTexts <- {<<>>, <<1, 10, 3, 4, 10, 6, 7, 8>>, <<1, 10, 3, 4, 10, 6, 7, 9>>, <<7, 1, 2, 3, 4>>},
  Letter <- 10, Numbers <- {-1, 5}, NoFile <- -1, Now <- 1700000000, KeyIds <- {1, 2}, SignatureLen <- 8,
  intact <- complete
mulOnly == <<digits, bdigits>>
codeOnly == <<dev_info, issue, sigkey, activate_code, complete, devinfo, rsa_key, found, sequence_txt>>
CodecCase ==
  /\ dev_info \in {[k \in 1 .. len |-> (k * k * 3 + len) % 16] : len \in 1 .. 14}
  /\ devinfo \in {<<5>>, <<1, 15, 7, 2>>, <<8, 0, 3, 3, 1, 9>>}
  /\ issue = 0 /\ sigkey = 0 /\ activate_code = 0 /\ complete = FALSE /\ rsa_key = 0 /\ found = 0 /\ sequence_txt = 0
NotCode ==
  /\ dev_info = 0 /\ issue = 0 /\ sigkey = 0 /\ activate_code = 0 /\ complete = FALSE /\ devinfo = 0
  /\ rsa_key = 0 /\ found = 0 /\ sequence_txt = 0

carryOnly == <<m, carry, place>>
divOnly == <<ddigits, cc, dd, dddigits, shift, ai, tries>>
expOnly == <<bpower, t, ci, ci_bits, j>>
NotCarry == m = 0 /\ carry = 0 /\ place = 0
NotDiv == ddigits = 0 /\ cc = 0 /\ dd = 0 /\ dddigits = 0 /\ shift = 0 /\ ai = 0 /\ tries = 0
NotMul == digits = 0 /\ bdigits = 0
NotExp == bpower = 0 /\ t = 0 /\ ci = 0 /\ ci_bits = 0 /\ j = 0
NotBn ==
  /\ i = 0 /\ a = 0 /\ b = 0 /\ c = 0 /\ NotCarry
  /\ cdigits = 0 /\ d = 0 /\ NotDiv /\ NotMul /\ NotExp
(* No message is on its way.                                               *)
NotRsa ==
  /\ sender = "private" /\ n = 0 /\ msg \in Bytes(0) /\ block = bn_encode(0)
  /\ intact = FALSE /\ result = Error("ERR_WRONG_LEN") /\ pc = "encrypt"
  /\ key = (CHOOSE k \in Keys : TRUE) /\ step = "none" /\ second = FALSE /\ padded = FALSE
  /\ x = 0 /\ cp = 0 /\ cq = 0 /\ mp = 0 /\ mq = 0

CryptoInit ==
  \/ /\ op = "bn_mul" /\ Mul!Init /\ NotCarry /\ NotDiv /\ NotRsa /\ NotCode
     /\ bpower = 0 /\ ci = 0 /\ ci_bits = 0 /\ j = 0 /\ d = 0
  \/ CarryInit /\ NotDiv /\ NotExp /\ NotMul /\ cdigits = 0 /\ d = 0 /\ at = "loop" /\ NotRsa /\ NotCode
  \/ op = "bn_div" /\ Div!Init /\ NotMul /\ NotCarry /\ NotExp /\ NotRsa /\ NotCode
  \/ op = "bn_mod_exp" /\ Exp!Init /\ NotMul /\ NotCarry /\ NotDiv /\ a = 0 /\ NotRsa /\ NotCode
  \/ op = "rsa" /\ NotBn /\ at = "loop" /\ RsaInit /\ NotCode
  \/ op = "code" /\ NotBn /\ NotRsa /\ Code!Init /\ sequence_txt = 0
  \/ op = "licence" /\ NotBn /\ NotRsa /\ Licence!Init
  \/ op = "codec" /\ NotBn /\ at = "loop" /\ NotRsa /\ CodecCase
CryptoNext ==
  \/ op \in Op /\ CarryNext /\ UNCHANGED <<divOnly, expOnly, cdigits, d, at, allvars, mulOnly, codeOnly>>
  \/ op = "bn_div" /\ Div!Next /\ UNCHANGED <<carryOnly, expOnly, op, allvars, mulOnly, codeOnly>>
  \/ op = "bn_mod_exp" /\ Exp!Next /\ UNCHANGED <<carryOnly, divOnly, op, a, allvars, mulOnly, codeOnly>>
  \/ op = "rsa" /\ RsaNext /\ UNCHANGED <<carryvars, divOnly, expOnly, cdigits, d, at, mulOnly, codeOnly>>
  \/ op = "bn_mul" /\ Mul!Next /\ UNCHANGED <<carryOnly, divOnly, op, d, bpower, ci, ci_bits, j, allvars, codeOnly>>
  \/ op = "code" /\ Code!Next /\ UNCHANGED <<carryvars, divOnly, expOnly, cdigits, d, allvars, mulOnly, sequence_txt>>
  \/ op = "licence" /\ Licence!Next /\ UNCHANGED <<carryvars, divOnly, expOnly, cdigits, d, allvars, mulOnly>>
CryptoSpec == CryptoInit /\ [][CryptoNext]_<<carryvars, divOnly, expOnly, cdigits, d, at, allvars, mulOnly, codeOnly>>

-----------------------------------------------------------------------------
(* bn_mul, bn_div, with never more than two corrections of a digit, and       *)
(* bn_mod_exp are exact (see BnMul, BnDiv and ModExp); the codecs undo each other, the digests *)
(* are of the message, and an activation code and a licence tell what was   *)
(* issued (see Codecs, ActivationCode and License).                         *)
ComputesExactly ==
  /\ op = "bn_mul" => Mul!ProductExact /\ Mul!BytesKeepNumber
  /\ op = "bn_div" => Div!FewCorrections /\ Div!DividesExactly
  /\ op = "bn_mod_exp" => Exp!ComputesPower
  /\ op = "code" => Code!CodeTellsIssue
  /\ op = "licence" => Licence!LicenseTellsIssue
  /\ op = "codec" => Code!CodecsSound(dev_info, devinfo)
=============================================================================
