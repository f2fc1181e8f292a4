--------------------------- MODULE ActivationCode ---------------------------
(***************************************************************************)
(* Activation codes (crypto_lib, keygen.c).  crypto_keygen puts the fields   *)
(* behind the device information, signs all that, encrypts it with the       *)
(* device information as key and writes it in Base64; somebody copies the    *)
(* text; activation_checkout takes it apart from its end.  What SHA-256's    *)
(* rounds and the RSA block operation make of their bytes are stand-ins.    *)
(***************************************************************************)
EXTENDS Codecs

CONSTANTS
  Devices,               \* device informations, none empty
  Issues,                \* issued fields, as bytes: dwSeq, qwIssuedAt, dwPeriod, dwFlag
  KeyPairs,              \* pairs of keys: len bytes are a block of the one named id
  KEYGEN_CRC_LEN,        \* 2
  KEYGEN_HASH_LEN,       \* 32
  KEYGEN_SIGNATURE_LEN,  \* 256
  PaddingBytes,          \* of a signature that are not the hash, at least: 11
  BreakAt,               \* bound: where a line may be broken
  Lost                   \* bound: how many characters a copy lacks, of less than a block of Blowfish

VARIABLES
  at,                               \* what happened last
  dev_info, issue, sigkey,          \* arguments of crypto_keygen
  activate_code,                    \* the text
  intact,                           \* history: the copy is complete
  devinfo, rsa_key,                 \* arguments of activation_checkout
  found                             \* its result, with the fields
codevars == <<at, dev_info, issue, sigkey, activate_code, intact, devinfo, rsa_key, found>>

(* Stand-ins.  A block goes back to what it was with the key it was made     *)
(* with only (see Rsa).                                                     *)
SHA256_hash(in) ==
  [k \in 1 .. KEYGEN_HASH_LEN |->
     FoldLeft(LAMBDA h, b : (h * 5 + b + k) % Bytes256, k, FlattenSeq(sha256_blocks(in)))]
BlockOperation(in, by) == [k \in 1 .. Len(in) |-> (in[k] + by) % Bytes256]

LastByte == Bytes256 - 1
Padded(in, len) == <<0, 1>> \o [k \in 1 .. len - Len(in) - 3 |-> LastByte] \o <<0>> \o in
Fails == [ok |-> FALSE, out |-> <<>>]
Gives(out) == [ok |-> TRUE, out |-> out]
rsa2048_encrypt(in, key) ==
  IF Len(in) + PaddingBytes > key.len THEN Fails ELSE Gives(BlockOperation(Padded(in, key.len), key.id))
(* The last byte is not looked at.                                         *)
FillEnd(block) ==
  CHOOSE k \in 3 .. Len(block) :
    (k = Len(block) \/ block[k] # LastByte) /\ \A j \in 3 .. k - 1 : block[j] = LastByte
UpToEnd(block, end) ==
  IF block[1] = 0 /\ block[2] = 1 /\ block[end] = 0 /\ end >= PaddingBytes
  THEN Gives(SubSeq(block, end + 1, Len(block))) ELSE Fails
Unpadded(block) == UpToEnd(block, FillEnd(block))
rsa2048_decrypt(in, key) ==
  IF Len(in) > key.len THEN Fails ELSE Unpadded(BlockOperation(in, Bytes256 - key.id))

-----------------------------------------------------------------------------
(* Low byte first.                                                         *)
CRC16(in) == [k \in 1 .. KEYGEN_CRC_LEN |-> (crc_16(in) \div Bytes256 ^ (k - 1)) % Bytes256]
Fields(is) == is.dwSeq \o is.qwIssuedAt \o is.dwPeriod \o is.dwFlag
LenOf(f) == Len((CHOOSE is \in Issues : TRUE)[f])
FieldsLen == LenOf("dwSeq") + LenOf("qwIssuedAt") + LenOf("dwPeriod") + LenOf("dwFlag")

(* Mutant of the next: the container is filled up at its end.              *)
padded_behind(info, is, valid_len) ==
  info \o CRC16(info) \o Fields(is) \o Zeroes(UpTo(valid_len, 8) - valid_len)
(* The container without the signature: the information is filled up, so     *)
(* that the whole is one of Blowfish's blocks.                              *)
with_crc(info) == info \o CRC16(info)
container(info, is, valid_len) == with_crc(info \o Zeroes(UpTo(valid_len, 8) - valid_len)) \o Fields(is)
Signed(data, signature) ==
  IF signature.ok /\ Len(signature.out) = KEYGEN_SIGNATURE_LEN THEN Gives(data \o signature.out) ELSE Fails
base_data(info, is, key, data) == Signed(data, rsa2048_encrypt(SHA256_hash(data), key))
Text(data, info) == IF data.ok THEN base64_encode(bf_encode(data.out, blowfish_initiate(info))) ELSE <<>>

Init ==
  /\ at = "called" /\ dev_info \in Devices /\ issue \in Issues /\ sigkey \in KeyPairs
  /\ activate_code = <<>> /\ intact = TRUE /\ devinfo = dev_info /\ rsa_key = sigkey /\ found = Fails

crypto_keygen ==
  /\ at = "called"
  /\ activate_code' =
       Text(base_data(dev_info, issue, sigkey,
              container(dev_info, issue, Len(dev_info) + KEYGEN_CRC_LEN + FieldsLen + KEYGEN_SIGNATURE_LEN)),
            dev_info)
  /\ at' = IF activate_code' = <<>> THEN "refused" ELSE "issued"
  /\ UNCHANGED <<dev_info, issue, sigkey, intact, devinfo, rsa_key, found>>

(* The text is copied, broken into lines, or in part; and checked, there or   *)
(* elsewhere, by a program with this key or another.                        *)
Copied ==
  /\ at = "issued" /\ at' = "copied"
  /\ \/ activate_code' = activate_code /\ UNCHANGED intact
     \/ \E k \in BreakAt : activate_code' = InsertAt(activate_code, k, Skipped) /\ UNCHANGED intact
     \/ \E n \in Lost :
          /\ activate_code' = SubSeq(activate_code, 1, Len(activate_code) - n)
          /\ intact' = (base64_decode(activate_code') = base64_decode(activate_code))
  /\ devinfo' \in Devices /\ rsa_key' \in KeyPairs
  /\ UNCHANGED <<dev_info, issue, sigkey, found>>

-----------------------------------------------------------------------------
(* n bytes that end before the last m of the signed part.                  *)
FromEnd(info, m, n) == SubSeq(info, Len(info) - m - n + 1, Len(info) - m)
Taken(info) ==
  [dwFlag |-> FromEnd(info, 0, LenOf("dwFlag")),
   dwPeriod |-> FromEnd(info, LenOf("dwFlag"), LenOf("dwPeriod")),
   qwIssuedAt |-> FromEnd(info, LenOf("dwFlag") + LenOf("dwPeriod"), LenOf("qwIssuedAt")),
   dwSeq |-> FromEnd(info, FieldsLen - LenOf("dwSeq"), LenOf("dwSeq"))]
CrcFits(info, rest) == FromEnd(info, FieldsLen, KEYGEN_CRC_LEN) = CRC16(rest)
Checked(info) ==
  IF CrcFits(info, SubSeq(info, 1, Len(info) - FieldsLen - KEYGEN_CRC_LEN)) THEN Gives(Taken(info)) ELSE Fails
(* memcmp's length is a comparison: one byte of the hash is looked at, and   *)
(* the buffer it is looked at in is cleared before.                         *)
HashFits(info, decbuf) == SHA256_hash(info)[1] = At(decbuf, 1)
Verified(info, signature) ==
  IF signature.ok /\ HashFits(info, signature.out) THEN Checked(info) ELSE Fails
Split(info, key) ==
  Verified(SubSeq(info, 1, Len(info) - KEYGEN_SIGNATURE_LEN), rsa2048_decrypt(FromEnd(info, 0, KEYGEN_SIGNATURE_LEN), key))
Opened(info, dev, key) ==
  IF Len(info) % 8 # 0 \/ Len(info) < KEYGEN_CRC_LEN + KEYGEN_SIGNATURE_LEN THEN Fails
  ELSE Split(bf_decode(info, blowfish_initiate(dev)), key)

activation_checkout ==
  /\ at = "copied" /\ at' = "checked"
  /\ found' = Opened(base64_decode(activate_code), devinfo, rsa_key)
  /\ UNCHANGED <<dev_info, issue, sigkey, activate_code, intact, devinfo, rsa_key>>

Next == crypto_keygen \/ Copied \/ activation_checkout

-----------------------------------------------------------------------------
(* With a key whose blocks are signatures, and no other, every device          *)
(* information gets a code, which leaves room for its end in the buffer of    *)
(* twice the length; and on its device, with its key, a complete copy of it   *)
(* gives what was issued, and one that lost characters nothing                *)
(* (crypto_keygen, activation_checkout).                                     *)
CodeTellsIssue ==
  /\ at = "refused" <=> at # "called" /\ sigkey.len # KEYGEN_SIGNATURE_LEN
  /\ at = "issued" => Len(activate_code) < 2 * Len(base64_decode(activate_code))
  /\ at = "checked" /\ devinfo = dev_info /\ rsa_key = sigkey =>
       found = IF intact THEN Gives(issue) ELSE Fails
=============================================================================
