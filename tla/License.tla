------------------------------- MODULE License -------------------------------
(***************************************************************************)
(* Licences (licensing/LicenseLib, crypto_custom.cs): key_generate, behind    *)
(* the button of Keygen, and check_license, behind the one of Validator.     *)
(* Signature, cipher and Base64 are other libraries', here what the code     *)
(* relies on them for; sequence.txt outlives the program.                    *)
(***************************************************************************)
EXTENDS Integers, Sequences, SequencesExt, Bitwise

CONSTANTS
  DeviceTexts,   \* what may stand in the windows: sequences of digits and Letter
  Letter,        \* a character that is no digit
  Numbers,       \* contents of sequence.txt before, NoFile for none
  NoFile,
  Now,           \* seconds since 1970
  KeyIds,        \* pairs of keys
  SignatureLen   \* 256

VARIABLES
  at, sequence_txt,
  dev_info, issue, sigkey,      \* what key_generate is called with, and puts in
  activate_code, intact,        \* the text, and whether the copy is complete
  devinfo, rsa_key,             \* arguments of check_license
  found                         \* its result and its static fields
licvars == <<at, sequence_txt, dev_info, issue, sigkey, activate_code, intact, devinfo, rsa_key, found>>

(* Every character that is no digit is -1, which becomes one byte.          *)
GetByteFromString(text) == [k \in 1 .. Len(text) |-> IF text[k] = Letter THEN 255 ELSE text[k]]
crc_bit(crc) == IF crc >= 32768 THEN ((crc * 2) % 65536) ^^ 32773 ELSE crc * 2
CalcCRC(data) ==
  FoldLeft(LAMBDA crc, b : FoldLeft(LAMBDA c, j : crc_bit(c), crc ^^ (b * 256), <<1, 2, 3, 4, 5, 6, 7, 8>>), 0, data)
HighFirst(n, len) == [k \in 1 .. len |-> IF len - k > 3 THEN 0 ELSE (n \div 256 ^ (len - k)) % 256]
Number(bytes) == FoldLeft(LAMBDA n, b : n * 256 + b, 0, bytes)
CalcCRC16(data) == HighFirst(CalcCRC(data), 2)

(* A signature is of the bytes and the key; another key makes other bytes of *)
(* a block; what is not a whole block is filled up, or refused.             *)
RSA2048Signature(data, id) ==
  [k \in 1 .. SignatureLen |-> FoldLeft(LAMBDA h, b : (h * 7 + b + k) % 256, id + k, data)]
Scrambled(data) == [k \in 1 .. Len(data) |-> (data[k] + 1) % 256]
FilledUp(data) == data \o [k \in 1 .. (8 - (Len(data) % 8)) % 8 |-> 0]
BlowfishEncrypt(data, dev_bt) == [key |-> dev_bt, data |-> FilledUp(data)]
BlowfishDecrypt(text, dev_bt) == IF text.key = dev_bt THEN text.data ELSE Scrambled(text.data)

-----------------------------------------------------------------------------
dwPeriod == 30 * 24 * 3600
dwFlag == 3
NextSequence(file) == IF file = NoFile THEN 0 ELSE file + 1
(* Mutant of the next: the last two fields are put in the other way around.  *)
FieldsSwapped(is) ==
  HighFirst(is.sequence, 4) \o HighFirst(is.issuedAt, 8) \o HighFirst(is.flag, 4) \o HighFirst(is.period, 4)
Fields(is) ==
  HighFirst(is.sequence, 4) \o HighFirst(is.issuedAt, 8) \o HighFirst(is.period, 4) \o HighFirst(is.flag, 4)
WholeWords(data) == data \o [k \in 1 .. (4 - (Len(data) % 4)) % 4 |-> 0]
Body(dev_bt, is) == WholeWords(dev_bt \o CalcCRC16(dev_bt) \o Fields(is))
Signed(body, id) == body \o RSA2048Signature(body, id)

Init ==
  /\ at = "called" /\ dev_info \in DeviceTexts /\ sigkey \in KeyIds /\ sequence_txt \in Numbers
  /\ issue = "none" /\ activate_code = "none" /\ intact = TRUE /\ devinfo = dev_info /\ rsa_key = sigkey
  /\ found = [ok |-> FALSE]

(* Errors of reading the file and of writing it are ignored: the number is   *)
(* then 0, or is given again.                                               *)
key_generate ==
  /\ at = "called" /\ at' = "issued"
  /\ \E read \in {sequence_txt, NoFile} :
       issue' = [sequence |-> NextSequence(read), issuedAt |-> Now, period |-> dwPeriod, flag |-> dwFlag]
  /\ sequence_txt' \in {sequence_txt, issue'.sequence}
  /\ \E dev_bt \in {GetByteFromString(dev_info)} : \E body \in {Body(dev_bt, issue')} :
       activate_code' = BlowfishEncrypt(Signed(body, sigkey), dev_bt)
  /\ UNCHANGED <<dev_info, sigkey, intact, devinfo, rsa_key, found>>

(* The text goes to another window, whole or cut off, to be checked there.   *)
Copied ==
  /\ at = "issued" /\ at' = "copied"
  /\ \/ UNCHANGED <<activate_code, intact>>
     \/ \E n \in {1, 8, Len(activate_code.data)} :
          activate_code' = [activate_code EXCEPT !.data = SubSeq(@, 1, Len(@) - n)] /\ intact' = FALSE
  /\ devinfo' \in DeviceTexts /\ rsa_key' \in KeyIds
  /\ UNCHANGED <<sequence_txt, dev_info, issue, sigkey, found>>

-----------------------------------------------------------------------------
Invalid == [ok |-> FALSE]
(* Places count from the length of the device text there.                   *)
From(body, pos, len) == SubSeq(body, pos + 1, pos + len)
Told(body, crc16_pos) ==
  [ok |-> TRUE, sequence |-> Number(From(body, crc16_pos + 2, 4)), issuedAt |-> Number(From(body, crc16_pos + 6, 8)),
   period |-> Number(From(body, crc16_pos + 14, 4)), flag |-> Number(From(body, crc16_pos + 18, 4))]
Checked(body, crc16_pos) ==
  IF crc16_pos > 0 /\ From(body, crc16_pos, 2) = CalcCRC16(From(body, 0, crc16_pos)) THEN Told(body, crc16_pos) ELSE Invalid
Verified(body, signature, id, crc16_pos) ==
  IF signature = RSA2048Signature(body, id) THEN Checked(body, crc16_pos) ELSE Invalid
(* Blocks that are not whole, and a text with no signature, raise an         *)
(* exception, which is caught.                                              *)
Split(data, id, crc16_pos) ==
  Verified(SubSeq(data, 1, Len(data) - SignatureLen), SubSeq(data, Len(data) - SignatureLen + 1, Len(data)), id, crc16_pos)
Readable(text) == Len(text.data) % 8 = 0 /\ Len(text.data) >= SignatureLen

check_license ==
  /\ at = "copied" /\ at' = "checked"
  /\ \E data \in {BlowfishDecrypt(activate_code, GetByteFromString(devinfo))} :
       found' = IF Readable(activate_code) THEN Split(data, rsa_key, Len(devinfo)) ELSE Invalid
  /\ UNCHANGED <<sequence_txt, dev_info, issue, sigkey, activate_code, intact, devinfo, rsa_key>>

Next == key_generate \/ Copied \/ check_license

-----------------------------------------------------------------------------
(* A licence is accepted exactly where the text of the device has the same    *)
(* digits at the same places, with the key it was signed for and complete,    *)
(* and its words made whole blocks; and then it tells the four fields that    *)
(* were put in (key_generate, check_license).                               *)
LicenseTellsIssue ==
  at = "checked" =>
    /\ found.ok <=>
         /\ intact /\ rsa_key = sigkey /\ GetByteFromString(devinfo) = GetByteFromString(dev_info)
         /\ dev_info # <<>> /\ Len(Body(GetByteFromString(dev_info), issue)) % 8 = 0
    /\ found.ok => \A f \in DOMAIN issue : found[f] = issue[f]
=============================================================================
