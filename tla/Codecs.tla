------------------------------- MODULE Codecs -------------------------------
(***************************************************************************)
(* The codecs and digests of crypto_lib: Base64 (base64.c), Blowfish over   *)
(* buffers (blowfish.c, bf_encode and bf_decode of crypto.c), the checksum  *)
(* (crc16.c) and the blocks SHA-256 digests (sha256.c).  A byte has four    *)
(* times Q bits, Q being 2 in the code, a character of Base64 three times,  *)
(* so that a block of three bytes is four characters here too; a word has   *)
(* four bytes, the checksum two.  The tables are constants.                 *)
(***************************************************************************)
EXTENDS Integers, Sequences, SequencesExt, Bitwise

CONSTANTS
  Q,              \* 2 in the code
  Rounds,         \* 16
  ORIG_P, ORIG_S, \* words, [0 .. Rounds + 1] and [0 .. 3][Byte]
  MaxKeyBytes,    \* keys are cut at 57
  CRC_POLY_16,
  BlockBytes,     \* of SHA-256: 64
  LengthBytes     \* of the count at the end: 8

ByteBits == 4 * Q
Bytes256 == 2 ^ ByteBits
Word == 2 ^ (4 * ByteBits)
UpTo(n, step) == ((n + step - 1) \div step) * step
Zeroes(n) == [k \in 1 .. n |-> 0]
At(in, k) == IF k <= Len(in) THEN in[k] ELSE 0

-----------------------------------------------------------------------------
(* Base64.  '=' and every character that is no digit are one.              *)
Skipped == -1

encodeblock(a, b, c, len) ==
  << a \div 2^Q,
     ((a % 2^Q) * 2^(2*Q)) + b \div 2^(2*Q),
     IF len > 1 THEN ((b % 2^(2*Q)) * 2^Q) + c \div 2^(3*Q) ELSE Skipped,
     IF len > 2 THEN c % 2^(3*Q) ELSE Skipped >>
base64_encode(in) ==
  FlattenSeq([g \in 1 .. UpTo(Len(in), 3) \div 3 |->
    encodeblock(in[3*g - 2], At(in, 3*g - 1), At(in, 3*g), Len(in) - 3 * (g - 1))])

decodeblock(a, b, c, d) ==
  << a * 2^Q + b \div 2^(2*Q),
     ((b * 2^(2*Q)) % Bytes256) + c \div 2^Q,
     (c % 2^Q) * 2^(3*Q) + d >>
(* Mutant of the next: a last block is a whole one.                        *)
kept_all(in, g) == 3
(* blklen - 1 bytes of a block that the text ends in.                      *)
kept(in, g) == IF 4 * g <= Len(in) THEN 3 ELSE Len(in) - 4 * (g - 1) - 1
base64_digits(in) ==
  FlattenSeq([g \in 1 .. UpTo(Len(in), 4) \div 4 |->
    SubSeq(decodeblock(in[4*g - 3], At(in, 4*g - 2), At(in, 4*g - 1), At(in, 4*g)), 1, kept(in, g))])
base64_decode(in) == base64_digits(SelectSeq(in, LAMBDA ch : ch # Skipped))

-----------------------------------------------------------------------------
(* Blowfish.  A block is its words, a context the two tables.              *)
BLOWFISH_F(ctx, x) ==
  ((((ctx.sbox[0][x \div Bytes256^3] + ctx.sbox[1][(x \div Bytes256^2) % Bytes256]) % Word)
      ^^ ctx.sbox[2][(x \div Bytes256) % Bytes256])
    + ctx.sbox[3][x % Bytes256]) % Word

Pair(hi, lo) == [hi |-> hi, lo |-> lo]
Swap(pair) == Pair(pair.lo, pair.hi)
Halved(ctx, hi, lo) == Pair(lo ^^ BLOWFISH_F(ctx, hi), hi)
Round(ctx, pair, i) == Halved(ctx, pair.hi ^^ ctx.pbox[i], pair.lo)
Whitened(pair, p, q) == Pair(pair.hi ^^ q, pair.lo ^^ p)
blowfish_encryptblock(ctx, pair) ==
  Whitened(Swap(FoldLeft(LAMBDA w, i : Round(ctx, w, i), pair, [k \in 1 .. Rounds |-> k - 1])),
           ctx.pbox[Rounds], ctx.pbox[Rounds + 1])
blowfish_decryptblock(ctx, pair) ==
  Whitened(Swap(FoldLeft(LAMBDA w, i : Round(ctx, w, i), pair, [k \in 1 .. Rounds |-> Rounds + 2 - k])),
           ctx.pbox[1], ctx.pbox[0])

(* The word of key bytes, around and around, that goes into entry i.       *)
KeyWord(key, i) == FoldLeft(LAMBDA calc, k : calc * Bytes256 + key[((4*i + k) % Len(key)) + 1], 0, <<0, 1, 2, 3>>)
Keyed(key, i) == IF key = <<>> THEN ORIG_P[i] ELSE ORIG_P[i] ^^ KeyWord(key, i)
Expand(st, next, i) == [ctx |-> [st.ctx EXCEPT !.pbox[i] = next.hi, !.pbox[i + 1] = next.lo], pair |-> next]
ExpandBox(st, next, b, j) == [ctx |-> [st.ctx EXCEPT !.sbox[b][j] = next.hi, !.sbox[b][j + 1] = next.lo], pair |-> next]
blowfish_schedule(key) ==
  FoldLeft(LAMBDA st, n : ExpandBox(st, blowfish_encryptblock(st.ctx, st.pair), n \div Bytes256, n % Bytes256),
    FoldLeft(LAMBDA st, i : Expand(st, blowfish_encryptblock(st.ctx, st.pair), i),
      [ctx |-> [pbox |-> [i \in 0 .. Rounds + 1 |-> Keyed(key, i)], sbox |-> ORIG_S], pair |-> Pair(0, 0)],
      [k \in 1 .. (Rounds + 2) \div 2 |-> 2 * (k - 1)]),
    [k \in 1 .. 2 * Bytes256 |-> 2 * (k - 1)]).ctx
(* The first keybytes % 57 bytes of the key.                               *)
blowfish_initiate(key) == blowfish_schedule(SubSeq(key, 1, Len(key) % MaxKeyBytes))

(* A buffer's words have their low byte first.                             *)
WordAt(in, pos) == At(in, pos + 1) + At(in, pos + 2) * Bytes256 + At(in, pos + 3) * Bytes256^2 + At(in, pos + 4) * Bytes256^3
BytesOf(w) == << w % Bytes256, (w \div Bytes256) % Bytes256, (w \div Bytes256^2) % Bytes256, w \div Bytes256^3 >>
Stored(pair) == BytesOf(pair.hi) \o BytesOf(pair.lo)
bf_encode(in, ctx) ==
  FlattenSeq([k \in 1 .. UpTo(Len(in), 8) \div 8 |->
    Stored(blowfish_encryptblock(ctx, Pair(WordAt(in, 8*k - 8), WordAt(in, 8*k - 4))))])
bf_decode(in, ctx) ==
  SubSeq(FlattenSeq([k \in 1 .. UpTo(Len(in), 8) \div 8 |->
    Stored(blowfish_decryptblock(ctx, Pair(WordAt(in, 8*k - 8), WordAt(in, 8*k - 4))))]), 1, Len(in))

-----------------------------------------------------------------------------
(* The checksum.                                                           *)
crc_bit(st) ==
  [crc |-> IF (st.crc + st.c) % 2 = 1 THEN (st.crc \div 2) ^^ CRC_POLY_16 ELSE st.crc \div 2,
   c |-> st.c \div 2]
crc_tab16(i) == FoldLeft(LAMBDA st, j : crc_bit(st), [crc |-> 0, c |-> i], [j \in 1 .. ByteBits |-> j]).crc
update_crc_16(crc, c) == (crc \div Bytes256) ^^ crc_tab16((crc % Bytes256) ^^ c)
crc_16(in) == FoldLeft(update_crc_16, 0, in)

-----------------------------------------------------------------------------
(* SHA-256, without sha256_transform: the blocks it is given, and the       *)
(* buffer, whose bytes stay when it is emptied.                            *)
NewDigest == [data |-> Zeroes(BlockBytes), datalen |-> 0, bitlen |-> 0, blocks |-> <<>>]
Whole(ctx) == [ctx EXCEPT !.blocks = Append(@, ctx.data), !.bitlen = @ + 8 * BlockBytes, !.datalen = 0]
AddByte(ctx) == IF ctx.datalen = BlockBytes THEN Whole(ctx) ELSE ctx
sha256_update(ctx, b) == AddByte([ctx EXCEPT !.data[ctx.datalen + 1] = b, !.datalen = @ + 1])
(* The bytes from datalen on, up to place n.                               *)
Terminated(ctx, n) ==
  [k \in 1 .. BlockBytes |->
     IF k = ctx.datalen + 1 THEN Bytes256 \div 2
     ELSE IF k > ctx.datalen /\ k <= n THEN 0 ELSE ctx.data[k]]
CountAt(n) == [k \in 1 .. LengthBytes |-> (n \div Bytes256 ^ (LengthBytes - k)) % Bytes256]
Counted(data, n) == SubSeq(data, 1, BlockBytes - LengthBytes) \o CountAt(n)
sha256_final(ctx) ==
  IF ctx.datalen < BlockBytes - LengthBytes
  THEN Append(ctx.blocks, Counted(Terminated(ctx, BlockBytes - LengthBytes), ctx.bitlen + 8 * ctx.datalen))
  ELSE ctx.blocks \o << Terminated(ctx, BlockBytes), Counted(Zeroes(BlockBytes), ctx.bitlen + 8 * ctx.datalen) >>
sha256_blocks(in) == sha256_final(FoldLeft(sha256_update, NewDigest, in))

-----------------------------------------------------------------------------
(* What is written in Base64 is read back, whatever is put between its      *)
(* characters (base64_encode, base64_decode).                               *)
Base64ReadsBack(in, noise) ==
  \A i \in 0 .. Len(base64_encode(in)) : base64_decode(InsertAt(base64_encode(in), i + 1, noise)) = in
(* Decryption undoes encryption, for any key; a buffer grows to whole       *)
(* blocks, of zeroes (bf_encode, bf_decode).                                *)
ReadBackWith(in, ctx) == bf_decode(bf_encode(in, ctx), ctx) = in \o Zeroes(UpTo(Len(in), 8) - Len(in))
BlowfishReadsBack(in, key) == ReadBackWith(in, blowfish_initiate(key))
(* A byte that changes changes the checksum (crc_16).                       *)
ChecksumTells(in) ==
  \A k \in 1 .. Len(in), b \in 0 .. Bytes256 - 1 :
    b # in[k] => crc_16([in EXCEPT ![k] = b]) # crc_16(in)
(* What is digested is the message, one bit, the fewest zeroes that fill a  *)
(* block, and the number of its bits: nothing the buffer held before        *)
(* (sha256_update_2, sha256_final_2).                                       *)
DigestsMessage(in) ==
  FlattenSeq(sha256_blocks(in)) =
    in \o <<Bytes256 \div 2>>
       \o Zeroes(UpTo(Len(in) + 1 + LengthBytes, BlockBytes) - Len(in) - 1 - LengthBytes) \o CountAt(8 * Len(in))
CodecsSound(in, key) ==
  /\ Base64ReadsBack(in, Skipped) /\ BlowfishReadsBack(in, key)
  /\ ChecksumTells(in) /\ DigestsMessage(in)
=============================================================================
