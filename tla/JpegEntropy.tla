---------------------------- MODULE JpegEntropy -----------------------------
(***************************************************************************)
(* The entropy coding of one image, a scan after the other: the encoders of  *)
(* jchuff.c and jcphuff.c pass over it twice, to count symbols and to write, *)
(* the decoders of jdhuff.c and jdphuff.c read what was written while the    *)
(* application supplies it in pieces of any size.  A byte has W bits, a      *)
(* symbol is run * Radix + size; the rest is as in the code.                 *)
(***************************************************************************)
EXTENDS Integers, Sequences, FiniteSets, SequencesExt

CONSTANTS
  W,                \* bits of a byte, 8
  LastCoef,         \* DCTSIZE2 - 1
  Radix,            \* 16: sizes are below it
  MaxRun,           \* 15: the longest run of a symbol
  MAX_COEF_BITS,
  MAX_CORR_BITS,
  MIN_GET_BITS, HUFF_LOOKAHEAD,
  MaxLength, MAX_CLEN,
  Images,           \* bound: per component a sequence of blocks
  Scripts,          \* bound: sequences of scans
  Intervals,        \* bound: restart_interval, in MCUs
  Pieces            \* bound: bytes supplied at once

Huffman == INSTANCE JpegHuffman WITH LastSymbol <- (MaxRun + 1) * Radix - 1

FF == 2 ^ W - 1
Restarts == FF - 3                     \* RSTn is marker 1 + n: n counts modulo this
EOI == FF - 1
ZRL == MaxRun * Radix
Kind == {"dc", "ac"}

VARIABLES
  image, script, restart_interval,
  scan,             \* number of the scan
  pass,             \* "gather", "output" or "read"
  enc,              \* huff_entropy_encoder, phuff_entropy_encoder and what is written
  avail,            \* bytes of the scan the application has supplied
  dec,              \* huff_entropy_decoder, phuff_entropy_decoder, the source
  coef,             \* the coefficients read so far
  warned            \* corrupt data was reported
vars == <<image, script, restart_interval, scan, pass, enc, avail, dec, coef, warned>>

Component == DOMAIN image
Now == script[scan]
Progressive == Len(script) > 1
MCUs == Len(image[Now.comps[1]])
Sign(x) == IF x < 0 THEN -1 ELSE 1
NBits(n) == Min({b \in 0 .. n : n < 2 ^ b})
BitsOf(n, size) == Huffman!BitsOf(n, size)

-----------------------------------------------------------------------------
(* The encoder puts bits together to bytes; after a byte of all ones there is  *)
(* one of zeroes.  While symbols are counted nothing is written.               *)
Stuffed(byte) == IF byte = FF THEN <<FF, 0>> ELSE <<byte>>
emit_bits(e, bits) ==
  LET all == e.put_buffer \o bits
      n == Len(all) \div W
      byte(i) == Huffman!ValueOf(SubSeq(all, (i - 1) * W + 1, i * W))
  IN IF bits = <<>> THEN [e EXCEPT !.error = "HUFF_MISSING_CODE"]
     ELSE IF e.gather THEN e
     ELSE [e EXCEPT !.out = @ \o FlattenSeq([i \in 1 .. n |-> Stuffed(byte(i))]),
                    !.put_buffer = SubSeq(all, n * W + 1, Len(all))]
flush_bits(e) ==
  IF e.gather THEN e
  ELSE [emit_bits(e, BitsOf(FF \div 2, W - 1)) EXCEPT !.put_buffer = <<>>]
emit_symbol(e, kind, symbol) ==
  IF e.gather THEN [e EXCEPT !.count[kind][symbol] = @ + 1]
  ELSE emit_bits(e, IF symbol \in DOMAIN e.code[kind] THEN e.code[kind][symbol] ELSE <<>>)
(* A number: its sign and low bits, one less for a negative one.               *)
emit_value(e, v, nbits) ==
  IF nbits = 0 THEN e ELSE emit_bits(e, BitsOf(IF v < 0 THEN v - 1 ELSE v, nbits))
emit_zeroes(e, r) ==
  FoldLeft(LAMBDA f, k : emit_symbol(f, "ac", ZRL), e, [k \in 1 .. r \div (MaxRun + 1) |-> k])
emit_buffered_bits(e, bits) == FoldLeft(LAMBDA f, b : emit_bits(f, <<b>>), e, bits)

(* A run of ends of blocks, with the correction bits of those blocks.          *)
emit_eobrun(e) ==
  LET nbits == NBits(e.EOBRUN) - 1
      run == emit_symbol(e, "ac", nbits * Radix)
      counted == IF nbits = 0 THEN run ELSE emit_bits(run, BitsOf(e.EOBRUN, nbits))
  IN IF e.EOBRUN = 0 THEN e
     ELSE IF nbits >= MaxRun THEN [e EXCEPT !.error = "HUFF_MISSING_CODE"]
     ELSE [emit_buffered_bits(counted, e.BE) EXCEPT !.EOBRUN = 0, !.BE = <<>>]

emit_restart(e) ==
  LET f == flush_bits(emit_eobrun(e))
  IN [f EXCEPT !.out = IF e.gather THEN @ ELSE @ \o <<FF, 1 + e.next_restart_num>>,
               !.last_dc_val = [c \in Component |-> 0], !.EOBRUN = 0, !.BE = <<>>]

-----------------------------------------------------------------------------
(* A DC coefficient is sent as its difference to the one before.               *)
emit_dc(e, c, value) ==
  LET d == value - e.last_dc_val[c]
      nbits == NBits(d * Sign(d))
      f == emit_value(emit_symbol(e, "dc", nbits), d, nbits)
  IN IF nbits > MAX_COEF_BITS + 1 THEN [e EXCEPT !.error = "BAD_DCT_COEF"]
     ELSE [f EXCEPT !.last_dc_val[c] = value]

(* An AC coefficient, with the zeroes before it; t is the encoder and the run. *)
shifted(v) == Sign(v) * ((v * Sign(v)) \div 2 ^ Now.Al)
emit_ac(t, v) ==
  LET nbits == NBits(v * Sign(v))
      e == emit_zeroes(emit_eobrun(t.e), t.r)
      symbol == (t.r % (MaxRun + 1)) * Radix + nbits
  IN IF v = 0 THEN [t EXCEPT !.r = @ + 1]
     ELSE IF nbits > MAX_COEF_BITS THEN [t EXCEPT !.e.error = "BAD_DCT_COEF"]
     ELSE [e |-> emit_value(emit_symbol(e, "ac", symbol), v, nbits), r |-> 0]
Band == [i \in 1 .. Now.Se - Now.Ss + 1 |-> Now.Ss + i - 1]
emit_band(e, block, from) ==
  FoldLeft(LAMBDA t, k : IF k < from THEN t ELSE emit_ac(t, shifted(block[k])), [e |-> e, r |-> 0], Band)

encode_one_block(e, c, block) ==
  LET End(t) == IF t.r > 0 THEN emit_symbol(t.e, "ac", 0) ELSE t.e
  IN End(emit_band(emit_dc(e, c, block[0]), block, 1))
encode_AC_first(e, block) ==
  LET Held(f) == IF f.EOBRUN = 2 ^ MaxRun - 1 THEN emit_eobrun(f) ELSE f
      End(t) == IF t.r = 0 THEN t.e ELSE Held([t.e EXCEPT !.EOBRUN = @ + 1])
  IN End(emit_band(e, block, Now.Ss))

(* A refinement sends the new coefficients, and a bit for each old one after   *)
(* the symbol in whose run it lies; what is after the last new one waits.      *)
zero_runs(t) ==
  LET first == emit_buffered_bits(emit_symbol(emit_eobrun(t.e), "ac", ZRL), t.BR)
  IN [e |-> emit_zeroes(first, t.r - MaxRun - 1), r |-> t.r % (MaxRun + 1), BR |-> <<>>]
new_coef(u, bit) ==
  LET symbol == emit_symbol(emit_eobrun(u.e), "ac", u.r * Radix + 1)
  IN [e |-> emit_buffered_bits(emit_bits(symbol, <<bit>>), u.BR), r |-> 0, BR |-> <<>>]
refine_one(t, block, EOB, k) ==
  LET absvalue == (block[k] * Sign(block[k])) \div 2 ^ Now.Al
      Send(u) == IF absvalue > 1 THEN [u EXCEPT !.BR = Append(@, absvalue % 2)]
                 ELSE new_coef(u, IF block[k] < 0 THEN 0 ELSE 1)
  IN IF absvalue = 0 THEN [t EXCEPT !.r = @ + 1]
     ELSE Send(IF t.r > MaxRun /\ k <= EOB THEN zero_runs(t) ELSE t)
(* The rest of the block waits, until there are too many blocks or bits.       *)
hold(f) ==
  LET full == f.EOBRUN = 2 ^ MaxRun - 1 \/ Len(f.BE) > MAX_CORR_BITS - LastCoef
  IN IF full THEN emit_eobrun(f) ELSE f
encode_AC_refine(e, block) ==
  LET EOB == Max({0} \cup {k \in Now.Ss .. Now.Se : (block[k] * Sign(block[k])) \div 2 ^ Now.Al = 1})
      End(t) == IF t.r = 0 /\ t.BR = <<>> THEN t.e
                ELSE hold([t.e EXCEPT !.EOBRUN = @ + 1, !.BE = @ \o t.BR])
  IN End(FoldLeft(LAMBDA u, k : refine_one(u, block, EOB, k), [e |-> e, r |-> 0, BR |-> <<>>], Band))

(* encode_mcu_huff, encode_mcu_gather, encode_mcu_DC_first and its siblings.   *)
encode_block(e, c) ==
  LET block == image[c][e.mcu]
  IN IF ~Progressive THEN encode_one_block(e, c, block)
     ELSE IF Now.Ss = 0 /\ Now.Ah = 0 THEN emit_dc(e, c, block[0] \div 2 ^ Now.Al)
     ELSE IF Now.Ss = 0 THEN emit_bits(e, BitsOf(block[0] \div 2 ^ Now.Al, 1))
     ELSE IF Now.Ah = 0 THEN encode_AC_first(e, block) ELSE encode_AC_refine(e, block)
encode_mcu(e) ==
  LET due == restart_interval > 0 /\ e.restarts_to_go = 0
      started == IF due THEN emit_restart(e) ELSE e
      coded == FoldLeft(LAMBDA f, c : encode_block(f, c), started, Now.comps)
  IN [coded EXCEPT
        !.mcu = @ + 1,
        !.restarts_to_go = IF restart_interval = 0 THEN @
                           ELSE IF due THEN restart_interval - 1 ELSE @ - 1,
        !.next_restart_num = IF due THEN (@ + 1) % Restarts ELSE @]

(* start_pass_huff, start_pass_phuff.                                         *)
NoCount == [kind \in Kind |-> [s \in Huffman!Symbol |-> 0]]
start_pass(gather, table) ==
  [gather |-> gather, mcu |-> 1, put_buffer |-> <<>>, out |-> <<>>, count |-> NoCount,
   code |-> [kind \in Kind |-> Huffman!jpeg_make_c_derived_tbl(table[kind])], table |-> table,
   last_dc_val |-> [c \in Component |-> 0], EOBRUN |-> 0, BE |-> <<>>,
   restarts_to_go |-> restart_interval, next_restart_num |-> 0, error |-> "none"]
NoTable == [bits |-> [l \in 1 .. MaxLength |-> 0], huffval |-> <<>>]

(* finish_pass_gather makes the tables the scan needs, finish_pass_huff writes *)
(* what is left; both end a run.                                              *)
Needed(kind) == ~Progressive \/ (kind = "dc" /\ Now.Ss = 0 /\ Now.Ah = 0) \/ (kind = "ac" /\ Now.Ss > 0)
optimal_tables(e) ==
  [kind \in Kind |-> IF Needed(kind) THEN Huffman!jpeg_gen_optimal_table(e.count[kind]) ELSE e.table[kind]]
finish_pass(e) == flush_bits(emit_eobrun(e))

-----------------------------------------------------------------------------
(* The decoder takes bytes into its bit buffer while there is room, up to a    *)
(* marker, and gives up where the supply ends (ok), even when it has the bits. *)
(* At a marker it makes do with zeroes.  v is what was read last.              *)
Stream == enc.out \o <<FF, EOI>>
RECURSIVE filled(_)
filled(t) ==
  LET rest == {j \in t.at + 1 .. avail : Stream[j] # FF}
      next == Min(rest)
  IN IF t.unread_marker # 0 \/ Len(t.get_buffer) >= MIN_GET_BITS THEN t
     ELSE IF t.at > avail THEN [t EXCEPT !.ok = FALSE]
     ELSE IF Stream[t.at] # FF
          THEN filled([t EXCEPT !.at = @ + 1, !.get_buffer = @ \o BitsOf(Stream[t.at], W)])
     ELSE IF rest = {} THEN [t EXCEPT !.ok = FALSE]
     ELSE IF Stream[next] = 0
          THEN filled([t EXCEPT !.at = next + 1, !.get_buffer = @ \o BitsOf(FF, W)])
     ELSE [t EXCEPT !.at = next + 1, !.unread_marker = Stream[next]]
jpeg_fill_bit_buffer(t, nbits) ==
  LET zeroes(n) == [i \in 1 .. MIN_GET_BITS - n |-> 0]
      Padded(f) ==
        IF f.ok /\ nbits > Len(f.get_buffer)
        THEN [f EXCEPT !.get_buffer = @ \o zeroes(Len(@)), !.insufficient_data = TRUE, !.warned = TRUE] ELSE f
  IN Padded(filled(t))
drop_bits(t, n) == [t EXCEPT !.get_buffer = SubSeq(@, n + 1, Len(@))]
get_bits(t, n) ==
  LET Taken(f) == IF ~f.ok THEN f
                  ELSE [drop_bits(f, n) EXCEPT !.v = Huffman!ValueOf(SubSeq(f.get_buffer, 1, n))]
  IN Taken(IF Len(t.get_buffer) < n THEN jpeg_fill_bit_buffer(t, n) ELSE t)

(* HUFF_DECODE: looked up when there are bits enough, else a bit at a time.    *)
RECURSIVE jpeg_huff_decode(_, _, _, _)
jpeg_huff_decode(t, d, code, l) ==
  LET Longer(u) == jpeg_huff_decode(u, d, 2 * code + u.v, l + 1)
  IN IF ~t.ok THEN t
     ELSE IF l > MaxLength THEN [t EXCEPT !.v = 0, !.warned = TRUE]
     ELSE IF code <= d.maxcode[l]
          THEN [t EXCEPT !.v = d.huffval[code + d.valoffset[l]]]
     ELSE Longer(get_bits(t, 1))
huff_decode(t, kind) ==
  LET d == dec.dtbl[kind]
      seen(f) == d.look[Huffman!ValueOf(SubSeq(f.get_buffer, 1, HUFF_LOOKAHEAD))]
      first(f) == IF Len(f.get_buffer) < HUFF_LOOKAHEAD THEN 1 ELSE HUFF_LOOKAHEAD + 1
      Slow(u, l) == jpeg_huff_decode(u, d, u.v, l)
      Decoded(f) ==
        IF ~f.ok THEN f
        ELSE IF Len(f.get_buffer) >= HUFF_LOOKAHEAD /\ seen(f).nbits > 0
             THEN [drop_bits(f, seen(f).nbits) EXCEPT !.v = seen(f).sym]
        ELSE Slow(get_bits(f, first(f)), first(f))
  IN Decoded(IF Len(t.get_buffer) < HUFF_LOOKAHEAD THEN jpeg_fill_bit_buffer(t, 0) ELSE t)

(* HUFF_EXTEND: the number of so many bits.                                    *)
get_value(t, size) ==
  LET Extended(u) == IF u.ok /\ u.v < 2 ^ (size - 1) THEN [u EXCEPT !.v = @ - 2 ^ size + 1] ELSE u
  IN IF size = 0 THEN [t EXCEPT !.v = 0] ELSE Extended(get_bits(t, size))

-----------------------------------------------------------------------------
(* One block of component c; x is the decoder, with the block it works on.     *)
(* The index of a damaged stream goes past the last coefficient; the order of  *)
(* coefficients has spare entries that lead to the last one.                   *)
Place(k) == IF k > LastCoef THEN LastCoef ELSE k
decode_dc(x, c) ==
  LET Summed(u, dc) == IF ~u.ok THEN u ELSE [u EXCEPT !.last_dc_val[c] = dc, !.block[0] = dc * 2 ^ Now.Al]
      Difference(u) == Summed(u, u.last_dc_val[c] + u.v)
      Symbol(h) == Difference(IF h.ok THEN get_value(h, h.v) ELSE h)
  IN Symbol(huff_decode(x, "dc"))

(* The length of a run of ends of blocks.                                      *)
get_eobrun(h, r) ==
  LET Longer(u) == IF ~u.ok THEN u ELSE [u EXCEPT !.EOBRUN = 2 ^ r + u.v]
  IN IF r = 0 THEN [h EXCEPT !.EOBRUN = 1] ELSE Longer(get_bits(h, r))

RECURSIVE decode_band(_, _)
decode_band(x, k) ==
  LET Value(u, at) == IF ~u.ok THEN u
                      ELSE decode_band([u EXCEPT !.block[Place(at)] = u.v * 2 ^ Now.Al], at + 1)
      Run(w) == IF ~w.ok THEN w ELSE [w EXCEPT !.EOBRUN = @ - 1]
      Symbol(h, r, s) ==
        IF s > 0 THEN Value(get_value(h, s), k + r)
        ELSE IF r = MaxRun THEN decode_band(h, k + MaxRun + 1)
        ELSE IF ~Progressive THEN h ELSE Run(get_eobrun(h, r))
      Coded(h) == IF ~h.ok THEN h ELSE Symbol(h, h.v \div Radix, h.v % Radix)
  IN IF ~x.ok \/ k > Now.Se THEN x ELSE Coded(huff_decode(x, "ac"))
decode_AC_first(x) ==
  IF x.EOBRUN > 0 THEN [x EXCEPT !.EOBRUN = @ - 1] ELSE decode_band(x, Now.Ss)

(* The bit of an old coefficient, which may have been applied already.         *)
Bit == 2 ^ Now.Al
HasBit(v) == (v \div Bit) % 2 = 1
correct(x, k) ==
  LET Bent(u) == IF u.ok /\ u.v = 1 /\ ~HasBit(u.block[k])
                 THEN [u EXCEPT !.block[k] = @ + Sign(@) * Bit] ELSE u
  IN Bent(get_bits(x, 1))
decode_DC_refine(x) ==
  LET Bent(u) == IF u.ok /\ u.v = 1 /\ ~HasBit(u.block[0]) THEN [u EXCEPT !.block[0] = @ + Bit] ELSE u
  IN Bent(get_bits(x, 1))

(* Past r zeroes, correcting what is not zero, to the next zero.               *)
RECURSIVE pass_over(_, _)
pass_over(x, r) ==
  IF ~x.ok \/ x.k > Now.Se \/ (x.block[x.k] = 0 /\ r = 0) THEN x
  ELSE IF x.block[x.k] = 0 THEN pass_over([x EXCEPT !.k = @ + 1], r - 1)
  ELSE pass_over([correct(x, x.k) EXCEPT !.k = @ + 1], r)
RECURSIVE refine_band(_)
refine_band(x) ==
  LET New(w, s, value) ==
        IF ~w.ok THEN w
        ELSE IF s = 0 THEN refine_band([w EXCEPT !.k = @ + 1])
        ELSE refine_band([w EXCEPT !.block[Place(w.k)] = value, !.newnz = @ \cup {Place(w.k)}, !.k = @ + 1])
      Passed(u, r, s) == New(pass_over(u, r), s, IF u.v = 1 THEN Bit ELSE -Bit)
      Symbol(h, r, s) == IF s = 0 /\ r # MaxRun THEN get_eobrun(h, r)
                         ELSE Passed(IF s > 0 THEN get_bits(h, 1) ELSE h, r, s)
      Coded(h) == IF ~h.ok THEN h ELSE Symbol(h, h.v \div Radix, h.v % Radix)
  IN IF ~x.ok \/ x.k > Now.Se THEN x ELSE Coded(huff_decode(x, "ac"))

(* A mutant: what was new stays.                                               *)
KeepNew(x) == x
(* What was new is taken back when the block is given up, so that the zeroes   *)
(* are passed over again; corrections are not.                                *)
undoit(x) == [x EXCEPT !.block = [k \in DOMAIN @ |-> IF k \in x.newnz THEN 0 ELSE @[k]]]
decode_AC_refine(x) ==
  LET End(z) == IF z.ok THEN [z EXCEPT !.EOBRUN = @ - 1] ELSE undoit(z)
      Run(y) == IF ~y.ok THEN undoit(y)
                ELSE IF y.EOBRUN = 0 THEN y ELSE End(pass_over(y, LastCoef + 1))
  IN Run(IF x.EOBRUN = 0 THEN refine_band(x) ELSE x)

decode_block(x, c) ==
  IF ~Progressive THEN decode_band(decode_dc(x, c), 1)
  ELSE IF Now.Ss = 0 /\ Now.Ah = 0 THEN decode_dc(x, c)
  ELSE IF Now.Ss = 0 THEN decode_DC_refine(x)
  ELSE IF Now.Ah = 0 THEN decode_AC_first(x) ELSE decode_AC_refine(x)

-----------------------------------------------------------------------------
(* start_pass_huff_decoder, start_pass_phuff_decoder.                         *)
start_pass_decoder(table) ==
  [at |-> 1, get_buffer |-> <<>>, unread_marker |-> 0, insufficient_data |-> FALSE, warned |-> FALSE,
   last_dc_val |-> [c \in Component |-> 0], EOBRUN |-> 0, mcu |-> 1, ok |-> TRUE, v |-> 0,
   k |-> Now.Ss, newnz |-> {}, block |-> <<>>,
   dtbl |-> [kind \in Kind |-> Huffman!jpeg_make_d_derived_tbl(table[kind])],
   restarts_to_go |-> restart_interval, next_restart_num |-> 0]

(* process_restart drops the bits left; the marker has been seen already or is *)
(* next in the supply.                                                        *)
process_restart(d) ==
  LET codes == {j \in d.at + 1 .. avail : Stream[j - 1] = FF /\ Stream[j] \notin {0, FF}}
      marker == IF d.unread_marker # 0 THEN d.unread_marker ELSE Stream[Min(codes)]
  IN IF d.unread_marker = 0 /\ codes = {} THEN [d EXCEPT !.get_buffer = <<>>, !.ok = FALSE]
     ELSE [d EXCEPT !.get_buffer = <<>>, !.unread_marker = 0, !.insufficient_data = FALSE,
                    !.at = IF d.unread_marker # 0 THEN @ ELSE Min(codes) + 1,
                    !.warned = @ \/ marker # 1 + d.next_restart_num,
                    !.last_dc_val = [c \in Component |-> 0], !.EOBRUN = 0,
                    !.restarts_to_go = restart_interval,
                    !.next_restart_num = (@ + 1) % Restarts]

(* decode_mcu and its siblings: the blocks of one MCU, one after the other;    *)
(* the position in the supply is kept only when all of them were there.        *)
MCU(d) ==
  FoldLeft(LAMBDA t, c :
             LET With(x) == [x |-> x, blocks |-> [t.blocks EXCEPT ![c] = x.block]]
             IN IF t.x.ok
                THEN With(decode_block([t.x EXCEPT !.block = coef[c][d.mcu], !.k = Now.Ss, !.newnz = {}], c))
                ELSE t,
           [x |-> d, blocks |-> [c \in Component |-> IF d.mcu \in DOMAIN coef[c] THEN coef[c][d.mcu] ELSE <<>>]],
           IF d.insufficient_data THEN <<>> ELSE Now.comps)
Stored(blocks) ==
  [c \in Component |-> [m \in DOMAIN coef[c] |-> IF m = dec.mcu THEN blocks[c] ELSE coef[c][m]]]

-----------------------------------------------------------------------------
Zeroes == [c \in Component |-> [m \in DOMAIN image[c] |-> [k \in 0 .. LastCoef |-> 0]]]
NoTables == [kind \in Kind |-> NoTable]
Init ==
  /\ image \in Images /\ script \in Scripts /\ restart_interval \in Intervals
  /\ scan = 1 /\ pass = "gather"
  /\ enc = start_pass(TRUE, NoTables)
  /\ avail = 0 /\ dec = start_pass_decoder(NoTables)
  /\ coef = Zeroes /\ warned = FALSE

Fixed == UNCHANGED <<image, script, restart_interval>>
EncodeMCU ==
  /\ pass \in {"gather", "output"} /\ enc.mcu <= MCUs
  /\ enc' = encode_mcu(enc)
  /\ Fixed /\ UNCHANGED <<scan, pass, avail, dec, coef, warned>>
FinishGather ==
  /\ pass = "gather" /\ enc.mcu > MCUs
  /\ enc' = start_pass(FALSE, optimal_tables(finish_pass(enc)))
  /\ pass' = "output"
  /\ Fixed /\ UNCHANGED <<scan, avail, dec, coef, warned>>
FinishOutput ==
  /\ pass = "output" /\ enc.mcu > MCUs
  /\ enc' = finish_pass(enc) /\ pass' = "read"
  /\ avail' = 0 /\ dec' = start_pass_decoder(enc.table)
  /\ Fixed /\ UNCHANGED <<scan, coef, warned>>

(* An attempt at the next MCU; when it must be given up the application        *)
(* supplies more before the next one.                                         *)
DecodeMCU ==
  /\ pass = "read" /\ dec.mcu <= MCUs
  /\ \E d \in {IF restart_interval > 0 /\ dec.restarts_to_go = 0 THEN process_restart(dec) ELSE dec} :
     \E t \in {MCU(d)} :
     LET ok == d.ok /\ t.x.ok
     IN /\ coef' = IF d.ok THEN Stored(t.blocks) ELSE coef
        /\ dec' = IF ok THEN [t.x EXCEPT !.mcu = @ + 1, !.restarts_to_go = @ - 1, !.block = <<>>, !.newnz = {},
                                         !.k = Now.Ss, !.v = 0]
                  ELSE [d EXCEPT !.ok = TRUE]
        /\ warned' = (warned \/ (ok /\ t.x.warned))
        /\ IF ok THEN UNCHANGED avail
           ELSE \E n \in Pieces : /\ avail + n <= Len(Stream)
                                  /\ avail' = avail + n
  /\ Fixed /\ UNCHANGED <<scan, pass, enc>>
FinishScan ==
  /\ pass = "read" /\ dec.mcu > MCUs /\ scan < Len(script)
  /\ scan' = scan + 1 /\ pass' = "gather"
  /\ enc' = [start_pass(TRUE, NoTables) EXCEPT !.error = enc.error]
  /\ Fixed /\ UNCHANGED <<avail, dec, coef, warned>>

Next == EncodeMCU \/ FinishGather \/ FinishOutput \/ DecodeMCU \/ FinishScan
Spec == Init /\ [][Next]_vars

-----------------------------------------------------------------------------
(* The coefficient k of a block as the scans up to n have sent it.             *)
Covering(n, c, k) == {i \in 1 .. n : k \in script[i].Ss .. script[i].Se /\ c \in ToSet(script[i].comps)}
Sent(n, c, v, k) ==
  LET unit == 2 ^ script[Max(Covering(n, c, k))].Al
  IN IF Covering(n, c, k) = {} THEN 0
     ELSE IF k = 0 THEN (v \div unit) * unit ELSE Sign(v) * ((v * Sign(v)) \div unit) * unit

(* What is read of a scan is what was written of it, wherever the supply was   *)
(* cut: each coefficient is as precise as the scans so far have made it, the   *)
(* tables have a code for every symbol, and nothing seems corrupt (decode_mcu, *)
(* decode_mcu_AC_refine, finish_pass_gather).                                 *)
ScansReadBack ==
  /\ enc.error = "none" /\ ~warned
  /\ pass = "read" /\ dec.mcu > MCUs =>
       \A c \in Component : \A m \in DOMAIN image[c] : \A k \in 0 .. LastCoef :
         coef[c][m][k] = Sent(scan, c, image[c][m][k], k)

(* At every moment a coefficient is what this scan or the one before made it:  *)
(* a block given up half way is never seen with anything else in it.           *)
NeverWrong ==
  \A c \in Component : \A m \in DOMAIN image[c] : \A k \in 0 .. LastCoef :
    coef[c][m][k] \in {Sent(n, c, image[c][m][k], k) : n \in {scan - 1, scan}}

(* The runs of ends of blocks and the correction bits that wait for them fit   *)
(* their symbol and their buffer, with the block to come (encode_mcu_AC_refine).*)
WaitingFits == enc.EOBRUN < 2 ^ MaxRun - 1 /\ Len(enc.BE) + LastCoef <= MAX_CORR_BITS
=============================================================================
