---------------------------- MODULE JpegHuffman -----------------------------
(***************************************************************************)
(* The Huffman tables of the JPEG library: the optimal table for counted     *)
(* symbols (jpeg_gen_optimal_table), the codes the encoder derives from a    *)
(* table and the tables with which the decoder finds the symbol again.  A    *)
(* table is what a DHT marker carries: how many codes there are of each      *)
(* length, and the symbols in the order of their codes.                     *)
(***************************************************************************)
EXTENDS Integers, Sequences, FiniteSets, SequencesExt

CONSTANTS
  LastSymbol,       \* 255
  MaxLength,        \* 16, the longest code of a table
  MAX_CLEN,         \* 32, the longest code before the lengths are cut
  HUFF_LOOKAHEAD    \* 8, the bits the decoder looks up at once

Symbol == 0 .. LastSymbol
Reserved == LastSymbol + 1     \* a symbol no one codes keeps the code of all ones free

BitsOf(n, size) == [i \in 1 .. size |-> (n \div 2 ^ (size - i)) % 2]
ValueOf(bits) == FoldLeft(LAMBDA v, b : 2 * v + b, 0, bits)

-----------------------------------------------------------------------------
(* jpeg_gen_optimal_table: the two least frequent groups of symbols are put    *)
(* together, and the codes of all their members get a bit longer, until one    *)
(* group is left.  Of equals the last is taken.  others links the members of   *)
(* a group; it is their set here.                                             *)
Least(freq, except) ==
  LET left == {i \in DOMAIN freq \ except : freq[i] > 0}
  IN Max({i \in left : \A j \in left : freq[i] <= freq[j]})
merge(t) ==
  LET c1 == Least(t.freq, {})
      c2 == Least(t.freq, {c1})
      both == t.others[c1] \cup t.others[c2]
  IN IF Cardinality({i \in DOMAIN t.freq : t.freq[i] > 0}) < 2 THEN t
     ELSE [freq |-> [t.freq EXCEPT ![c1] = @ + t.freq[c2], ![c2] = 0],
           codesize |-> [i \in DOMAIN t.codesize |-> t.codesize[i] + IF i \in both THEN 1 ELSE 0],
           others |-> [t.others EXCEPT ![c1] = both]]
codesize(freq) ==
  LET all == 0 .. Reserved
      start == [freq |-> [i \in all |-> IF i = Reserved THEN 1 ELSE freq[i]],
                codesize |-> [i \in all |-> 0], others |-> [i \in all |-> {i}]]
  IN FoldLeft(LAMBDA t, k : merge(t), start, [k \in 1 .. Reserved |-> k]).codesize

(* Two codes that are too long give way: one of them takes the place of their  *)
(* common prefix, the other and a shorter code become two of one bit more.     *)
shorten(bits, i) ==
  LET j == Max({l \in 1 .. i - 2 : bits[l] > 0})
  IN [bits EXCEPT ![i] = @ - 2, ![i - 1] = @ + 1, ![j + 1] = @ + 2, ![j] = @ - 1]
limited[i \in Nat, bits \in Seq(Int)] ==
  IF i = MaxLength THEN bits
  ELSE IF bits[i] > 0 THEN limited[i, shorten(bits, i)] ELSE limited[i - 1, bits]

(* The reserved symbol has a longest code, which is dropped.                   *)
without_reserved(bits) ==
  LET longest == Max({l \in DOMAIN bits : bits[l] > 0})
  IN [l \in 1 .. MaxLength |-> IF l = longest THEN bits[l] - 1 ELSE bits[l]]
jpeg_gen_optimal_table(freq) ==
  LET size == codesize(freq)
      counted == [l \in 1 .. MAX_CLEN |-> Cardinality({i \in DOMAIN size : size[i] = l})]
      InOrder(a, b) == size[a] < size[b] \/ (size[a] = size[b] /\ a < b)
  IN [bits |-> without_reserved(limited[MAX_CLEN, counted]),
      huffval |-> SetToSortSeq({s \in Symbol : size[s] > 0}, InOrder)]
CodeLengthOverflow(freq) == \E i \in 0 .. Reserved : codesize(freq)[i] > MAX_CLEN

-----------------------------------------------------------------------------
(* Both sides number the codes in order: one more than the one before, with    *)
(* zeroes appended where they get longer.                                     *)
huffsize(table) == FlattenSeq([l \in 1 .. MaxLength |-> [k \in 1 .. table.bits[l] |-> l]])
huffcode(table) ==
  LET size == huffsize(table)
      code[p \in DOMAIN size] ==
        IF p = 1 THEN 0 ELSE (code[p - 1] + 1) * 2 ^ (size[p] - size[p - 1])
  IN code

(* A code of all ones, more symbols than there are, a symbol coded twice.      *)
BadTable(table) ==
  LET size == huffsize(table) code == huffcode(table)
  IN \/ Len(size) > LastSymbol + 1
     \/ \E p \in DOMAIN size : code[p] + 1 >= 2 ^ size[p]
     \/ \E p, q \in DOMAIN size : p # q /\ table.huffval[p] = table.huffval[q]

(* jpeg_make_c_derived_tbl: the code of each symbol that has one.              *)
jpeg_make_c_derived_tbl(table) ==
  LET size == huffsize(table) code == huffcode(table)
      place(s) == CHOOSE p \in DOMAIN size : table.huffval[p] = s
  IN [s \in {table.huffval[p] : p \in DOMAIN size} |-> BitsOf(code[place(s)], size[place(s)])]

(* jpeg_make_d_derived_tbl: for each length the largest code and where its     *)
(* symbols are; for what may be looked up at once, the code it starts with.    *)
jpeg_make_d_derived_tbl(table) ==
  LET size == huffsize(table) code == huffcode(table)
      Of(l) == {p \in DOMAIN size : size[p] = l}
      Starts(x) == {p \in DOMAIN size : /\ size[p] <= HUFF_LOOKAHEAD
                                        /\ x \div 2 ^ (HUFF_LOOKAHEAD - size[p]) = code[p]}
  IN [maxcode |-> [l \in 1 .. MaxLength |-> IF Of(l) = {} THEN -1 ELSE code[Max(Of(l))]],
      valoffset |-> [l \in 1 .. MaxLength |-> IF Of(l) = {} THEN 0 ELSE Min(Of(l)) - code[Min(Of(l))]],
      look |-> [x \in 0 .. 2 ^ HUFF_LOOKAHEAD - 1 |->
                  IF Starts(x) = {} THEN [nbits |-> 0, sym |-> 0]
                  ELSE LET p == CHOOSE p \in Starts(x) : TRUE
                       IN [nbits |-> size[p], sym |-> table.huffval[p]]],
      huffval |-> table.huffval]

-----------------------------------------------------------------------------
(* Whatever was counted, every symbol that occurs gets a code of a length a    *)
(* DHT marker can carry, the encoder takes the table, and the tables of the    *)
(* decoder lead each code back to its symbol, looked up at once or bit by bit  *)
(* (jpeg_gen_optimal_table, jpeg_make_c_derived_tbl, jpeg_make_d_derived_tbl). *)
slow_symbol(d, code) ==
  LET lengths == {l \in DOMAIN code : ValueOf(SubSeq(code, 1, l)) <= d.maxcode[l]}
      l == Min(lengths)
  IN IF lengths = {} THEN -1 ELSE d.huffval[ValueOf(SubSeq(code, 1, l)) + d.valoffset[l]]
LookedUp(d, code) ==
  LET padded == {x \in 0 .. 2 ^ HUFF_LOOKAHEAD - 1 :
                   \A i \in 1 .. Len(code) : BitsOf(x, HUFF_LOOKAHEAD)[i] = code[i]}
  IN {d.look[x] : x \in padded}

TableSound(freq) ==
  LET table == jpeg_gen_optimal_table(freq)
      codes == jpeg_make_c_derived_tbl(table)
      d == jpeg_make_d_derived_tbl(table)
  IN /\ ~CodeLengthOverflow(freq)
     /\ ~BadTable(table)
     /\ DOMAIN codes = {s \in Symbol : freq[s] > 0}
     /\ \A s \in DOMAIN codes :
          /\ slow_symbol(d, codes[s]) = s
          /\ Len(codes[s]) <= HUFF_LOOKAHEAD =>
               LookedUp(d, codes[s]) = {[nbits |-> Len(codes[s]), sym |-> s]}
=============================================================================
