------------------------------ MODULE JpegDct ------------------------------
(***************************************************************************)
(* The transforms of the JPEG library with integer arithmetic: the slow and  *)
(* the fast forward transform and the quantization of their results          *)
(* (jfdctint.c, jfdctfst.c, jcdctmgr.c), the slow, fast and reduced-size     *)
(* inverse transforms (jidctint.c, jidctfst.c, jidctred.c) and the tables of *)
(* multipliers that serve them (jddctmgr.c).  One block goes from samples to *)
(* coefficients and, in several output passes, back to samples.              *)
(* A row of eight numbers is a sequence: its element i is at place i + 1.     *)
(***************************************************************************)
EXTENDS Integers, Sequences

CONSTANTS
  Blocks,      \* bound: blocks of samples, eight rows of eight
  Quants,      \* bound: quantization tables, by row and column
  Sizes,       \* bound: values of DCT_scaled_size
  Passes,      \* bound: output passes
  Tolerance    \* how far a sample may come back from where it was

Index == 1 .. 8
Methods == {"islow", "ifast"}
CENTERJSAMPLE == 128
MAXJSAMPLE == 255

VARIABLES
  block, quantval, fdct_method,
  coefs,              \* the quantized coefficients; zero while none has been read
  quant_table,        \* "none" until the component's first scan begins
  size,               \* DCT_scaled_size
  dct_method, cur_method,
  dct_table,          \* the multipliers
  latched,            \* the table was there when the pass began
  passes, output
vars == <<block, quantval, fdct_method, coefs, quant_table, size, dct_method, cur_method, dct_table,
          latched, passes, output>>

-----------------------------------------------------------------------------
DESCALE(x, n) == (x + 2 ^ (n - 1)) \div 2 ^ n
RIGHT_SHIFT(x, n) == x \div 2 ^ n
Eight(f) == <<f[1], f[2], f[3], f[4], f[5], f[6], f[7], f[8]>>
Column(w, c) == <<w[1][c], w[2][c], w[3][c], w[4][c], w[5][c], w[6][c], w[7][c], w[8][c]>>
Transposed(w) == Eight([c \in Index |-> Column(w, c)])

(* One row or column of jpeg_fdct_islow: even part, odd part, descaled by n;    *)
(* the two terms without a multiplication are scaled apart, by shift.          *)
fdct_islow(d, shift, n) ==
  LET tmp0 == d[1] + d[8]  tmp7 == d[1] - d[8]
      tmp1 == d[2] + d[7]  tmp6 == d[2] - d[7]
      tmp2 == d[3] + d[6]  tmp5 == d[3] - d[6]
      tmp3 == d[4] + d[5]  tmp4 == d[4] - d[5]
      tmp10 == tmp0 + tmp3  tmp13 == tmp0 - tmp3
      tmp11 == tmp1 + tmp2  tmp12 == tmp1 - tmp2
      scaled(x) == IF shift >= 0 THEN x * 2 ^ shift ELSE DESCALE(x, -shift)
      even == (tmp12 + tmp13) * 4433
      z5 == (tmp4 + tmp6 + tmp5 + tmp7) * 9633
      z1 == (tmp4 + tmp7) * (-7373)
      z2 == (tmp5 + tmp6) * (-20995)
      z3 == (tmp4 + tmp6) * (-16069) + z5
      z4 == (tmp5 + tmp7) * (-3196) + z5
  IN <<scaled(tmp10 + tmp11), DESCALE(tmp7 * 12299 + z1 + z4, n),
       DESCALE(even + tmp13 * 6270, n), DESCALE(tmp6 * 25172 + z2 + z3, n),
       scaled(tmp10 - tmp11), DESCALE(tmp5 * 16819 + z2 + z4, n),
       DESCALE(even - tmp12 * 15137, n), DESCALE(tmp4 * 2446 + z1 + z3, n)>>
jpeg_fdct_islow(data) ==
  LET rows == Transposed(Eight([r \in Index |-> fdct_islow(data[r], 2, 11)]))
  IN Transposed(Eight([c \in Index |-> fdct_islow(rows[c], -2, 15)]))

(* jpeg_fdct_ifast, whose products are shifted down without rounding.          *)
MULTIPLY(x, const) == RIGHT_SHIFT(x * const, 8)
fdct_ifast(d) ==
  LET tmp0 == d[1] + d[8]  tmp7 == d[1] - d[8]
      tmp1 == d[2] + d[7]  tmp6 == d[2] - d[7]
      tmp2 == d[3] + d[6]  tmp5 == d[3] - d[6]
      tmp3 == d[4] + d[5]  tmp4 == d[4] - d[5]
      tmp10 == tmp0 + tmp3  tmp13 == tmp0 - tmp3
      tmp11 == tmp1 + tmp2  tmp12 == tmp1 - tmp2
      z1 == MULTIPLY(tmp12 + tmp13, 181)
      odd10 == tmp4 + tmp5  odd11 == tmp5 + tmp6  odd12 == tmp6 + tmp7
      z5 == MULTIPLY(odd10 - odd12, 98)
      z2 == MULTIPLY(odd10, 139) + z5
      z4 == MULTIPLY(odd12, 334) + z5
      z3 == MULTIPLY(odd11, 181)
      z11 == tmp7 + z3  z13 == tmp7 - z3
  IN <<tmp10 + tmp11, z11 + z4, tmp13 + z1, z13 - z2, tmp10 - tmp11, z13 + z2, tmp13 - z1, z11 - z4>>
jpeg_fdct_ifast(data) ==
  LET rows == Transposed(Eight([r \in Index |-> fdct_ifast(data[r])]))
  IN Transposed(Eight([c \in Index |-> fdct_ifast(rows[c])]))

aanscales ==
  <<<<16384, 22725, 21407, 19266, 16384, 12873, 8867, 4520>>,
    <<22725, 31521, 29692, 26722, 22725, 17855, 12299, 6270>>,
    <<21407, 29692, 27969, 25172, 21407, 16819, 11585, 5906>>,
    <<19266, 26722, 25172, 22654, 19266, 15137, 10426, 5315>>,
    <<16384, 22725, 21407, 19266, 16384, 12873, 8867, 4520>>,
    <<12873, 17855, 16819, 15137, 12873, 10114, 6967, 3552>>,
    <<8867, 12299, 11585, 10426, 8867, 6967, 4799, 2446>>,
    <<4520, 6270, 5906, 5315, 4520, 3552, 2446, 1247>>>>

(* start_pass_fdctmgr: the divisor of a coefficient undoes the transform's     *)
(* scale as well; forward_DCT divides rounding to nearest, away from zero.     *)
divisor(quant, method, r, c) ==
  IF method = "islow" THEN quant[r][c] * 8 ELSE DESCALE(quant[r][c] * aanscales[r][c], 11)
quantized(x, qval) == IF x < 0 THEN -((-x + qval \div 2) \div qval) ELSE (x + qval \div 2) \div qval
forward_DCT(samples, quant, method) ==
  LET centred == Eight([r \in Index |-> Eight([c \in Index |-> samples[r][c] - CENTERJSAMPLE])])
      workspace == IF method = "islow" THEN jpeg_fdct_islow(centred) ELSE jpeg_fdct_ifast(centred)
  IN Eight([r \in Index |-> Eight([c \in Index |-> quantized(workspace[r][c], divisor(quant, method, r, c))])])

-----------------------------------------------------------------------------
(* The table that limits a sample's range, indexed modulo four times its size. *)
range_limit(x) ==
  LET m == x % (4 * (MAXJSAMPLE + 1))
  IN IF m < CENTERJSAMPLE THEN m + CENTERJSAMPLE
     ELSE IF m < 512 THEN MAXJSAMPLE
     ELSE IF m < 1024 - CENTERJSAMPLE THEN 0
     ELSE m - (1024 - CENTERJSAMPLE)

idct_islow(d, n) ==
  LET even == (d[3] + d[7]) * 4433
      tmp2 == even - d[7] * 15137
      tmp3 == even + d[3] * 6270
      tmp0 == (d[1] + d[5]) * 2 ^ 13  tmp1 == (d[1] - d[5]) * 2 ^ 13
      tmp10 == tmp0 + tmp3  tmp13 == tmp0 - tmp3
      tmp11 == tmp1 + tmp2  tmp12 == tmp1 - tmp2
      z5 == (d[8] + d[4] + d[6] + d[2]) * 9633
      z1 == (d[8] + d[2]) * (-7373)
      z2 == (d[6] + d[4]) * (-20995)
      z3 == (d[8] + d[4]) * (-16069) + z5
      z4 == (d[6] + d[2]) * (-3196) + z5
      odd0 == d[8] * 2446 + z1 + z3   odd1 == d[6] * 16819 + z2 + z4
      odd2 == d[4] * 25172 + z2 + z3  odd3 == d[2] * 12299 + z1 + z4
  IN <<DESCALE(tmp10 + odd3, n), DESCALE(tmp11 + odd2, n), DESCALE(tmp12 + odd1, n), DESCALE(tmp13 + odd0, n),
       DESCALE(tmp13 - odd0, n), DESCALE(tmp12 - odd1, n), DESCALE(tmp11 - odd2, n), DESCALE(tmp10 - odd3, n)>>
jpeg_idct_islow(w) ==
  LET columns == Transposed(Eight([c \in Index |-> idct_islow(Column(w, c), 11)]))
  IN Eight([r \in Index |-> idct_islow(columns[r], 18)])

idct_ifast(d) ==
  LET tmp10 == d[1] + d[5]  tmp11 == d[1] - d[5]
      tmp13 == d[3] + d[7]  tmp12 == MULTIPLY(d[3] - d[7], 362) - tmp13
      tmp0 == tmp10 + tmp13  tmp3 == tmp10 - tmp13
      tmp1 == tmp11 + tmp12  tmp2 == tmp11 - tmp12
      z13 == d[6] + d[4]  z10 == d[6] - d[4]
      z11 == d[2] + d[8]  z12 == d[2] - d[8]
      tmp7 == z11 + z13
      z5 == MULTIPLY(z10 + z12, 473)
      tmp6 == MULTIPLY(z10, -669) + z5 - tmp7
      tmp5 == MULTIPLY(z11 - z13, 362) - tmp6
      tmp4 == MULTIPLY(z12, 277) - z5 + tmp5
  IN <<tmp0 + tmp7, tmp1 + tmp6, tmp2 + tmp5, tmp3 - tmp4, tmp3 + tmp4, tmp2 - tmp5, tmp1 - tmp6, tmp0 - tmp7>>
jpeg_idct_ifast(w) ==
  LET columns == Transposed(Eight([c \in Index |-> idct_ifast(Column(w, c))]))
      rows == Eight([r \in Index |-> idct_ifast(columns[r])])
  IN Eight([r \in Index |-> Eight([c \in Index |-> RIGHT_SHIFT(rows[r][c], 5)])])

(* The reduced-size transforms leave out what they cannot show.                *)
idct_4(d, n) ==
  LET tmp0 == d[1] * 2 ^ 14
      tmp2 == d[3] * 15137 - d[7] * 6270
      odd0 == d[8] * (-1730) + d[6] * 11893 + d[4] * (-17799) + d[2] * 8697
      odd2 == d[8] * (-4176) + d[6] * (-4926) + d[4] * 7373 + d[2] * 20995
  IN <<DESCALE(tmp0 + tmp2 + odd2, n), DESCALE(tmp0 - tmp2 + odd0, n),
       DESCALE(tmp0 - tmp2 - odd0, n), DESCALE(tmp0 + tmp2 - odd2, n)>>
jpeg_idct_4x4(w) ==
  LET columns == Eight([c \in Index |-> idct_4(Column(w, c), 12)])
      row(r) == Eight([c \in Index |-> columns[c][r]])
  IN <<idct_4(row(1), 19), idct_4(row(2), 19), idct_4(row(3), 19), idct_4(row(4), 19)>>

idct_2(d, n) ==
  LET tmp10 == d[1] * 2 ^ 15
      tmp0 == d[8] * (-5906) + d[6] * 6967 + d[4] * (-10426) + d[2] * 29692
  IN <<DESCALE(tmp10 + tmp0, n), DESCALE(tmp10 - tmp0, n)>>
jpeg_idct_2x2(w) ==
  LET columns == Eight([c \in Index |-> idct_2(Column(w, c), 13)])
      row(r) == Eight([c \in Index |-> columns[c][r]])
  IN <<idct_2(row(1), 20), idct_2(row(2), 20)>>
jpeg_idct_1x1(w) == <<<<DESCALE(w[1][1], 3)>>>>

inverse_DCT(w) ==
  CASE size = 1 -> jpeg_idct_1x1(w)
    [] size = 2 -> jpeg_idct_2x2(w)
    [] size = 4 -> jpeg_idct_4x4(w)
    [] size = 8 /\ dct_method = "islow" -> jpeg_idct_islow(w)
    [] OTHER -> jpeg_idct_ifast(w)

-----------------------------------------------------------------------------
Zeroes == Eight([r \in Index |-> Eight([c \in Index |-> 0])])
(* jinit_inverse_dct: no table, and no coefficients yet.                       *)
Init ==
  /\ block \in Blocks /\ quantval \in Quants /\ fdct_method \in Methods /\ size \in Sizes
  /\ coefs = Zeroes /\ quant_table = FALSE
  /\ dct_method = "islow" /\ cur_method = "none" /\ dct_table = Zeroes /\ latched = FALSE
  /\ passes = 0 /\ output = <<>>

(* The component's first scan: its table is saved and its coefficients come.   *)
ReadScan ==
  /\ ~quant_table /\ quant_table' = TRUE
  /\ coefs' = forward_DCT(block, quantval, fdct_method)
  /\ UNCHANGED <<block, quantval, fdct_method, size, dct_method, cur_method, dct_table, latched, passes, output>>

(* start_pass: a table that is there already is not made again.                *)
method == IF size = 8 THEN dct_method' ELSE "islow"
multiplier(r, c) ==
  IF method = "islow" THEN quantval[r][c] ELSE DESCALE(quantval[r][c] * aanscales[r][c], 12)
StartPass ==
  /\ passes < Passes /\ passes' = passes + 1
  /\ dct_method' \in Methods
  /\ latched' = quant_table /\ output' = <<>>
  /\ IF cur_method = method \/ ~quant_table
     THEN UNCHANGED <<cur_method, dct_table>>
     ELSE /\ cur_method' = method
          /\ dct_table' = Eight([r \in Index |-> Eight([c \in Index |-> multiplier(r, c)])])
  /\ UNCHANGED <<block, quantval, fdct_method, coefs, quant_table, size>>

(* The block, with the coefficients that have come, each by its multiplier.    *)
OutputBlock ==
  /\ passes > 0 /\ output = <<>>
  /\ LET dequantized == Eight([r \in Index |-> Eight([c \in Index |-> coefs[r][c] * dct_table[r][c]])])
         samples == inverse_DCT(dequantized)
     IN output' = [r \in 1 .. size |-> [c \in 1 .. size |-> range_limit(samples[r][c])]]
  /\ UNCHANGED <<block, quantval, fdct_method, coefs, quant_table, size, dct_method, cur_method, dct_table,
                 latched, passes>>

Next == ReadScan \/ StartPass \/ OutputBlock
Spec == Init /\ [][Next]_vars

-----------------------------------------------------------------------------
Magnitude(x) == IF x < 0 THEN -x ELSE x
Sum8(f) == f[1] + f[2] + f[3] + f[4] + f[5] + f[6] + f[7] + f[8]
(* The sum of the samples that one output sample stands for.                   *)
Area(r, c) ==
  LET step == 8 \div size
      in(x, i) == (i - 1) * step < x /\ x <= i * step
  IN Sum8([y \in Index |-> Sum8([x \in Index |-> IF in(y, r) /\ in(x, c) THEN block[y][x] ELSE 0])])

(* Whatever transform coded the block and whichever an output pass uses, after *)
(* other passes with other transforms, each sample is shown near the mean of   *)
(* those it stands for; and a pass begun before the component's table was      *)
(* known shows a neutral gray, though coefficients may have come since         *)
(* (jddctmgr.c:29-38, start_pass; forward_DCT; the descalings).                *)
BlockSurvives ==
  output # <<>> =>
    \A r, c \in 1 .. size :
      IF ~latched THEN output[r][c] = CENTERJSAMPLE
      ELSE LET cells == (8 \div size) * (8 \div size)
           IN Magnitude(output[r][c] * cells - Area(r, c)) <= Tolerance * cells
=============================================================================
