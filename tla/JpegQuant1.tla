----------------------------- MODULE JpegQuant1 -----------------------------
(***************************************************************************)
(* The one-pass colour quantizer of the JPEG library (jquant1.c): a colour   *)
(* map that is a grid of equally spaced levels of each component, an index   *)
(* that gives a sample's part of the colour number, and three ways to use    *)
(* them: plainly, with an ordered dither, or passing on errors.  In buffered-*)
(* image mode the way may change from one output pass to the next.           *)
(***************************************************************************)
EXTENDS Integers, Sequences, SequencesExt

CONSTANTS
  MAXJSAMPLE,          \* 255
  base_dither_matrix,  \* ODITHER_SIZE rows of the numbers below ODITHER_CELLS
  Components,          \* bound: values of out_color_components
  Desired,             \* bound: values of desired_number_of_colors
  Images,              \* bound: rows of pixels, all of one width
  Passes               \* bound: output passes

ODITHER_SIZE == Len(base_dither_matrix)
ODITHER_CELLS == ODITHER_SIZE * ODITHER_SIZE
Mode == {"none", "ordered", "fs"}
Prod(s) == FoldLeft(LAMBDA x, y : x * y, 1, s)

VARIABLES
  image, nc, desired,
  rgb,                 \* the output is RGB: green gets the first extra level
  Ncolors,             \* levels of each component; <<>> before, "few" when there are too few
  colormap,            \* by component, then by colour number from 0
  colorindex,          \* by component, then by sample, padded on both sides or not
  is_padded,
  odither, row_index,
  fserrors, on_odd_row,
  dither_mode, passes, row,
  output,              \* the colour numbers of the last row
  looked               \* the indices its samples were looked up at
vars == <<image, nc, desired, rgb, Ncolors, colormap, colorindex, is_padded, odither, row_index, fserrors,
          on_odd_row, dither_mode, passes, row, output, looked>>

Comp == 1 .. nc
Width == Len(image[1])
sv_actual == Prod(Ncolors)

-----------------------------------------------------------------------------
(* select_ncolors: the largest root, then a level more for one component after *)
(* another while the product stays within what is wanted.                      *)
iroot == Max({r \in 1 .. desired : r ^ nc <= desired})
RGB_order == <<2, 1, 3>>
Order == IF rgb THEN RGB_order ELSE [i \in Comp |-> i]
one_more(t, j) ==
  LET grown == [t.n EXCEPT ![j] = @ + 1]
  IN IF t.stop \/ Prod(grown) > desired THEN [t EXCEPT !.stop = TRUE]
     ELSE [n |-> grown, stop |-> FALSE, changed |-> TRUE]
RECURSIVE grow_levels(_)
grow_levels(n) ==
  LET t == FoldLeft(one_more, [n |-> n, stop |-> FALSE, changed |-> FALSE], Order)
  IN IF t.changed THEN grow_levels(t.n) ELSE n
select_ncolors == grow_levels([i \in Comp |-> iroot])

output_value(j, maxj) == (j * MAXJSAMPLE + maxj \div 2) \div maxj
largest_input_value(j, maxj) == ((2 * j + 1) * MAXJSAMPLE + maxj) \div (2 * maxj)

(* The size of a component's step in the colour number.                        *)
blksize(n, i) == Prod(SubSeq(n, i + 1, Len(n)))
create_colormap(n) ==
  [i \in Comp |-> [p \in 0 .. Prod(n) - 1 |-> output_value((p \div blksize(n, i)) % n[i], n[i] - 1)]]
level(x, nci) == Min({j \in 0 .. nci - 1 : j = nci - 1 \/ x <= largest_input_value(j, nci - 1)})
create_colorindex(n, pad) ==
  [i \in Comp |-> [x \in -pad .. MAXJSAMPLE + pad |->
     level(IF x < 0 THEN 0 ELSE IF x > MAXJSAMPLE THEN MAXJSAMPLE ELSE x, n[i]) * blksize(n, i)]]
(* make_odither_array: rounded towards zero whatever the machine's division.   *)
make_odither_array(nci) ==
  LET den == 2 * ODITHER_CELLS * (nci - 1)
      num(d) == (ODITHER_CELLS - 1 - 2 * d) * MAXJSAMPLE
      part(x) == IF x < 0 THEN -((-x) \div den) ELSE x \div den
  IN [j \in 1 .. ODITHER_SIZE |-> [k \in 1 .. ODITHER_SIZE |-> part(num(base_dither_matrix[j][k]))]]

-----------------------------------------------------------------------------
(* A row in each of the three ways: the colour numbers and what was looked up. *)
Together(codes) == [x \in 1 .. Width |-> FoldLeft(LAMBDA s, i : s + codes[i][x], 0, [i \in Comp |-> i])]
color_quantize(pixels) ==
  [output |-> Together([i \in Comp |-> [x \in 1 .. Width |-> colorindex[i][pixels[x][i]]]]), looked |-> {}]
Dithered(pixels, i, x) == pixels[x][i] + odither[i][row_index + 1][((x - 1) % ODITHER_SIZE) + 1]
quantize_ord_dither(pixels) ==
  [output |-> Together([i \in Comp |-> [x \in 1 .. Width |-> colorindex[i][Dithered(pixels, i, x)]]]),
   looked |-> {Dithered(pixels, i, x) : i \in Comp, x \in 1 .. Width}]

range_limit(x) == IF x < 0 THEN 0 ELSE IF x > MAXJSAMPLE THEN MAXJSAMPLE ELSE x
fs_sample(t, i, dir, sample) ==
  LET near == range_limit(((t.cur + t.err[t.at + dir] + 8) \div 16) + sample)
      code == colorindex[i][near]
      left == near - colormap[i][code]
  IN [err |-> [t.err EXCEPT ![t.at] = t.bpreverr + 3 * left], at |-> t.at + dir,
      bpreverr |-> t.belowerr + 5 * left, belowerr |-> left, cur |-> 7 * left,
      codes |-> Append(t.codes, code)]
fs_component(pixels, i) ==
  LET dir == IF on_odd_row THEN -1 ELSE 1
      way(s) == IF on_odd_row THEN Reverse(s) ELSE s
      t == FoldLeft(LAMBDA u, p : fs_sample(u, i, dir, p[i]),
                    [err |-> fserrors[i], at |-> IF on_odd_row THEN Width + 1 ELSE 0,
                     bpreverr |-> 0, belowerr |-> 0, cur |-> 0, codes |-> <<>>], way(pixels))
  IN [err |-> [t.err EXCEPT ![t.at] = t.bpreverr], codes |-> way(t.codes)]

-----------------------------------------------------------------------------
NoErrors == [i \in Comp |-> [e \in 0 .. Width + 1 |-> 0]]
(* jinit_1pass_quantizer: with fewer than two levels it is an error.           *)
Init ==
  /\ nc \in Components /\ desired \in Desired /\ rgb \in {r \in BOOLEAN : r => nc = 3}
  /\ image \in {im \in Images : Len(im[1][1]) = nc}
  /\ dither_mode \in Mode
  /\ Ncolors = IF iroot < 2 THEN <<>> ELSE select_ncolors
  /\ colormap = IF Ncolors = <<>> THEN <<>> ELSE create_colormap(Ncolors)
  /\ is_padded = (dither_mode = "ordered")
  /\ colorindex = IF Ncolors = <<>> THEN <<>>
                  ELSE create_colorindex(Ncolors, IF is_padded THEN MAXJSAMPLE ELSE 0)
  /\ odither = <<>> /\ row_index = 0 /\ fserrors = NoErrors /\ on_odd_row = FALSE
  /\ passes = 0 /\ row = Len(image) /\ output = <<>> /\ looked = {}

(* start_pass_1_quant: the tables a way needs are made when it is first used.  *)
StartPass ==
  /\ Ncolors # <<>> /\ row = Len(image) /\ passes < Passes
  /\ dither_mode' \in Mode
  /\ passes' = passes + 1 /\ row' = 0 /\ output' = <<>> /\ looked' = {}
  /\ IF dither_mode' = "ordered"
     THEN /\ row_index' = 0 /\ is_padded' = TRUE
          /\ colorindex' = IF is_padded THEN colorindex ELSE create_colorindex(Ncolors, MAXJSAMPLE)
          /\ odither' = IF odither = <<>> THEN [i \in Comp |-> make_odither_array(Ncolors[i])] ELSE odither
     ELSE UNCHANGED <<row_index, is_padded, colorindex, odither>>
  /\ IF dither_mode' = "fs" THEN on_odd_row' = FALSE /\ fserrors' = NoErrors
                            ELSE UNCHANGED <<on_odd_row, fserrors>>
  /\ UNCHANGED <<image, nc, desired, rgb, Ncolors, colormap>>

QuantizeRow ==
  /\ row < Len(image) /\ row' = row + 1
  /\ LET pixels == image[row + 1]
         plain == IF dither_mode = "none" THEN color_quantize(pixels) ELSE quantize_ord_dither(pixels)
         done == [i \in Comp |-> fs_component(pixels, i)]
     IN \/ /\ dither_mode # "fs"
           /\ output' = plain.output /\ looked' = plain.looked
           /\ row_index' = IF dither_mode = "ordered" THEN (row_index + 1) % ODITHER_SIZE ELSE row_index
           /\ UNCHANGED <<fserrors, on_odd_row>>
        \/ /\ dither_mode = "fs"
           /\ output' = Together([i \in Comp |-> done[i].codes])
           /\ fserrors' = [i \in Comp |-> done[i].err]
           /\ on_odd_row' = ~on_odd_row
           /\ UNCHANGED <<row_index, looked>>
  /\ UNCHANGED <<image, nc, desired, rgb, Ncolors, colormap, colorindex, is_padded, odither, dither_mode, passes>>

Next == StartPass \/ QuantizeRow
Spec == Init /\ [][Next]_vars

-----------------------------------------------------------------------------
Magnitude(x) == IF x < 0 THEN -x ELSE x

(* No more colours than asked for, and every sample, dithered or not, looked up *)
(* within the index's padding; without a dither it is shown by a level less     *)
(* than half a step and a rounding away (the comment at jquant1.c:263 says      *)
(* halfway, the code rounds), with an ordered one less than a step,             *)
(* wherever its component stands in the colour number; and no error passed on   *)
(* is larger than what a sample's level can leave (select_ncolors,              *)
(* create_colormap, create_colorindex, make_odither_array, quantize_fs_dither). *)
GridSound ==
  Ncolors # <<>> =>
    /\ sv_actual <= desired
    /\ looked # {} => is_padded /\ looked \subseteq -MAXJSAMPLE .. 2 * MAXJSAMPLE
    /\ \A x \in DOMAIN output, i \in Comp :
         LET steps == Ncolors[i] - 1
             off == Magnitude(colormap[i][output[x]] - image[row][x][i])
         IN CASE dither_mode = "none" -> 2 * off * steps <= MAXJSAMPLE + 2 * steps
              [] dither_mode = "ordered" -> off * steps <= MAXJSAMPLE + steps
              [] OTHER -> TRUE
    /\ \A i \in Comp, e \in 0 .. Width + 1 :
         Magnitude(fserrors[i][e]) * (Ncolors[i] - 1) <= 8 * (MAXJSAMPLE + 2 * (Ncolors[i] - 1))
=============================================================================
