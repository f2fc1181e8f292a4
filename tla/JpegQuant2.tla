----------------------------- MODULE JpegQuant2 -----------------------------
(***************************************************************************)
(* The two-pass colour quantizer of the JPEG library (jquant2.c): a prescan  *)
(* of the image counts its colours, boxes of colours are cut in two until    *)
(* there are as many as colours wanted, and each pixel is then given a       *)
(* nearby colour.  The histogram of the prescan becomes the cache of the     *)
(* colours found.  An application in buffered-image mode makes many output   *)
(* passes, with a colour map chosen here or one of its own, dithered or not. *)
(***************************************************************************)
EXTENDS Integers, Sequences, FiniteSets, SequencesExt

CONSTANTS
  MAXJSAMPLE,       \* 255
  Shift,            \* C0_SHIFT, C1_SHIFT, C2_SHIFT: the bits a cell does not tell apart
  Scale,            \* C0_SCALE, C1_SCALE, C2_SCALE
  BoxLog,           \* BOX_C0_LOG, ...: the cells filled at once
  HistMax,          \* the largest histcell, 65535
  STEPSIZE,         \* (MAXJSAMPLE + 1) / 16
  Images,           \* bound: rows of pixels, all of one width
  Desired,          \* bound: values of desired_number_of_colors
  Maps,             \* bound: colour maps of the application
  Passes            \* bound: output passes

Axis == 1 .. 3
CellOf(pixel) ==
  <<pixel[1] \div 2 ^ Shift[1], pixel[2] \div 2 ^ Shift[2], pixel[3] \div 2 ^ Shift[3]>>
Cell == {<<i, j, k>> : i \in 0 .. MAXJSAMPLE \div 2 ^ Shift[1],
                       j \in 0 .. MAXJSAMPLE \div 2 ^ Shift[2],
                       k \in 0 .. MAXJSAMPLE \div 2 ^ Shift[3]}
Empty == [c \in Cell |-> 0]
Square(x) == x * x
SumOver(f) == f[1] + f[2] + f[3]
Triple(f) == <<f[1], f[2], f[3]>>

VARIABLES
  image, desired,
  histogram,        \* counts of cells, or one more than the number of their colour
  needs_zeroed,
  colormap, chosen, \* the colours; whether they were chosen here
  pass, passes,     \* "idle", "prescan", "output"; output passes begun
  dithered,
  row,              \* rows done in this pass
  fserrors, on_odd_row,
  looked            \* what the last row looked up in the error limiter
vars == <<image, desired, histogram, needs_zeroed, colormap, chosen, pass, passes, dithered, row,
          fserrors, on_odd_row, looked>>

Width == Len(image[1])

-----------------------------------------------------------------------------
(* A box of cells is no larger than the colours in it (update_box).            *)
InBox(c, b) == \A a \in Axis : b.min[a] <= c[a] /\ c[a] <= b.max[a]
Colours(b) == {c \in Cell : InBox(c, b) /\ histogram[c] > 0}
update_box(b) ==
  LET colours == Colours(b)
  IN [min |-> Triple([a \in Axis |-> Min({c[a] : c \in colours})]),
      max |-> Triple([a \in Axis |-> Max({c[a] : c \in colours})])]
Extent(b) == Triple([a \in Axis |-> (b.max[a] - b.min[a]) * 2 ^ Shift[a] * Scale[a]])
volume(b) == LET e == Extent(b) IN Square(e[1]) + Square(e[2]) + Square(e[3])
colorcount(b) == Cardinality(Colours(b))

(* The first of the boxes with the most of it, among those that can be cut.    *)
find_biggest(boxes, most) ==
  LET cut == {i \in DOMAIN boxes : volume(boxes[i]) > 0}
      best == {i \in cut : \A j \in cut : most[i] >= most[j]}
  IN IF cut = {} THEN 0 ELSE Min(best)
longest_axis(b) ==
  LET e == Extent(b) IN IF e[3] > Max({e[1], e[2]}) THEN 3 ELSE IF e[1] > e[2] THEN 1 ELSE 2

(* median_cut, one box: by population in the first half, by volume then.       *)
cut_one(boxes) ==
  LET by_count == [i \in DOMAIN boxes |-> colorcount(boxes[i])]
      by_volume == [i \in DOMAIN boxes |-> volume(boxes[i])]
      i == find_biggest(boxes, IF Len(boxes) * 2 <= desired THEN by_count ELSE by_volume)
      b == boxes[i]
      n == longest_axis(b)
      lb == (b.max[n] + b.min[n]) \div 2
      b1 == [b EXCEPT !.max[n] = lb]
      b2 == [b EXCEPT !.min[n] = lb + 1]
  IN IF i = 0 THEN boxes ELSE Append([boxes EXCEPT ![i] = update_box(b1)], update_box(b2))
WholeBox == [min |-> <<0, 0, 0>>, max |-> Triple([a \in Axis |-> MAXJSAMPLE \div 2 ^ Shift[a]])]
median_cut == FoldLeft(LAMBDA boxes, k : cut_one(boxes), <<update_box(WholeBox)>>, [k \in 1 .. desired - 1 |-> k])

(* compute_color: the mean of the cells of a box, by their counts.             *)
Centre(c) == Triple([a \in Axis |-> c[a] * 2 ^ Shift[a] + 2 ^ Shift[a] \div 2])
compute_color(b) ==
  LET colours == Colours(b)
      total == MapThenSumSet(LAMBDA c : histogram[c], colours)
      mean(a) == (MapThenSumSet(LAMBDA c : Centre(c)[a] * histogram[c], colours) + total \div 2) \div total
  IN <<mean(1), mean(2), mean(3)>>
select_colors == LET boxes == median_cut IN [i \in DOMAIN boxes |-> compute_color(boxes[i])]

-----------------------------------------------------------------------------
(* The inverse colour map, filled a block of cells at a time: the colours that *)
(* may be nearest to some cell of the block, then the nearest for each cell.   *)
Origin(c) == Triple([a \in Axis |-> (c[a] \div 2 ^ BoxLog[a]) * 2 ^ BoxLog[a]])
Block(c) == LET o == Origin(c) IN {d \in Cell : Origin(d) = o}
mindist(x, lo, hi, a) == Square(Scale[a] * IF x < lo THEN lo - x ELSE IF x > hi THEN x - hi ELSE 0)
maxdist(x, lo, hi, a) ==
  Square(Scale[a] * IF x < lo \/ (x <= hi /\ x <= (lo + hi) \div 2) THEN hi - x ELSE x - lo)
find_nearby_colors(c) ==
  LET lo == Centre(Origin(c))
      hi == Triple([a \in Axis |-> lo[a] + 2 ^ (Shift[a] + BoxLog[a]) - 2 ^ Shift[a]])
      near(i) == SumOver([a \in Axis |-> mindist(colormap[i][a], lo[a], hi[a], a)])
      far(i) == SumOver([a \in Axis |-> maxdist(colormap[i][a], lo[a], hi[a], a)])
      minmaxdist == Min({far(i) : i \in DOMAIN colormap})
  IN {i \in DOMAIN colormap : near(i) <= minmaxdist}
distance(c, i) == SumOver([a \in Axis |-> Square(Scale[a] * (Centre(c)[a] - colormap[i][a]))])
find_best_colors(c, list) == Min({i \in list : \A j \in list : distance(c, i) <= distance(c, j)})
fill_inverse_cmap(hist, c) ==
  LET list == find_nearby_colors(c)
  IN [d \in Block(c) |-> find_best_colors(d, list)] @@ hist
Cached(hist, c) == IF hist[c] = 0 THEN fill_inverse_cmap(hist, c) ELSE hist

-----------------------------------------------------------------------------
(* A row of pass 2, undithered or with the errors of Floyd and Steinberg, from *)
(* left to right and from right to left in turn.                              *)
pass2_no_dither(pixels) ==
  FoldLeft(LAMBDA hist, p : Cached(hist, CellOf(p)), histogram, pixels)

error_limit[x \in Int] ==
  IF x < 0 THEN -error_limit[-x]
  ELSE IF x < STEPSIZE THEN x
  ELSE IF x < 3 * STEPSIZE THEN STEPSIZE + (x - STEPSIZE) \div 2
  ELSE 2 * STEPSIZE
range_limit(x) == IF x < 0 THEN 0 ELSE IF x > MAXJSAMPLE THEN MAXJSAMPLE ELSE x

NoError == <<0, 0, 0>>
Plus(e, n, f) == <<e[1] + n * f[1], e[2] + n * f[2], e[3] + n * f[3]>>
dither_pixel(t, dir, pixel) ==
  LET in(a) == (t.cur[a] + t.err[t.at + dir][a] + 8) \div 16
      near(a) == range_limit(error_limit[in(a)] + pixel[a])
      cell == CellOf(<<near(1), near(2), near(3)>>)
      hist == Cached(t.hist, cell)
      colour == colormap[hist[cell]]
      left == <<near(1) - colour[1], near(2) - colour[2], near(3) - colour[3]>>
  IN [t EXCEPT !.hist = hist, !.at = @ + dir, !.looked = @ \cup {in(a) : a \in Axis},
               !.err[t.at] = Plus(t.bpreverr, 3, left),
               !.bpreverr = Plus(t.belowerr, 5, left),
               !.belowerr = left, !.cur = Plus(NoError, 7, left)]
pass2_fs_dither(pixels) ==
  LET start == [hist |-> histogram, err |-> fserrors, looked |-> {}, cur |-> NoError,
                bpreverr |-> NoError, belowerr |-> NoError,
                at |-> IF on_odd_row THEN Width + 1 ELSE 0]
      dir == IF on_odd_row THEN -1 ELSE 1
      t == FoldLeft(LAMBDA u, p : dither_pixel(u, dir, p), start,
                    IF on_odd_row THEN Reverse(pixels) ELSE pixels)
  IN [t EXCEPT !.err[t.at] = t.bpreverr]

-----------------------------------------------------------------------------
NoErrors == [e \in 0 .. Width + 1 |-> NoError]
Init ==
  /\ image \in Images /\ desired \in Desired
  /\ histogram = Empty /\ needs_zeroed = TRUE
  /\ colormap = <<>> /\ chosen = TRUE
  /\ pass = "idle" /\ passes = 0 /\ dithered = FALSE /\ row = 0
  /\ fserrors = NoErrors /\ on_odd_row = FALSE /\ looked = {}

(* start_pass_2_quant, before a prescan and before an output pass.             *)
StartPrescan ==
  /\ pass = "idle" /\ passes < Passes
  /\ pass' = "prescan" /\ row' = 0
  /\ histogram' = Empty /\ needs_zeroed' = FALSE
  /\ UNCHANGED <<image, desired, colormap, chosen, passes, dithered, fserrors, on_odd_row, looked>>
StartOutput ==
  /\ pass = "idle" /\ colormap # <<>> /\ passes < Passes
  /\ pass' = "output" /\ passes' = passes + 1 /\ row' = 0
  /\ dithered' \in BOOLEAN
  /\ fserrors' = IF dithered' THEN NoErrors ELSE fserrors
  /\ on_odd_row' = (on_odd_row /\ ~dithered')
  /\ histogram' = IF needs_zeroed THEN Empty ELSE histogram
  /\ needs_zeroed' = FALSE
  /\ UNCHANGED <<image, desired, colormap, chosen, looked>>

(* A count stays at its largest.                                              *)
counted(hist, p) == [hist EXCEPT ![CellOf(p)] = IF @ = HistMax THEN @ ELSE @ + 1]
prescan_quantize ==
  /\ pass = "prescan" /\ row < Len(image)
  /\ histogram' = FoldLeft(LAMBDA h, p : counted(h, p), histogram, image[row + 1])
  /\ row' = row + 1
  /\ UNCHANGED <<image, desired, needs_zeroed, colormap, chosen, pass, passes, dithered, fserrors, on_odd_row, looked>>
finish_pass1 ==
  /\ pass = "prescan" /\ row = Len(image)
  /\ colormap' = select_colors /\ chosen' = TRUE
  /\ needs_zeroed' = TRUE /\ pass' = "idle"
  /\ UNCHANGED <<image, desired, histogram, passes, dithered, row, fserrors, on_odd_row, looked>>

OutputRow ==
  /\ pass = "output" /\ row < Len(image)
  /\ LET t == pass2_fs_dither(image[row + 1])
     IN IF dithered
        THEN histogram' = t.hist /\ fserrors' = t.err /\ looked' = t.looked /\ on_odd_row' = ~on_odd_row
        ELSE histogram' = pass2_no_dither(image[row + 1]) /\ UNCHANGED <<fserrors, looked, on_odd_row>>
  /\ row' = row + 1
  /\ UNCHANGED <<image, desired, needs_zeroed, colormap, chosen, pass, passes, dithered>>
FinishOutput ==
  /\ pass = "output" /\ row = Len(image)
  /\ pass' = "idle"
  /\ UNCHANGED <<image, desired, histogram, needs_zeroed, colormap, chosen, passes, dithered, row,
                 fserrors, on_odd_row, looked>>

(* A mutant: the cache of the map before is kept.                              *)
NewMapOldCache ==
  /\ pass = "idle"
  /\ \E map \in Maps : colormap' = map
  /\ chosen' = FALSE
  /\ UNCHANGED <<image, desired, histogram, needs_zeroed, pass, passes, dithered, row, fserrors, on_odd_row, looked>>

(* jpeg_new_colormap: the application has put a map of its own in place.       *)
new_color_map ==
  /\ pass = "idle"
  /\ \E map \in Maps : colormap' = map
  /\ chosen' = FALSE /\ needs_zeroed' = TRUE
  /\ UNCHANGED <<image, desired, histogram, pass, passes, dithered, row, fserrors, on_odd_row, looked>>

Next == \/ StartPrescan \/ prescan_quantize \/ finish_pass1
        \/ StartOutput \/ OutputRow \/ FinishOutput \/ new_color_map
Spec == Init /\ [][Next]_vars

-----------------------------------------------------------------------------
(* In an output pass a cell that was looked up holds the number of a colour,   *)
(* of this map, than which none is nearer to it, though only the colours near  *)
(* its block were tried and the cell may have been filled in an earlier pass   *)
(* (find_nearby_colors, start_pass_2_quant, new_color_map_2_quant).            *)
NearestColour ==
  pass = "output" =>
    \A c \in Cell : histogram[c] > 0 =>
      /\ histogram[c] \in DOMAIN colormap
      /\ \A i \in DOMAIN colormap : distance(c, histogram[c]) <= distance(c, i)

(* The boxes share the colours of the image among them: every colour that was  *)
(* counted is in exactly one, none is without one, and there are no more than  *)
(* were asked for, fewer only when no box can be cut (median_cut).             *)
BoxesShareColours ==
  pass = "prescan" /\ row = Len(image) =>
    LET boxes == median_cut
    IN /\ Len(boxes) <= desired
       /\ Len(boxes) < desired => \A i \in DOMAIN boxes : volume(boxes[i]) = 0
       /\ \A i \in DOMAIN boxes : Colours(boxes[i]) # {}
       /\ \A c \in Cell : histogram[c] > 0 => Cardinality({i \in DOMAIN boxes : InBox(c, boxes[i])}) = 1

(* The errors passed on never leave the table of limits, which has an entry    *)
(* for each difference of two samples (pass2_fs_dither, init_error_limit).     *)
LimitsLookedUp == looked \subseteq -MAXJSAMPLE .. MAXJSAMPLE
=============================================================================
