----------------------------- MODULE JpegColor -----------------------------
(***************************************************************************)
(* What the JPEG library does to the samples of an image outside its         *)
(* transforms: colour conversion (jccolor.c), downsampling (jcsample.c) on   *)
(* the way in; upsampling (jdsample.c), colour conversion (jdcolor.c) or     *)
(* both at once (jdmerge.c) on the way out.  A picture goes in and comes out *)
(* again; the coding between is taken as lossless.  A plane is a sequence of *)
(* rows, as wide as its buffer, which holds junk until it is written.        *)
(***************************************************************************)
EXTENDS Integers, Sequences, FiniteSetsExt

CONSTANTS
  DCTSIZE,     \* 8
  Pictures,    \* bound: rows of pixels; a pixel has 1 (gray), 3 (RGB) or 4 (CMYK) samples
  Expansions,  \* bound: how much wider and higher a chroma sample is, <<1, 1>> to <<2, 2>>
  Smoothing,   \* bound: values of smoothing_factor, 0 to 100
  Junk         \* what an unwritten sample holds

MAXJSAMPLE == 255
CENTERJSAMPLE == 128

VARIABLES
  picture, jpeg_color_space, expand, smoothing_factor,
  planes,             \* of each component, as wide as the buffers
  scaled,             \* of each component, as coded
  fancy, merged, out_color_space,
  full,               \* of each component, at the size of the picture again
  output, stage
vars == <<picture, jpeg_color_space, expand, smoothing_factor, planes, scaled, fancy, merged, out_color_space,
          full, output, stage>>

Height == Len(picture)
Width == Len(picture[1])
in_color_space == CASE Len(picture[1][1]) = 1 -> "GRAY" [] Len(picture[1][1]) = 3 -> "RGB" [] OTHER -> "CMYK"
Channels(space) == CASE space = "GRAY" -> 1 [] space \in {"CMYK", "YCCK"} -> 4 [] OTHER -> 3
Comp == 1 .. Channels(jpeg_color_space)
(* Only the chroma components of a luminance and chrominance file are smaller. *)
Expand(i) == IF jpeg_color_space \in {"YCC", "YCCK"} /\ i \in {2, 3} THEN expand ELSE <<1, 1>>
Ceil(a, b) == (a + b - 1) \div b
downsampled_width(i) == Ceil(Width, Expand(i)[1])
output_cols(i) == Ceil(downsampled_width(i), DCTSIZE) * DCTSIZE
BufferWidth == Max({output_cols(i) * Expand(i)[1] : i \in Comp})
Within(x, n) == IF x < 1 THEN 1 ELSE IF x > n THEN n ELSE x

-----------------------------------------------------------------------------
(* Both conversions, in fixed point of 16 bits.                               *)
RIGHT_SHIFT(x) == x \div 65536
ONE_HALF == 32768
Luma(r, g, b) == RIGHT_SHIFT(19595 * r + 38470 * g + 7471 * b + ONE_HALF)
Cb(r, g, b) == RIGHT_SHIFT(-11059 * r - 21709 * g + 32768 * b + CENTERJSAMPLE * 65536 + ONE_HALF - 1)
Cr(r, g, b) == RIGHT_SHIFT(32768 * r - 27439 * g - 5329 * b + CENTERJSAMPLE * 65536 + ONE_HALF - 1)
rgb_ycc_convert(p) == <<Luma(p[1], p[2], p[3]), Cb(p[1], p[2], p[3]), Cr(p[1], p[2], p[3])>>
rgb_gray_convert(p) == <<Luma(p[1], p[2], p[3])>>
cmyk_ycck_convert(p) ==
  Append(rgb_ycc_convert(<<MAXJSAMPLE - p[1], MAXJSAMPLE - p[2], MAXJSAMPLE - p[3]>>), p[4])

Files(space) ==
  CASE space = "GRAY" -> {"GRAY"} [] space = "RGB" -> {"GRAY", "RGB", "YCC"} [] OTHER -> {"CMYK", "YCCK"}
color_convert(p) ==
  CASE in_color_space = "RGB" /\ jpeg_color_space = "YCC" -> rgb_ycc_convert(p)
    [] in_color_space = "RGB" /\ jpeg_color_space = "GRAY" -> rgb_gray_convert(p)
    [] in_color_space = "CMYK" /\ jpeg_color_space = "YCCK" -> cmyk_ycck_convert(p)
    [] OTHER -> p

range_limit(x) == IF x < 0 THEN 0 ELSE IF x > MAXJSAMPLE THEN MAXJSAMPLE ELSE x
(* build_ycc_rgb_table: what the chroma samples add to the luminance.          *)
Chroma(cb, cr) ==
  <<RIGHT_SHIFT(91881 * (cr - CENTERJSAMPLE) + ONE_HALF),
    RIGHT_SHIFT(-22554 * (cb - CENTERJSAMPLE) - 46802 * (cr - CENTERJSAMPLE) + ONE_HALF),
    RIGHT_SHIFT(116130 * (cb - CENTERJSAMPLE) + ONE_HALF)>>
ycc_rgb_convert(s) ==
  LET c == Chroma(s[2], s[3]) IN <<range_limit(s[1] + c[1]), range_limit(s[1] + c[2]), range_limit(s[1] + c[3])>>
ycck_cmyk_convert(s) ==
  LET c == Chroma(s[2], s[3])
  IN <<range_limit(MAXJSAMPLE - (s[1] + c[1])), range_limit(MAXJSAMPLE - (s[1] + c[2])),
       range_limit(MAXJSAMPLE - (s[1] + c[3])), s[4]>>

Shown(space) ==
  CASE space = "GRAY" -> {"GRAY", "RGB"} [] space = "YCC" -> {"GRAY", "RGB", "YCC"}
    [] space = "YCCK" -> {"CMYK", "YCCK"} [] OTHER -> {space}
deconvert(s) ==
  CASE out_color_space = "RGB" /\ jpeg_color_space = "YCC" -> ycc_rgb_convert(s)
    [] out_color_space = "RGB" /\ jpeg_color_space = "GRAY" -> <<s[1], s[1], s[1]>>
    [] out_color_space = "GRAY" -> <<s[1]>>
    [] out_color_space = "CMYK" /\ jpeg_color_space = "YCCK" -> ycck_cmyk_convert(s)
    [] OTHER -> s

-----------------------------------------------------------------------------
(* A mutant: the buffer's right edge is left as it is.                         *)
JunkEdge(rows, cols) ==
  [y \in DOMAIN rows |-> [x \in 1 .. cols |-> IF x <= Width THEN rows[y][x] ELSE Junk]]

(* A row is made as wide as the blocks need by its last sample.               *)
expand_right_edge(rows, cols) ==
  [y \in DOMAIN rows |-> [x \in 1 .. cols |-> IF x <= Width THEN rows[y][x] ELSE rows[y][Width]]]

SumIn(rows, ys, xs) ==
  LET column(x) == MapThenSumSet(LAMBDA y : rows[y][x], ys) IN MapThenSumSet(column, xs)
int_downsample(rows, h, v, cols) ==
  [y \in 1 .. Height \div v |-> [x \in 1 .. cols |->
     (SumIn(rows, (y - 1) * v + 1 .. y * v, (x - 1) * h + 1 .. x * h) + (h * v) \div 2) \div (h * v)]]
(* The rounding goes up and down in turn along a row.                          *)
Turn(x, a, b) == IF x % 2 = 1 THEN a ELSE b
h2v1_downsample(rows, cols) ==
  [y \in 1 .. Height |-> [x \in 1 .. cols |-> (rows[y][2 * x - 1] + rows[y][2 * x] + Turn(x, 0, 1)) \div 2]]
h2v2_downsample(rows, cols) ==
  [y \in 1 .. Height \div 2 |-> [x \in 1 .. cols |->
     (SumIn(rows, {2 * y - 1, 2 * y}, {2 * x - 1, 2 * x}) + Turn(x, 1, 2)) \div 4]]

(* The smoothing filters, with the rows above and below: at the ends of a row  *)
(* the sample beyond is taken to be the last.                                 *)
h2v2_smooth_downsample(rows, cols) ==
  LET at(y, x) == rows[Within(y, Height)][Within(x, 2 * cols)]
      out(y, x) ==
        LET members == SumIn(rows, {y, y + 1}, {x, x + 1})
            beside == at(y - 1, x) + at(y - 1, x + 1) + at(y + 2, x) + at(y + 2, x + 1)
                      + at(y, x - 1) + at(y, x + 2) + at(y + 1, x - 1) + at(y + 1, x + 2)
            corners == at(y - 1, x - 1) + at(y - 1, x + 2) + at(y + 2, x - 1) + at(y + 2, x + 2)
        IN (members * (16384 - smoothing_factor * 80) + (2 * beside + corners) * smoothing_factor * 16 + 32768) \div 65536
  IN [y \in 1 .. Height \div 2 |-> [x \in 1 .. cols |-> out(2 * y - 1, 2 * x - 1)]]
fullsize_smooth_downsample(rows, cols) ==
  LET at(y, x) == rows[Within(y, Height)][Within(x, cols)]
      column(y, x) == at(y - 1, x) + at(y, x) + at(y + 1, x)
      out(y, x) ==
        LET neighsum == column(y, x - 1) + (column(y, x) - at(y, x)) + column(y, x + 1)
        IN (at(y, x) * (65536 - smoothing_factor * 512) + neighsum * smoothing_factor * 64 + 32768) \div 65536
  IN [y \in 1 .. Height |-> [x \in 1 .. cols |-> out(y, x)]]

downsample(i) ==
  LET h == Expand(i)[1]
      v == Expand(i)[2]
      cols == output_cols(i)
      rows == expand_right_edge(planes[i], cols * h)
  IN CASE Expand(i) = <<1, 1>> /\ smoothing_factor # 0 -> fullsize_smooth_downsample(rows, cols)
       [] Expand(i) = <<1, 1>> /\ smoothing_factor = 0 -> rows
       [] Expand(i) = <<2, 1>> -> h2v1_downsample(rows, cols)
       [] Expand(i) = <<2, 2>> /\ smoothing_factor # 0 -> h2v2_smooth_downsample(rows, cols)
       [] Expand(i) = <<2, 2>> /\ smoothing_factor = 0 -> h2v2_downsample(rows, cols)
       [] OTHER -> int_downsample(rows, h, v, cols)

-----------------------------------------------------------------------------
(* Simple replication, or interpolation between the centres of the samples.    *)
int_upsample(rows, h, v) ==
  [y \in 1 .. Height |-> [x \in 1 .. Width |-> rows[Ceil(y, v)][Ceil(x, h)]]]
h2v1_fancy_upsample(rows, width) ==
  LET left(r, c) == IF c = 1 THEN r[1] ELSE (r[c] * 3 + r[c - 1] + 1) \div 4
      right(r, c) == IF c = width THEN r[width] ELSE (r[c] * 3 + r[c + 1] + 2) \div 4
  IN [y \in 1 .. Height |-> [x \in 1 .. Width |->
        IF x % 2 = 1 THEN left(rows[y], Ceil(x, 2)) ELSE right(rows[y], Ceil(x, 2))]]
h2v2_fancy_upsample(rows, width) ==
  LET near(y) == Ceil(y, 2)
      far(y) == Within(IF y % 2 = 1 THEN near(y) - 1 ELSE near(y) + 1, Height \div 2)
      colsum(y, c) == rows[near(y)][c] * 3 + rows[far(y)][c]
      left(y, c) == IF c = 1 THEN (colsum(y, 1) * 4 + 8) \div 16
                    ELSE (colsum(y, c) * 3 + colsum(y, c - 1) + 8) \div 16
      right(y, c) == IF c = width THEN (colsum(y, width) * 4 + 7) \div 16
                     ELSE (colsum(y, c) * 3 + colsum(y, c + 1) + 7) \div 16
  IN [y \in 1 .. Height |-> [x \in 1 .. Width |->
        IF x % 2 = 1 THEN left(y, Ceil(x, 2)) ELSE right(y, Ceil(x, 2))]]

(* A component too narrow to interpolate is replicated.                        *)
upsample(i) ==
  LET wide == fancy /\ downsampled_width(i) > 2
  IN CASE Expand(i) = <<2, 1>> /\ wide -> h2v1_fancy_upsample(scaled[i], downsampled_width(i))
       [] Expand(i) = <<2, 2>> /\ wide -> h2v2_fancy_upsample(scaled[i], downsampled_width(i))
       [] OTHER -> int_upsample(scaled[i], Expand(i)[1], Expand(i)[2])

(* h2v1_merged_upsample and h2v2_merged_upsample: the chroma of two or four    *)
(* pixels is worked out once.                                                 *)
use_merged_upsample(smooth, space) ==
  ~smooth /\ jpeg_color_space = "YCC" /\ space = "RGB" /\ expand \in {<<2, 1>>, <<2, 2>>}
merged_upsample(y, x) ==
  LET c == Chroma(scaled[2][Ceil(y, expand[2])][Ceil(x, 2)], scaled[3][Ceil(y, expand[2])][Ceil(x, 2)])
      luma == scaled[1][y][x]
  IN <<range_limit(luma + c[1]), range_limit(luma + c[2]), range_limit(luma + c[3])>>

-----------------------------------------------------------------------------
Init ==
  /\ picture \in Pictures /\ jpeg_color_space \in Files(in_color_space)
  /\ expand \in Expansions /\ (jpeg_color_space \notin {"YCC", "YCCK"} => expand = <<1, 1>>)
  /\ smoothing_factor \in Smoothing
  /\ planes = <<>> /\ scaled = <<>> /\ full = <<>> /\ output = <<>>
  /\ fancy = FALSE /\ merged = FALSE /\ out_color_space = "GRAY" /\ stage = "convert"

ColorConvert ==
  /\ stage = "convert" /\ stage' = "downsample"
  /\ planes' = [i \in Comp |-> [y \in 1 .. Height |-> [x \in 1 .. BufferWidth |->
                  IF x <= Width THEN color_convert(picture[y][x])[i] ELSE Junk]]]
  /\ UNCHANGED <<picture, jpeg_color_space, expand, smoothing_factor, scaled, fancy, merged, out_color_space, full, output>>
sep_downsample ==
  /\ stage = "downsample" /\ stage' = "start"
  /\ scaled' = [i \in Comp |-> downsample(i)]
  /\ UNCHANGED <<picture, jpeg_color_space, expand, smoothing_factor, planes, fancy, merged, out_color_space, full, output>>
StartOutput ==
  /\ stage = "start" /\ stage' = "upsample"
  /\ fancy' \in BOOLEAN /\ out_color_space' \in Shown(jpeg_color_space)
  /\ merged' = use_merged_upsample(fancy', out_color_space')
  /\ UNCHANGED <<picture, jpeg_color_space, expand, smoothing_factor, planes, scaled, full, output>>
sep_upsample ==
  /\ stage = "upsample" /\ ~merged /\ stage' = "deconvert"
  /\ full' = [i \in Comp |-> upsample(i)]
  /\ UNCHANGED <<picture, jpeg_color_space, expand, smoothing_factor, planes, scaled, fancy, merged, out_color_space, output>>
ColorDeconvert ==
  /\ stage = "deconvert" /\ stage' = "done"
  /\ output' = [y \in 1 .. Height |-> [x \in 1 .. Width |-> deconvert([i \in Comp |-> full[i][y][x]])]]
  /\ UNCHANGED <<picture, jpeg_color_space, expand, smoothing_factor, planes, scaled, fancy, merged, out_color_space, full>>
MergedUpsample ==
  /\ stage = "upsample" /\ merged /\ stage' = "done"
  /\ output' = [y \in 1 .. Height |-> [x \in 1 .. Width |-> merged_upsample(y, x)]]
  /\ UNCHANGED <<picture, jpeg_color_space, expand, smoothing_factor, planes, scaled, fancy, merged, out_color_space, full>>

Next == ColorConvert \/ sep_downsample \/ StartOutput \/ sep_upsample \/ ColorDeconvert \/ MergedUpsample
Spec == Init /\ [][Next]_vars

-----------------------------------------------------------------------------
Magnitude(x) == IF x < 0 THEN -x ELSE x
Close(p, q) == \A i \in DOMAIN p : Magnitude(p[i] - q[i]) <= 2
Plain == \A y \in 1 .. Height, x \in 1 .. Width : picture[y][x] = picture[1][1]
Exact == \A i \in Comp : Expand(i) = <<1, 1>>

(* A picture comes back with its colours wherever nothing had to be averaged,  *)
(* to its last column and row, in any file and to any output of its kind; what *)
(* is averaged and interpolated stays between the samples around it, so the    *)
(* junk beyond the picture's edge is never seen; and doing two steps at once   *)
(* shows the picture that one after the other shows (jccolor.c, jcsample.c,     *)
(* jdsample.c, jdcolor.c, jdmerge.c).                                          *)
PictureComesBack ==
  /\ stage = "done" /\ out_color_space = in_color_space /\ jpeg_color_space # "GRAY"
       /\ (Plain \/ (Exact /\ smoothing_factor = 0))
       => \A y \in 1 .. Height, x \in 1 .. Width : Close(output[y][x], picture[y][x])
  /\ stage = "deconvert" =>
       \A i \in Comp, y \in 1 .. Height, x \in 1 .. Width :
         LET around == {planes[i][v][u] : v \in Within(y - 4, Height) .. Within(y + 4, Height),
                                          u \in Within(x - 4, Width) .. Within(x + 4, Width)}
         IN Min(around) <= full[i][y][x] /\ full[i][y][x] <= Max(around)
  /\ stage = "done" /\ merged =>
       \A y \in 1 .. Height, x \in 1 .. Width :
         output[y][x] = deconvert([i \in Comp |-> int_upsample(scaled[i], Expand(i)[1], Expand(i)[2])[y][x]])
=============================================================================
