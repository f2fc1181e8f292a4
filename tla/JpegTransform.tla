--------------------------- MODULE JpegTransform ---------------------------
(***************************************************************************)
(* Lossless transformation of a coded image (jpegtran.c, transupp.c,         *)
(* jctrans.c): the coefficient blocks of the source are moved, transposed    *)
(* and negated into a workspace, and the tables, factors and markers of the  *)
(* file are changed to agree with them.  Only whole iMCUs can be mirrored:   *)
(* what is left at the right or the bottom stays, or is trimmed off.         *)
(***************************************************************************)
EXTENDS Integers, Sequences, TLC

CONSTANTS
  DCTSIZE,     \* 8; an even number
  Sizes,       \* bound: <<width, height>> of the sources
  Samplings,   \* bound: of each component <<horizontal, vertical>> factor
  MarkerLists  \* bound: the APPn and COM markers of the sources

Transforms == {"NONE", "FLIP_H", "FLIP_V", "TRANSPOSE", "TRANSVERSE", "ROT_90", "ROT_180", "ROT_270"}
Transposing == {"TRANSPOSE", "TRANSVERSE", "ROT_90", "ROT_270"}

VARIABLES
  src,   \* srcinfo: size, factors, coefficients and table of each component, markers, component ids
  info,  \* transform, trim, force_grayscale, copyoption
  dst,   \* dstinfo
  stage
vars == <<src, info, dst, stage>>

-----------------------------------------------------------------------------
Ceil(a, b) == (a + b - 1) \div b
MaxOver(s, k) == IF \E i \in DOMAIN s : s[i][k] = 2 THEN 2 ELSE 1
InBlocks(length, factor, most) == Ceil(length * factor, most * DCTSIZE)
Index == 0 .. DCTSIZE - 1
Coef == Index \X Index

width_in_blocks(f, i) == InBlocks(f.width, f.factors[i][1], MaxOver(f.factors, 1))
height_in_blocks(f, i) == InBlocks(f.height, f.factors[i][2], MaxOver(f.factors, 2))
RoundUp(n, to) == Ceil(n, to) * to
(* The array of a component, whole iMCUs: the blocks by row and column.       *)
Places(f, i) == (0 .. RoundUp(height_in_blocks(f, i), f.factors[i][2]) - 1)
                \X (0 .. RoundUp(width_in_blocks(f, i), f.factors[i][1]) - 1)

(* Which colour space a reader takes a file to have.                           *)
Has(markers, m) == \E k \in DOMAIN markers : markers[k] = m
default_decompress_parms(markers, components, ids) ==
  CASE components = 1 -> "GRAY"
    [] components = 3 -> IF Has(markers, "JFIF") \/ Has(markers, "Adobe1") THEN "YCC"
                         ELSE IF Has(markers, "Adobe0") \/ ids = "RGB" THEN "RGB" ELSE "YCC"
    [] components = 4 -> IF Has(markers, "Adobe2") THEN "YCCK" ELSE "CMYK"
Space(f) == default_decompress_parms(f.markers, Len(f.factors), f.ids)

(* Every coefficient and every divisor of the source is another number.        *)
Picture(size, factors, markers, ids) ==
  LET f == [width |-> size[1], height |-> size[2], factors |-> factors]
      coef(i, p, c) == i + 5 * (c[1] * DCTSIZE + c[2] + DCTSIZE * DCTSIZE * (p[1] * 16 + p[2]))
  IN f @@ [markers |-> markers, ids |-> ids,
           coefs |-> [i \in DOMAIN factors |-> [p \in Places(f, i) |-> [c \in Coef |-> coef(i, p, c)]]],
           quant |-> [c \in Coef |-> 1 + c[1] + 3 * c[2]]]

Nothing == [width |-> 0]
Init ==
  /\ \E size \in Sizes, factors \in Samplings, markers \in MarkerLists, ids \in {"123", "RGB"} :
       src = Picture(size, factors, markers, ids)
  /\ info \in [transform : Transforms, trim : BOOLEAN, force_grayscale : BOOLEAN, copyoption : {"NONE", "COMMENTS", "ALL"}]
  /\ dst = Nothing
  /\ stage = "read"

-----------------------------------------------------------------------------
(* jpeg_copy_critical_parameters, then jtransform_adjust_parameters.           *)
TransposedTable(q) == [c \in Coef |-> q[<<c[2], c[1]>>]]
jpeg_set_colorspace(space) ==
  [space |-> space, write_JFIF_header |-> space \in {"GRAY", "YCC"}, write_Adobe_marker |-> space \in {"RGB", "CMYK", "YCCK"}]
jpeg_copy_critical_parameters ==
  jpeg_set_colorspace(Space(src))
  @@ [width |-> src.width, height |-> src.height, factors |-> src.factors, quant |-> src.quant, ids |-> src.ids]
jtransform_gray(d) ==
  IF info.force_grayscale THEN jpeg_set_colorspace("GRAY") @@ [factors |-> <<<<1, 1>>>>] @@ d ELSE d
transpose_critical_parameters(d) ==
  [width |-> d.height, height |-> d.width, factors |-> [i \in DOMAIN d.factors |-> <<d.factors[i][2], d.factors[i][1]>>],
   quant |-> TransposedTable(d.quant)] @@ d
Whole(length, most) == (length \div (most * DCTSIZE)) * (most * DCTSIZE)
Trimmed(length, most) == IF Whole(length, most) > 0 THEN Whole(length, most) ELSE length
trim_right_edge(d) == [width |-> Trimmed(d.width, MaxOver(d.factors, 1))] @@ d
trim_bottom_edge(d) == [height |-> Trimmed(d.height, MaxOver(d.factors, 2))] @@ d

MirrorsColumns == info.transform \in {"FLIP_H", "TRANSVERSE", "ROT_90", "ROT_180"}
MirrorsRows == info.transform \in {"FLIP_V", "TRANSVERSE", "ROT_180", "ROT_270"}
Turned(d) == IF info.transform \in Transposing THEN transpose_critical_parameters(d) ELSE d
CutRight(d) == IF info.trim /\ MirrorsColumns THEN trim_right_edge(d) ELSE d
CutBottom(d) == IF info.trim /\ MirrorsRows THEN trim_bottom_edge(d) ELSE d

jtransform_adjust_parameters ==
  /\ stage = "read"
  /\ IF info.force_grayscale /\ Space(src) \notin {"YCC", "GRAY"}
     THEN stage' = "error" /\ UNCHANGED dst
     ELSE /\ dst' = CutBottom(CutRight(Turned(jtransform_gray(jpeg_copy_critical_parameters))))
          /\ stage' = "adjusted"
  /\ UNCHANGED <<src, info>>

-----------------------------------------------------------------------------
(* jpeg_write_coefficients writes the header; then the saved markers follow.   *)
Saved(m) == \/ info.copyoption = "ALL"
            \/ info.copyoption = "COMMENTS" /\ m = "Com"
Adobe == {"Adobe0", "Adobe1", "Adobe2"}
Copied(m) == Saved(m) /\ ~(dst.write_JFIF_header /\ m = "JFIF") /\ ~(dst.write_Adobe_marker /\ m \in Adobe)
write_file_header ==
  (IF dst.write_JFIF_header THEN <<"JFIF">> ELSE <<>>)
  \o (IF dst.write_Adobe_marker THEN <<IF dst.space = "YCCK" THEN "Adobe2" ELSE "Adobe0">> ELSE <<>>)
jcopy_markers_execute ==
  /\ stage = "adjusted"
  /\ dst' = dst @@ [markers |-> write_file_header \o SelectSeq(src.markers, Copied)]
  /\ stage' = "headed"
  /\ UNCHANGED <<src, info>>

-----------------------------------------------------------------------------
(* The blocks.  A mirror image negates the odd coefficients across.            *)
NegCols(b) == [c \in Coef |-> IF c[2] % 2 = 1 THEN -b[c] ELSE b[c]]
NegRows(b) == [c \in Coef |-> IF c[1] % 2 = 1 THEN -b[c] ELSE b[c]]
Transposed(b) == [c \in Coef |-> b[<<c[2], c[1]>>]]

MCU_cols == dst.width \div (MaxOver(dst.factors, 1) * DCTSIZE)
MCU_rows == dst.height \div (MaxOver(dst.factors, 2) * DCTSIZE)
comp_width(i) == MCU_cols * dst.factors[i][1]
comp_height(i) == MCU_rows * dst.factors[i][2]

(* A mutant: a block in the middle is not visited.                             *)
FlipOuter(i, s) ==
  LET visited == {x \in 0 .. comp_width(i) : x * 2 + 1 < comp_width(i)}
      partner(x) == comp_width(i) - x - 1
  IN [p \in Places(dst, i) |-> IF p[2] \in visited \/ partner(p[2]) \in visited THEN NegCols(s[<<p[1], partner(p[2])>>]) ELSE s[p]]

(* In place: of each pair of blocks the left one is visited.                   *)
do_flip_h(i, s) ==
  LET visited == {x \in 0 .. comp_width(i) : x * 2 < comp_width(i)}
      partner(x) == comp_width(i) - x - 1
  IN [p \in Places(dst, i) |-> IF p[2] \in visited \/ partner(p[2]) \in visited THEN NegCols(s[<<p[1], partner(p[2])>>]) ELSE s[p]]

(* The rows of an iMCU row are taken from the one across, in reverse.          *)
RowAcross(i, y) ==
  LET v == dst.factors[i][2] offset == y % v IN (comp_height(i) - (y - offset) - v) + (v - offset - 1)
do_flip_v(i, s) ==
  [p \in Places(dst, i) |-> IF p[1] < comp_height(i) THEN NegRows(s[<<RowAcross(i, p[1]), p[2]>>]) ELSE s[p]]
do_rot_180(i, s) ==
  LET col(x) == comp_width(i) - x - 1
      block(y, x) == CASE y < comp_height(i) /\ x < comp_width(i) -> NegRows(NegCols(s[<<RowAcross(i, y), col(x)>>]))
                       [] y < comp_height(i) /\ x >= comp_width(i) -> NegRows(s[<<RowAcross(i, y), x>>])
                       [] y >= comp_height(i) /\ x < comp_width(i) -> NegCols(s[<<y, col(x)>>])
                       [] OTHER -> s[<<y, x>>]
  IN [p \in Places(dst, i) |-> block(p[1], p[2])]
do_transpose(i, s) == [p \in Places(dst, i) |-> Transposed(s[<<p[2], p[1]>>])]
do_rot_90(i, s) ==
  [p \in Places(dst, i) |-> IF p[2] < comp_width(i) THEN NegCols(Transposed(s[<<comp_width(i) - p[2] - 1, p[1]>>]))
                            ELSE Transposed(s[<<p[2], p[1]>>])]
do_rot_270(i, s) ==
  [p \in Places(dst, i) |-> IF p[1] < comp_height(i) THEN NegRows(Transposed(s[<<p[2], comp_height(i) - p[1] - 1>>]))
                            ELSE Transposed(s[<<p[2], p[1]>>])]
do_transverse(i, s) ==
  LET row(y) == comp_height(i) - y - 1 col(x) == comp_width(i) - x - 1
      block(y, x) == CASE y < comp_height(i) /\ x < comp_width(i) -> NegRows(NegCols(Transposed(s[<<col(x), row(y)>>])))
                       [] y < comp_height(i) /\ x >= comp_width(i) -> NegRows(Transposed(s[<<x, row(y)>>]))
                       [] y >= comp_height(i) /\ x < comp_width(i) -> NegCols(Transposed(s[<<col(x), y>>]))
                       [] OTHER -> Transposed(s[<<x, y>>])
  IN [p \in Places(dst, i) |-> block(p[1], p[2])]

Moved(i, s) ==
  CASE info.transform = "NONE" -> s
    [] info.transform = "FLIP_H" -> do_flip_h(i, s)
    [] info.transform = "FLIP_V" -> do_flip_v(i, s)
    [] info.transform = "TRANSPOSE" -> do_transpose(i, s)
    [] info.transform = "TRANSVERSE" -> do_transverse(i, s)
    [] info.transform = "ROT_90" -> do_rot_90(i, s)
    [] info.transform = "ROT_180" -> do_rot_180(i, s)
    [] info.transform = "ROT_270" -> do_rot_270(i, s)
jtransform_execute_transformation ==
  /\ stage = "headed"
  /\ dst' = dst @@ [coefs |-> [i \in DOMAIN dst.factors |-> Moved(i, src.coefs[i])]]
  /\ stage' = "done"
  /\ UNCHANGED <<src, info>>

Finished == stage \in {"done", "error"} /\ UNCHANGED vars
Next == jtransform_adjust_parameters \/ jcopy_markers_execute \/ jtransform_execute_transformation \/ Finished
Spec == Init /\ [][Next]_vars

-----------------------------------------------------------------------------
(* The samples of a block, by the transform of two samples each way: whether   *)
(* a coefficient counts positively at a place is all that mirroring is about.  *)
Sign(k, n) == IF k % 2 = 1 /\ n = 1 THEN -1 ELSE 1
SampleAt(f, i, y, x) ==
  LET b == f.coefs[i][<<y \div 2, x \div 2>>]
      term(r, c) == Sign(r, y % 2) * Sign(c, x % 2) * b[<<r, c>>] * f.quant[<<r, c>>]
  IN term(0, 0) + term(0, 1) + term(1, 0) + term(1, 1)
(* What is mirrored of a length: the iMCUs it holds whole.                     *)
Across(n, whole) == IF n < whole THEN whole - 1 - n ELSE n

(* transupp.h promises lossless transformation.  Seen as pixels, every         *)
(* component is the source mirrored and transposed as asked, over all its      *)
(* whole iMCUs; the rest stays where it is and is not there when trimming is   *)
(* asked, unless it is the whole picture.  The file keeps its colour space     *)
(* (or is gray), and has one JFIF and one Adobe marker at most, and every      *)
(* other marker that was to be copied.                                         *)
PicturesMoved ==
  stage = "done" =>
    \A i \in DOMAIN dst.factors :
      LET whole(length, k) == (Whole(length, MaxOver(dst.factors, k)) * dst.factors[i][k]) \div MaxOver(dst.factors, k)
          columns == IF MirrorsColumns THEN whole(dst.width, 1) ELSE 0
          rows == IF MirrorsRows THEN whole(dst.height, 2) ELSE 0
      IN \A y \in 0 .. height_in_blocks(dst, i) * 2 - 1, x \in 0 .. width_in_blocks(dst, i) * 2 - 1 :
           LET ys == Across(y, rows) xs == Across(x, columns)
           IN SampleAt(dst, i, y, x)
              = IF info.transform \in Transposing THEN SampleAt(src, i, xs, ys) ELSE SampleAt(src, i, ys, xs)
NoStrips ==
  stage \in {"headed", "done"} /\ info.trim =>
    /\ MirrorsColumns => Whole(dst.width, MaxOver(dst.factors, 1)) \in {0, dst.width}
    /\ MirrorsRows => Whole(dst.height, MaxOver(dst.factors, 2)) \in {0, dst.height}
    /\ dst.width > 0 /\ dst.height > 0
Plain(m) == m \notin Adobe \cup {"JFIF"}
Count(s, ms) == Len(SelectSeq(s, LAMBDA m : m \in ms))
FileAgrees ==
  stage \in {"headed", "done"} =>
    /\ Space(dst) = IF info.force_grayscale THEN "GRAY" ELSE Space(src)
    /\ Count(dst.markers, {"JFIF"}) <= 1 /\ Count(dst.markers, Adobe) <= 1
    /\ info.copyoption = "ALL" => SelectSeq(dst.markers, Plain) = SelectSeq(src.markers, Plain)
TransformIsLossless == PicturesMoved /\ NoStrips /\ FileAgrees
=============================================================================
