------------------------------ MODULE JpegFrame ------------------------------
(* The geometry and the parameters of a JPEG image as the bundled IJG library  *)
(* sets them up: the component sizes and MCU layout of jcmaster.c and          *)
(* jdinput.c, the colour space, quantisation and progression defaults of       *)
(* jcparam.c, the script check of jcmaster.c, and the small helpers of         *)
(* jutils.c.  An image description is a record with the names of               *)
(* jpeg_compress_struct; a component carries h and v for h_samp_factor and     *)
(* v_samp_factor, and a scan names its components by their numbers from 1.     *)
(* The side of a block and the highest coefficient are parameters, so that the *)
(* models of the two controllers can run on blocks of two rows.                *)
EXTENDS Integers, Sequences, FiniteSets, SequencesExt, FiniteSetsExt

CONSTANTS DCTSIZE,          \* rows and columns of a block (8 in the library)
          LastCoef          \* highest coefficient number (DCTSIZE2 - 1, 63)
ASSUME BlockAssumption == DCTSIZE \in Nat \ {0} /\ LastCoef \in Nat

MAX_SAMP_FACTOR == 4
MAX_COMPS_IN_SCAN == 4
MAX_COMPONENTS == 10
C_MAX_BLOCKS_IN_MCU == 10
MAX_AH_AL == 10
NUM_TBLS == 4

jdiv_round_up(a, b) == (a + b - 1) \div b
jround_up(a, b) == jdiv_round_up(a, b) * b
AtMost(a, b) == IF a < b THEN a ELSE b
NoError == "none"

-----------------------------------------------------------------------------
(* initial_setup: the checks on the whole image, then every component.         *)
max_h(im) == Max({im.comp_info[c].h : c \in DOMAIN im.comp_info})
max_v(im) == Max({im.comp_info[c].v : c \in DOMAIN im.comp_info})

initial_setup_error(im) ==
  IF im.image_height <= 0 \/ im.image_width <= 0 \/ im.comp_info = <<>> THEN "EMPTY_IMAGE"
  ELSE IF Len(im.comp_info) > MAX_COMPONENTS THEN "COMPONENT_COUNT"
  ELSE IF \E c \in DOMAIN im.comp_info :
             {im.comp_info[c].h, im.comp_info[c].v} \ (1 .. MAX_SAMP_FACTOR) # {} THEN "BAD_SAMPLING"
  ELSE NoError

initial_setup(im) ==
  LET mh == max_h(im)
      mv == max_v(im)
  IN [max_h |-> mh, max_v |-> mv,
      total_iMCU_rows |-> jdiv_round_up(im.image_height, mv * DCTSIZE),
      comps |-> [c \in DOMAIN im.comp_info |->
        LET k == im.comp_info[c]
        IN [h |-> k.h, v |-> k.v,
            width_in_blocks |-> jdiv_round_up(im.image_width * k.h, mh * DCTSIZE),
            height_in_blocks |-> jdiv_round_up(im.image_height * k.v, mv * DCTSIZE),
            downsampled_width |-> jdiv_round_up(im.image_width * k.h, mh),
            downsampled_height |-> jdiv_round_up(im.image_height * k.v, mv)]]]

-----------------------------------------------------------------------------
(* validate_script.  last_bitpos of a coefficient before scan n is the Al of   *)
(* the last earlier scan that sent it, or -1.                                  *)
progressive(im) ==
  /\ im.scan_info # <<>>
  /\ im.scan_info[1].Ss # 0 \/ im.scan_info[1].Se # LastCoef

Sent(scans, n, c, k) ==
  {i \in 1 .. n - 1 : c \in ToSet(scans[i].comps) /\ k \in scans[i].Ss .. scans[i].Se}
last_bitpos(scans, n, c, k) ==
  LET before == Sent(scans, n, c, k) IN IF before = {} THEN -1 ELSE scans[Max(before)].Al

GoodComponents(scan, ncomps) ==
  /\ Len(scan.comps) \in 1 .. MAX_COMPS_IN_SCAN
  /\ \A i \in DOMAIN scan.comps : scan.comps[i] \in 1 .. ncomps
  /\ \A i \in 2 .. Len(scan.comps) : scan.comps[i] > scan.comps[i - 1]

GoodProgressiveScan(scans, n) ==
  LET s == scans[n]
  IN /\ s.Ss \in 0 .. LastCoef /\ s.Se \in s.Ss .. LastCoef
     /\ s.Ah \in 0 .. MAX_AH_AL /\ s.Al \in 0 .. MAX_AH_AL
     /\ IF s.Ss = 0 THEN s.Se = 0 ELSE Len(s.comps) = 1
     /\ \A c \in ToSet(s.comps) :
          /\ s.Ss # 0 => last_bitpos(scans, n, c, 0) >= 0
          /\ \A k \in s.Ss .. s.Se :
               LET last == last_bitpos(scans, n, c, k)
               IN IF last < 0 THEN s.Ah = 0 ELSE s.Ah = last /\ s.Al = s.Ah - 1

GoodSequentialScan(scans, n) ==
  LET s == scans[n]
  IN /\ s.Ss = 0 /\ s.Se = LastCoef /\ s.Ah = 0 /\ s.Al = 0
     /\ \A c \in ToSet(s.comps) : Sent(scans, n, c, 0) = {}

validate_script_error(im) ==
  LET scans == im.scan_info
      ncomps == Len(im.comp_info)
      bad == {n \in DOMAIN scans :
                \/ ~GoodComponents(scans[n], ncomps)
                \/ progressive(im) /\ ~GoodProgressiveScan(scans, n)
                \/ ~progressive(im) /\ ~GoodSequentialScan(scans, n)}
  IN IF bad # {} THEN "BAD_SCAN_SCRIPT"
     ELSE IF \E c \in 1 .. ncomps : Sent(scans, Len(scans) + 1, c, 0) = {} THEN "MISSING_DATA"
     ELSE NoError

-----------------------------------------------------------------------------
(* select_scan_parameters: the scan of the script, or the only one.            *)
select_scan_parameters(im, scan_number) ==
  IF im.scan_info # <<>> THEN im.scan_info[scan_number + 1]
  ELSE [comps |-> [c \in DOMAIN im.comp_info |-> c],
        Ss |-> 0, Se |-> LastCoef, Ah |-> 0, Al |-> 0]

(* per_scan_setup: MCU layout of a scan of components sc.comps.                *)
remainder(n, d) == IF n % d = 0 THEN d ELSE n % d

per_scan_setup(im, geom, sc) ==
  LET lone == Len(sc.comps) = 1
      first == geom.comps[sc.comps[1]]
      across == IF lone THEN first.width_in_blocks
                ELSE jdiv_round_up(im.image_width, geom.max_h * DCTSIZE)
  IN [comps |-> sc.comps, Ss |-> sc.Ss, Se |-> sc.Se, Ah |-> sc.Ah, Al |-> sc.Al,
      MCUs_per_row |-> across,
      MCU_rows_in_scan |-> IF lone THEN first.height_in_blocks
                           ELSE jdiv_round_up(im.image_height, geom.max_v * DCTSIZE),
      cur |-> [i \in DOMAIN sc.comps |->
        LET k == geom.comps[sc.comps[i]]
        IN IF lone
           THEN [MCU_width |-> 1, MCU_height |-> 1, last_col_width |-> 1,
                 last_row_height |-> remainder(k.height_in_blocks, k.v)]
           ELSE [MCU_width |-> k.h, MCU_height |-> k.v,
                 last_col_width |-> remainder(k.width_in_blocks, k.h),
                 last_row_height |-> remainder(k.height_in_blocks, k.v)]],
      restart_interval |-> IF im.restart_in_rows > 0
                           THEN AtMost(im.restart_in_rows * across, 65535)
                           ELSE im.restart_interval]

blocks_in_MCU(scan) ==
  FoldSeq(LAMBDA k, n : n + k.MCU_width * k.MCU_height, 0, scan.cur)

per_scan_setup_error(im, sc) ==
  IF Len(sc.comps) \notin 1 .. MAX_COMPS_IN_SCAN THEN "COMPONENT_COUNT"
  ELSE IF /\ Len(sc.comps) > 1
          /\ blocks_in_MCU(per_scan_setup(im, initial_setup(im), sc)) > C_MAX_BLOCKS_IN_MCU
            THEN "BAD_MCU_SIZE"
  ELSE NoError

-----------------------------------------------------------------------------
(* jinit_downsampler: which components can be downsampled, and whether the     *)
(* method of component c sees a row above and a row below the ones it averages *)
SamplingHandled(im, c) == max_h(im) % im.comp_info[c].h = 0 /\ max_v(im) % im.comp_info[c].v = 0
Smooths(im, c) ==
  LET k == im.comp_info[c]
  IN /\ im.smoothing
     /\ \/ k.h = max_h(im) /\ k.v = max_v(im)
        \/ k.h * 2 = max_h(im) /\ k.v * 2 = max_v(im)
need_context_rows(im) == \E c \in DOMAIN im.comp_info : Smooths(im, c)

-----------------------------------------------------------------------------
(* jpeg_set_colorspace and jpeg_default_colorspace.                            *)
Comp(id, h, v, quant, tbl) == [id |-> id, h |-> h, v |-> v, quant |-> quant, dc |-> tbl, ac |-> tbl]

jpeg_set_colorspace(colorspace, input_components) ==
  CASE colorspace = "GRAYSCALE" ->
         [comp_info |-> <<Comp(1, 1, 1, 0, 0)>>, jfif |-> TRUE, adobe |-> FALSE]
    [] colorspace = "RGB" ->
         [comp_info |-> <<Comp(82, 1, 1, 0, 0), Comp(71, 1, 1, 0, 0), Comp(66, 1, 1, 0, 0)>>,
          jfif |-> FALSE, adobe |-> TRUE]
    [] colorspace = "YCbCr" ->
         [comp_info |-> <<Comp(1, 2, 2, 0, 0), Comp(2, 1, 1, 1, 1), Comp(3, 1, 1, 1, 1)>>,
          jfif |-> TRUE, adobe |-> FALSE]
    [] colorspace = "CMYK" ->
         [comp_info |-> [i \in 1 .. 4 |-> Comp(<<67, 77, 89, 75>>[i], 1, 1, 0, 0)],
          jfif |-> FALSE, adobe |-> TRUE]
    [] colorspace = "YCCK" ->
         [comp_info |-> <<Comp(1, 2, 2, 0, 0), Comp(2, 1, 1, 1, 1),
                          Comp(3, 1, 1, 1, 1), Comp(4, 2, 2, 0, 0)>>,
          jfif |-> FALSE, adobe |-> TRUE]
    [] colorspace = "UNKNOWN" ->
         [comp_info |-> [i \in 1 .. input_components |-> Comp(i - 1, 1, 1, 0, 0)],
          jfif |-> FALSE, adobe |-> FALSE]

jpeg_default_colorspace(in_color_space) ==
  IF in_color_space = "RGB" THEN "YCbCr" ELSE in_color_space

-----------------------------------------------------------------------------
(* jpeg_simple_progression and its helpers.                                    *)
fill_a_scan(c, Ss, Se, Ah, Al) == <<[comps |-> <<c>>, Ss |-> Ss, Se |-> Se, Ah |-> Ah, Al |-> Al]>>
fill_scans(ncomps, Ss, Se, Ah, Al) ==
  [c \in 1 .. ncomps |-> fill_a_scan(c, Ss, Se, Ah, Al)[1]]
fill_dc_scans(ncomps, Ah, Al) ==
  IF ncomps <= MAX_COMPS_IN_SCAN
  THEN <<[comps |-> [c \in 1 .. ncomps |-> c], Ss |-> 0, Se |-> 0, Ah |-> Ah, Al |-> Al]>>
  ELSE fill_scans(ncomps, 0, 0, Ah, Al)

(* split is the last coefficient of the low band, 5 in the library.            *)
jpeg_simple_progression(ncomps, colorspace, split) ==
  IF ncomps = 3 /\ colorspace = "YCbCr"
  THEN fill_dc_scans(ncomps, 0, 1) \o fill_a_scan(1, 1, split, 0, 2)
       \o fill_a_scan(3, 1, LastCoef, 0, 1) \o fill_a_scan(2, 1, LastCoef, 0, 1)
       \o fill_a_scan(1, split + 1, LastCoef, 0, 2) \o fill_a_scan(1, 1, LastCoef, 2, 1)
       \o fill_dc_scans(ncomps, 1, 0)
       \o fill_a_scan(3, 1, LastCoef, 1, 0) \o fill_a_scan(2, 1, LastCoef, 1, 0)
       \o fill_a_scan(1, 1, LastCoef, 1, 0)
  ELSE fill_dc_scans(ncomps, 0, 1) \o fill_scans(ncomps, 1, split, 0, 2)
       \o fill_scans(ncomps, split + 1, LastCoef, 0, 2) \o fill_scans(ncomps, 1, LastCoef, 2, 1)
       \o fill_dc_scans(ncomps, 1, 0) \o fill_scans(ncomps, 1, LastCoef, 1, 0)

(* The space jpeg_simple_progression reserves for the script it writes.        *)
nscans(ncomps, colorspace) ==
  IF ncomps = 3 /\ colorspace = "YCbCr" THEN 10
  ELSE IF ncomps > MAX_COMPS_IN_SCAN THEN 6 * ncomps
  ELSE 2 + 4 * ncomps

-----------------------------------------------------------------------------
(* jpeg_quality_scaling, and one entry of the table jpeg_add_quant_table makes *)
jpeg_quality_scaling(quality) ==
  LET q == IF quality <= 0 THEN 1 ELSE AtMost(quality, 100)
  IN IF q < 50 THEN 5000 \div q ELSE 200 - q * 2

quantval(basic, scale_factor, force_baseline) ==
  LET raw == (basic * scale_factor + 50) \div 100
      kept == IF raw <= 0 THEN 1 ELSE AtMost(raw, 32767)
  IN IF force_baseline THEN AtMost(kept, 255) ELSE kept
=============================================================================
