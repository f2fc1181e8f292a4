--------------------------- MODULE JpegDecompress ----------------------------
(* The decompression object of the bundled IJG library as its application      *)
(* sees it: the calls of jdapimin.c, jdapistd.c and jdtrans.c, the master      *)
(* control (jdmaster.c), the output half of the coefficient controller with    *)
(* its block smoothing (jdcoefct.c), the main buffer and its pointer lists     *)
(* (jdmainct.c), the postprocessing controller (jdpostct.c) and the two        *)
(* upsamplers' row bookkeeping (jdsample.c, jdmerge.c).  A sample row is known *)
(* by the blocks it was made from, and a scanline by its component rows.       *)
EXTENDS JpegInput

VARIABLES global_state, output_scanline, output_iMCU_row,
          master,   \* the choices of jdmaster.c, jddctmgr.c and jdcoefct.c for this image and pass
          main, ups, post,                   \* main buffer, upsampler, postprocessing controller
          rows,     \* what the last call delivered
          passes    \* output passes the application began

outputVars == <<output_scanline, output_iMCU_row, master, main, ups, post>>
vars == <<job, stream, inputVars, call, failed, global_state, outputVars, rows, passes>>

-----------------------------------------------------------------------------
(* default_decompress_parms: the colour space the file is taken to have.       *)
ids == [c \in DOMAIN frame.comp_info |-> frame.comp_info[c].id]
jpeg_color_space ==
  CASE Len(ids) = 1 -> "GRAYSCALE"
    [] Len(ids) = 3 -> IF frame.JFIF THEN "YCbCr"
                       ELSE IF frame.Adobe = 0 \/ (frame.Adobe = -1 /\ ids = <<82, 71, 66>>) THEN "RGB"
                       ELSE "YCbCr"
    [] Len(ids) = 4 -> IF frame.Adobe \in {-1, 0} THEN "CMYK" ELSE "YCCK"
    [] OTHER -> "UNKNOWN"

(* jpeg_calc_output_dimensions and jinit_color_deconverter: only a grey image  *)
(* made from a coloured one leaves components out.                             *)
min_DCT_scaled_size == job.size
out_color_space == IF job.grey THEN "GRAYSCALE"
                   ELSE IF jpeg_color_space \in {"YCbCr", "RGB"} THEN "RGB" ELSE jpeg_color_space
component_needed(c) == job.grey => c = 1
out_color_components ==
  CASE out_color_space = "GRAYSCALE" -> 1
    [] out_color_space = "RGB" -> 3
    [] OTHER -> Len(ids)
(* The quantizer with two passes works for three components only.              *)
quantizer == IF job.quant = "2pass" /\ out_color_components # 3 THEN "1pass" ELSE job.quant
output_height == jdiv_round_up(frame.image_height * min_DCT_scaled_size, DCTSIZE)

(* A component is scaled less than the image when the IDCT can so spare its    *)
(* upsampling.  size[c] is DCT_scaled_size.                                    *)
scaled_sizes ==
  LET M == min_DCT_scaled_size
  IN [c \in DOMAIN ids |->
       LET k == geom.comps[c]
       IN Max({s \in {M, 2 * M, 4 * M, 8 * M} :
            s = M \/ (s <= DCTSIZE /\ k.h * s <= geom.max_h * M /\ k.v * s <= geom.max_v * M)})]

use_merged_upsample(size) ==
  LET factors == [c \in DOMAIN ids |-> <<geom.comps[c].h, geom.comps[c].v>>]
  IN /\ ~job.fancy /\ jpeg_color_space = "YCbCr" /\ Len(ids) = 3 /\ out_color_space = "RGB"
     /\ factors[1] \in {<<2, 1>>, <<2, 2>>} /\ factors[2] = <<1, 1>> /\ factors[3] = <<1, 1>>
     /\ \A c \in DOMAIN ids : size[c] = min_DCT_scaled_size

(* jinit_upsampler: the method of a component, by the rows and columns of a    *)
(* row group before and after.                                                 *)
upsample_method(size, c) ==
  LET k == geom.comps[c]
      v_in_group == (k.v * size[c]) \div min_DCT_scaled_size
      h_in_group == (k.h * size[c]) \div min_DCT_scaled_size
      width == jdiv_round_up(frame.image_width * k.h * size[c], geom.max_h * DCTSIZE)
      fancy == job.fancy /\ min_DCT_scaled_size > 1 /\ width > 2
  IN IF ~component_needed(c) THEN "noop"
     ELSE IF h_in_group = geom.max_h /\ v_in_group = geom.max_v THEN "fullsize"
     ELSE IF h_in_group * 2 = geom.max_h /\ v_in_group * 2 = geom.max_v /\ fancy THEN "h2v2_fancy"
     ELSE IF geom.max_h % h_in_group = 0 /\ geom.max_v % v_in_group = 0 THEN "replicate"
     ELSE "FRACT_SAMPLE_NOTIMPL"

(* What is worked out once for the image.                                      *)
output_dimensions(size) ==
  [size |-> size, merged |-> use_merged_upsample(size),
   methods |-> [c \in DOMAIN ids |-> upsample_method(size, c)],
   rgroup |-> [c \in DOMAIN ids |-> (geom.comps[c].v * size[c]) \div min_DCT_scaled_size],
   downsampled_height |-> [c \in DOMAIN ids |->
     jdiv_round_up(frame.image_height * geom.comps[c].v * size[c], geom.max_v * DCTSIZE)]]
need_context_rows_out(dim) ==
  job.mode # "raw" /\ ~dim.merged /\ \E c \in DOMAIN ids : dim.methods[c] = "h2v2_fancy"

DCT_scaled_size(c) == master.dim.size[c]
rgroup(c) == master.dim.rgroup[c]
method(c) == master.dim.methods[c]
downsampled_height(c) == master.dim.downsampled_height[c]
iMCUheight(c) == geom.comps[c].v * DCT_scaled_size(c)

-----------------------------------------------------------------------------
(* The output half of the coefficient controller.  A sample row is a function  *)
(* from block columns to cells: the place of the block it came from, the line  *)
(* of the block, what the block had absorbed, the block rows above and below   *)
(* that smoothed it and the scans all its neighbours had absorbed, and whether *)
(* the inverse DCT had a table for the component (without one all is grey).    *)
NoCell == [at |-> <<>>, line |-> -1, got |-> {}, near |-> <<>>, table |-> FALSE]
Cell(place, line, got, near) ==
  [at |-> place, line |-> line, got |-> got, near |-> near, table |-> place[1] \in master.tables]

Grid(c, y, x) == [j \in 0 .. y - 1 |-> [i \in 0 .. x - 1 |-> {}]]
new_arrays(g) ==
  [c \in DOMAIN ids |-> Grid(c, jround_up(g.comps[c].height_in_blocks, g.comps[c].v),
                                jround_up(g.comps[c].width_in_blocks, g.comps[c].h))]

block_rows(c) ==
  IF output_iMCU_row + 1 < geom.total_iMCU_rows THEN geom.comps[c].v
  ELSE remainder(geom.comps[c].height_in_blocks, geom.comps[c].v)

(* decompress_data: the block row and line behind output row i of component c. *)
BlockRow(c, i) == output_iMCU_row * geom.comps[c].v + i \div DCT_scaled_size(c)
PlainCell(c, y, x, line) == Cell(<<c, y, x>>, line, whole[c][y][x], <<>>)

(* decompress_smooth_data: above the first block row and below the last one    *)
(* the row itself stands in, and so it is at the left and the right.           *)
scans_of(entries) == {e[1] : e \in entries}
SmoothCell(c, y, x, line) ==
  LET first == output_iMCU_row * geom.comps[c].v
      Clamp(n, high) == IF n < 0 THEN 0 ELSE AtMost(n, high)
      above == IF output_iMCU_row = 0 /\ y = first THEN y ELSE y - 1
      below == IF output_iMCU_row + 1 = geom.total_iMCU_rows /\ y + 1 = first + block_rows(c)
               THEN y ELSE y + 1
      last == geom.comps[c].width_in_blocks - 1
      around == {<<yy, xx>> : yy \in {above, y, below}, xx \in {Clamp(x - 1, last), x, Clamp(x + 1, last)}}
      common == {n \in 1 .. input_scan_number :
                   \A p \in around : n \in scans_of(whole[c][p[1]][p[2]])}
  IN Cell(<<c, y, x>>, line, whole[c][y][x], <<above, below, common>>)

(* Whether the input has not come far enough for the row to be put out.        *)
must_wait_row_early ==
  \/ input_scan_number < output_scan_number
  \/ /\ input_scan_number = output_scan_number
     /\ icoef.input_iMCU_row < output_iMCU_row
must_wait ==
  IF master.smoothing
  THEN /\ input_scan_number <= output_scan_number /\ ~inputctl.eoi_reached
       /\ input_scan_number = output_scan_number =>
            icoef.input_iMCU_row <= output_iMCU_row + (IF scan.Ss = 0 THEN 1 ELSE 0)
  ELSE \/ input_scan_number < output_scan_number
       \/ /\ input_scan_number = output_scan_number
          /\ icoef.input_iMCU_row <= output_iMCU_row

smoothing_ok ==
  /\ frame.progressive
  /\ DOMAIN frame.comp_info \subseteq latched
  /\ \A c \in DOMAIN frame.comp_info : entropy.coef_bits[c][0] >= 0
  /\ \E c \in DOMAIN frame.comp_info, k \in 1 .. AtMost(5, LastCoef) : entropy.coef_bits[c][k] # 0

-----------------------------------------------------------------------------
(* jinit_d_main_controller: the sample rows of each component.                 *)
new_buffer(dim, context) ==
  [c \in DOMAIN ids |->
    [i \in 0 .. dim.rgroup[c] * (min_DCT_scaled_size + IF context THEN 2 ELSE 0) - 1 |->
      [x \in 0 .. geom.comps[c].width_in_blocks - 1 |-> NoCell]]]

(* make_funny_pointers: two lists of pointers to the rows of a buffer that     *)
(* holds two row groups more than an iMCU row.  In the first list the rows     *)
(* stand in order; in the second the last two groups and the two before them   *)
(* change places.  The group above the first repeats the first row.            *)
make_funny_pointers ==
  LET M == min_DCT_scaled_size
      Second(rg, i) == CASE i >= rg * (M - 2) /\ i < rg * M -> i + 2 * rg
                         [] i >= rg * M -> i - 2 * rg
                         [] OTHER -> i
  IN [w \in 0 .. 1 |-> [c \in DOMAIN ids |->
       LET rg == rgroup(c)
       IN [i \in -rg .. rg * (M + 3) - 1 |->
            IF i < 0 THEN 0
            ELSE IF i >= rg * (M + 2) THEN 0
            ELSE IF w = 0 THEN i
            ELSE Second(rg, i)]]]

(* set_wraparound_pointers, once the image's top is past: above and below the  *)
(* buffer lie the rows of the iMCU rows before and after.                      *)
set_wraparound_pointers(xbuffer) ==
  LET M == min_DCT_scaled_size
  IN [w \in 0 .. 1 |-> [c \in DOMAIN ids |->
       LET rg == rgroup(c)
           x == xbuffer[w][c]
       IN [i \in DOMAIN x |-> CASE i < 0 -> x[i + rg * (M + 2)]
                                [] i >= rg * (M + 2) -> x[i - rg * (M + 2)]
                                [] OTHER -> x[i]]]]

(* set_bottom_pointers: below the last real row of a component it is repeated. *)
rows_left(c) == remainder(downsampled_height(c), iMCUheight(c))
set_bottom_pointers(xbuffer, w) ==
  [xbuffer EXCEPT ![w] = [c \in DOMAIN ids |->
     [i \in DOMAIN @[c] |->
        IF i >= rows_left(c) /\ i < rows_left(c) + 2 * rgroup(c) THEN @[c][rows_left(c) - 1]
        ELSE @[c][i]]]]
bottom_rowgroups == ((rows_left(1) - 1) \div rgroup(1)) + 1

start_pass_main(m) ==
  [m EXCEPT !.buffer_full = FALSE, !.rowgroup_ctr = 0, !.whichptr = 0,
            !.context_state = "PREPARE_FOR_IMCU", !.iMCU_row_ctr = 0, !.crank = FALSE,
            !.xbuffer = IF m.context THEN make_funny_pointers ELSE <<>>]

(* Row i of component c as the list in use gives it.                           *)
Ptr(c, i) == IF main.context THEN main.xbuffer[main.whichptr][c][i] ELSE i
RowAt(c, i) == main.buffer[c][Ptr(c, i)]

(* Output rows 0 .. count - 1 of component c are written where the list in use *)
(* points, from the cells CellAt(c, row, column) gives.                        *)
Written(c, count, CellAt(_, _, _)) ==
  [r \in DOMAIN main.buffer[c] |->
     LET to == {i \in 0 .. count - 1 : Ptr(c, i) = r}
     IN IF to = {} THEN main.buffer[c][r]
        ELSE [x \in DOMAIN main.buffer[c][r] |-> CellAt(c, Max(to), x)]]

StoredCell(c, i, x) ==
  IF master.smoothing THEN SmoothCell(c, BlockRow(c, i), x, i % DCT_scaled_size(c))
  ELSE PlainCell(c, BlockRow(c, i), x, i % DCT_scaled_size(c))

-----------------------------------------------------------------------------
(* Decompressing one row of iMCUs for the caller: decompress_data and          *)
(* decompress_smooth_data wait for the input first; decompress_onepass decodes *)
(* the MCUs itself, and suspends only between two of them.                     *)
InCall(pc) == call.pc = pc /\ failed = NoError
Goes(pc) == call' = [call EXCEPT !.pc = pc] /\ UNCHANGED failed
ConsumeThen(pc) == call' = [call EXCEPT !.pc = "input", !.then = pc] /\ UNCHANGED failed
LibraryOnly == UNCHANGED <<job, stream, rows, passes>>

wait_for_input ==
  /\ InCall("decompress") /\ icoef.full /\ must_wait
  /\ ConsumeThen("decompress")
  /\ LibraryOnly /\ UNCHANGED <<inputVars, global_state, outputVars>>

decompress_data ==
  /\ InCall("decompress") /\ icoef.full /\ ~must_wait
  /\ main' = [main EXCEPT !.buffer = [c \in DOMAIN ids |->
       IF component_needed(c) THEN Written(c, block_rows(c) * DCT_scaled_size(c), StoredCell)
       ELSE @[c]]]
  /\ output_iMCU_row' = output_iMCU_row + 1
  /\ Goes("decompressed")
  /\ LibraryOnly
  /\ UNCHANGED <<inputVars, global_state, output_scanline, master, ups, post>>

(* The blocks of an MCU go to the rows of their component; blocks past the     *)
(* right or the bottom edge are dropped.                                       *)
useful_width(i) ==
  IF EndOfRow THEN scan.cur[i].last_col_width ELSE scan.cur[i].MCU_width
Useful(n) ==
  LET p == Places[n]
      i == CHOOSE j \in DOMAIN scan.comps : scan.comps[j] = p[1]
  IN /\ component_needed(p[1])
     /\ p[3] - icoef.MCU_ctr * scan.cur[i].MCU_width < useful_width(i)
     /\ LastIMCURow => p[2] - icoef.input_iMCU_row * geom.comps[p[1]].v < scan.cur[i].last_row_height

OutputMCU(entries) ==
  LET Into(c, r, x) ==
        {n \in DOMAIN entries : Useful(n) /\ Places[n][1] = c /\ Places[n][3] = x
           /\ \E line \in 0 .. DCT_scaled_size(c) - 1 :
                Ptr(c, (Places[n][2] - icoef.input_iMCU_row * geom.comps[c].v) * DCT_scaled_size(c)
                       + line) = r}
      LineOf(c, r, y) ==
        CHOOSE line \in 0 .. DCT_scaled_size(c) - 1 :
          Ptr(c, (y - icoef.input_iMCU_row * geom.comps[c].v) * DCT_scaled_size(c) + line) = r
  IN [c \in DOMAIN ids |-> [r \in DOMAIN main.buffer[c] |-> [x \in DOMAIN main.buffer[c][r] |->
       IF Into(c, r, x) = {} THEN main.buffer[c][r][x]
       ELSE LET n == Max(Into(c, r, x))
            IN Cell(Places[n], LineOf(c, r, Places[n][2]), entries[n], <<>>)]]]

OnePass == InCall("decompress") /\ ~icoef.full

decompress_onepass ==
  /\ OnePass /\ ~RestartDue
  /\ \E mcu \in decode_mcu :
       MCUDone(mcu) /\ main' = [main EXCEPT !.buffer = OutputMCU(mcu.entries)]
  /\ icoef' = IF EndOfIMCURow THEN NextIMCURow ELSE NextPosition
  /\ inputctl' = IF EndOfIMCURow /\ LastIMCURow THEN finish_input_pass ELSE inputctl
  /\ output_iMCU_row' = IF EndOfIMCURow THEN output_iMCU_row + 1 ELSE output_iMCU_row
  /\ IF EndOfIMCURow THEN Goes("decompressed") ELSE StaysIn
  /\ LibraryOnly
  /\ UNCHANGED <<frame, tables, sos, input_scan_number, output_scan_number, geom, scan, latched,
                 whole, global_state, output_scanline, master, ups, post>>

onepass_restart ==
  /\ OnePass
  /\ find_restart \/ process_restart
  /\ StaysIn /\ LibraryOnly
  /\ UNCHANGED <<frame, tables, sos, input_scan_number, output_scan_number, inputctl, geom, scan,
                 latched, icoef, whole, global_state, outputVars>>

onepass_refused ==
  /\ job.suspends /\ OnePass /\ NeedsInput
  /\ call' = NoCall /\ UNCHANGED failed
  /\ LibraryOnly /\ UNCHANGED <<inputVars, global_state, outputVars>>

-----------------------------------------------------------------------------
(* Upsampling: one row group at a time into at most avail scanlines.  Every    *)
(* method is a row of the component, with the neighbour the smoothing method   *)
(* mixes into it; color_buf holds what was upsampled last, except for a row    *)
(* taken as it is.  upsample returns the state after it and the scanlines.     *)
NoRow == <<>>
GroupRow(c, group, r) ==
  LET i == group * rgroup(c) + (r * rgroup(c)) \div geom.max_v
  IN CASE method(c) = "noop" -> <<NoRow, NoRow>>
       [] method(c) = "h2v2_fancy" -> <<RowAt(c, i), RowAt(c, IF r % 2 = 0 THEN i - 1 ELSE i + 1)>>
       [] OTHER -> <<RowAt(c, i), NoRow>>

sep_upsample(avail) ==
  LET group == main.rowgroup_ctr
      starts == ups.next_row_out >= geom.max_v
      buf == IF starts THEN [c \in DOMAIN ids |-> [r \in 0 .. geom.max_v - 1 |-> GroupRow(c, group, r)]]
             ELSE [c \in DOMAIN ids |-> [r \in 0 .. geom.max_v - 1 |->
                     IF method(c) = "fullsize" THEN GroupRow(c, group, r) ELSE ups.color_buf[c][r]]]
      next == IF starts THEN 0 ELSE ups.next_row_out
      num_rows == Min({geom.max_v - next, ups.rows_to_go, avail})
  IN [ups |-> [ups EXCEPT !.color_buf = buf, !.rows_to_go = @ - num_rows, !.next_row_out = next + num_rows],
      group |-> IF next + num_rows >= geom.max_v THEN group + 1 ELSE group,
      lines |-> [i \in 1 .. num_rows |-> [c \in DOMAIN ids |-> buf[c][next + i - 1]]]]

(* merged_1v_upsample and merged_2v_upsample: a second row there is no place   *)
(* for is kept as the spare row.                                               *)
merged_upsample(avail) ==
  LET group == main.rowgroup_ctr
      Line(r) == [c \in DOMAIN ids |-> <<RowAt(c, group * rgroup(c) + (r * rgroup(c)) \div geom.max_v), NoRow>>]
      num_rows == Min({geom.max_v, ups.rows_to_go, avail})
      keeps == geom.max_v = 2 /\ num_rows < 2
  IN IF geom.max_v = 1
     THEN [ups |-> ups, group |-> group + 1, lines |-> <<Line(0)>>]
     ELSE IF ups.spare_full
     THEN [ups |-> [ups EXCEPT !.spare_full = FALSE, !.rows_to_go = @ - 1],
           group |-> group + 1, lines |-> <<ups.spare_row>>]
     ELSE [ups |-> [ups EXCEPT !.spare_full = keeps, !.spare_row = IF keeps THEN Line(1) ELSE @,
                               !.rows_to_go = @ - num_rows],
           group |-> IF keeps THEN group ELSE group + 1,
           lines |-> [i \in 1 .. num_rows |-> Line(i - 1)]]

upsample(avail) == IF master.dim.merged THEN merged_upsample(avail) ELSE sep_upsample(avail)

start_pass_upsample ==
  [next_row_out |-> geom.max_v, rows_to_go |-> output_height, color_buf |-> <<>>,
   spare_full |-> FALSE, spare_row |-> NoRow]

-----------------------------------------------------------------------------
(* The postprocessing controller: a pass through, through a strip of rows to   *)
(* the quantizer, into the full image, or out of it.  A result has the states  *)
(* after it, the scanlines put out and their number.                           *)
strip_height == geom.max_v
start_pass_dpost(p, mode) == [p EXCEPT !.mode = mode, !.starting_row = 0, !.next_row = 0]

NextStrip(p, num_rows) ==
  IF p.next_row + num_rows >= strip_height
  THEN [p EXCEPT !.starting_row = @ + strip_height, !.next_row = 0]
  ELSE [p EXCEPT !.next_row = @ + num_rows]

post_process_1pass(avail) ==
  LET up == upsample(IF job.quant = "none" THEN avail ELSE AtMost(avail, strip_height))
  IN [ups |-> up.ups, post |-> post, group |-> up.group, lines |-> up.lines, count |-> Len(up.lines)]

post_process_prepass ==
  LET up == upsample(strip_height - post.next_row)
      at == post.starting_row + post.next_row
      stored == [post EXCEPT !.whole = [i \in DOMAIN @ |->
                   IF i \in at .. at + Len(up.lines) - 1 THEN up.lines[i - at + 1] ELSE @[i]]]
  IN [ups |-> up.ups, post |-> NextStrip(stored, Len(up.lines)), group |-> up.group,
      lines |-> <<>>, count |-> Len(up.lines)]

post_process_2pass(avail) ==
  LET num_rows == Min({strip_height - post.next_row, avail, output_height - post.starting_row})
      at == post.starting_row + post.next_row
  IN [ups |-> ups, post |-> NextStrip(post, num_rows), group |-> main.rowgroup_ctr,
      lines |-> [i \in 1 .. num_rows |-> post.whole[at + i - 1]], count |-> num_rows]

post_process_data ==
  LET avail == call.want - call.out
  IN CASE post.mode = "SAVE_AND_PASS" -> post_process_prepass
       [] post.mode = "CRANK_DEST" -> post_process_2pass(avail)
       [] OTHER -> post_process_1pass(avail)

-----------------------------------------------------------------------------
(* The main controller.  fill: it wants the next row of iMCUs; the others pass *)
(* row groups on, and return at the places process_data_context_main does.     *)
Processing == InCall("process")
ProcessOnly == LibraryOnly /\ UNCHANGED <<inputVars, global_state, output_scanline, output_iMCU_row, master>>
Emits(p, pc) ==
  /\ ups' = p.ups /\ post' = p.post
  /\ call' = [call EXCEPT !.pc = pc, !.got = @ \o p.lines, !.out = @ + p.count]
  /\ UNCHANGED failed

fill ==
  /\ Processing /\ ~main.crank /\ ~main.buffer_full
  /\ Goes("decompress")
  /\ ProcessOnly /\ UNCHANGED <<main, ups, post>>

filled ==
  /\ InCall("decompressed")
  /\ IF call.fn = "read_raw" THEN Goes("raw_done") /\ UNCHANGED main
     ELSE /\ Goes("process")
          /\ main' = [main EXCEPT !.buffer_full = TRUE,
                                  !.iMCU_row_ctr = IF main.context THEN @ + 1 ELSE @]
  /\ ProcessOnly /\ UNCHANGED <<ups, post>>

process_data_crank_post ==
  /\ Processing /\ main.crank
  /\ Emits(post_process_data, "processed")
  /\ ProcessOnly /\ UNCHANGED main

process_data_simple_main ==
  LET p == post_process_data
      done == p.group >= min_DCT_scaled_size
  IN /\ Processing /\ ~main.crank /\ main.buffer_full /\ ~main.context
     /\ Emits(p, "processed")
     /\ main' = [main EXCEPT !.rowgroup_ctr = IF done THEN 0 ELSE p.group, !.buffer_full = ~done]
     /\ ProcessOnly

InContext(state) ==
  Processing /\ ~main.crank /\ main.buffer_full /\ main.context /\ main.context_state = state

postponed_row ==
  LET p == post_process_data
      done == p.group >= main.rowgroups_avail
      full == call.out + p.count >= call.want
  IN /\ InContext("POSTPONED_ROW")
     /\ Emits(p, IF ~done \/ full THEN "processed" ELSE "process")
     /\ main' = [main EXCEPT !.rowgroup_ctr = p.group,
                             !.context_state = IF done THEN "PREPARE_FOR_IMCU" ELSE @]
     /\ ProcessOnly

prepare_for_imcu ==
  LET last == main.iMCU_row_ctr = geom.total_iMCU_rows
  IN /\ InContext("PREPARE_FOR_IMCU")
     /\ main' = [main EXCEPT !.rowgroup_ctr = 0, !.context_state = "PROCESS_IMCU",
                  !.rowgroups_avail = IF last THEN bottom_rowgroups ELSE min_DCT_scaled_size - 1,
                  !.xbuffer = IF last THEN set_bottom_pointers(@, main.whichptr) ELSE @]
     /\ StaysIn /\ ProcessOnly /\ UNCHANGED <<ups, post>>

process_imcu ==
  LET p == post_process_data
      done == p.group >= main.rowgroups_avail
  IN /\ InContext("PROCESS_IMCU")
     /\ Emits(p, "processed")
     /\ main' = IF ~done THEN [main EXCEPT !.rowgroup_ctr = p.group]
                ELSE [main EXCEPT !.xbuffer = IF main.iMCU_row_ctr = 1
                                              THEN set_wraparound_pointers(@) ELSE @,
                                  !.whichptr = 1 - @, !.buffer_full = FALSE,
                                  !.rowgroup_ctr = min_DCT_scaled_size + 1,
                                  !.rowgroups_avail = min_DCT_scaled_size + 2,
                                  !.context_state = "POSTPONED_ROW"]
     /\ ProcessOnly

process_data ==
  \/ fill \/ filled \/ process_data_crank_post \/ process_data_simple_main
  \/ postponed_row \/ prepare_for_imcu \/ process_imcu

-----------------------------------------------------------------------------
(* The calls of the application.                                               *)
NoRows == [first |-> 0, lines |-> <<>>, raw |-> <<>>]
Calls(fn, pc) == call' = [NoCall EXCEPT !.fn = fn, !.pc = pc] /\ UNCHANGED failed
AtApp == call.pc = "app" /\ failed = NoError
ApiOnly == rows' = NoRows /\ UNCHANGED job
ReturnsToApp == call' = NoCall /\ UNCHANGED failed

Init ==
  /\ InputInit
  /\ global_state = "START" /\ output_scanline = 0 /\ output_iMCU_row = 0
  /\ master = [dim |-> <<>>, is_dummy_pass |-> FALSE, colormap |-> FALSE, smoothing |-> FALSE,
               tables |-> {}]
  /\ main = [context |-> FALSE] /\ ups = <<>> /\ post = <<>>
  /\ rows = NoRows /\ passes = 0

(* jpeg_read_header and, below it, jpeg_consume_input: the first call opens    *)
(* the datastream.  The tables read so far stay.                               *)
jpeg_read_header ==
  /\ AtApp /\ global_state \in {"START", "INHEADER"}
  /\ global_state = "START" => stream < Len(job.files)
  /\ IF global_state = "INHEADER" THEN UNCHANGED <<stream, inputVars, passes>>
     ELSE /\ stream' = stream + 1 /\ input' = job.files[stream + 1]
          /\ marker' = reset_marker_reader /\ frame' = NoFrame /\ sos' = [comps |-> <<>>]
          /\ input_scan_number' = 0 /\ output_scan_number' = 0
          /\ inputctl' = reset_input_controller /\ geom' = <<>> /\ scan' = <<>> /\ latched' = {}
          /\ entropy' = [coef_bits |-> <<>>] /\ icoef' = [full |-> FALSE] /\ whole' = <<>>
          /\ passes' = 0
          /\ UNCHANGED tables
  /\ global_state' = "INHEADER"
  /\ call' = [NoCall EXCEPT !.fn = "read_header", !.pc = "input", !.then = "header"]
  /\ ApiOnly /\ UNCHANGED <<failed, outputVars>>

require_image == stream = Len(job.files)
header_read ==
  /\ InCall("header")
  /\ IF call.ret = "REACHED_SOS" THEN global_state' = "READY" /\ ReturnsToApp
     ELSE IF require_image THEN Fail("NO_IMAGE") /\ UNCHANGED global_state
     ELSE global_state' = "START" /\ ReturnsToApp
  /\ LibraryOnly /\ UNCHANGED <<inputVars, outputVars>>

(* jpeg_start_decompress and jpeg_read_coefficients: master_selection.         *)
buffered_image == job.mode = "buffered"
use_c_buffer == inputctl.has_multiple_scans \/ job.mode \in {"buffered", "coefficients"}
master_error(dim) ==
  IF job.mode = "coefficients" THEN NoError
  ELSE IF job.quant # "none" /\ job.mode = "raw" THEN "NOTIMPL"
  ELSE IF dim.merged \/ job.mode = "raw" THEN NoError
  ELSE IF \E c \in DOMAIN ids : dim.methods[c] = "FRACT_SAMPLE_NOTIMPL" THEN "FRACT_SAMPLE_NOTIMPL"
  ELSE IF need_context_rows_out(dim) /\ min_DCT_scaled_size < 2 THEN "NOTIMPL"
  ELSE NoError

master_selection(dim) ==
  LET context == need_context_rows_out(dim)
  IN /\ inputctl' = [inputctl EXCEPT !.consume = "data"]
     /\ start_input_pass(frame, geom, sos, use_c_buffer,
          [c \in DOMAIN ids |-> [k \in 0 .. LastCoef |-> -1]])
     /\ whole' = IF use_c_buffer THEN new_arrays(geom) ELSE <<>>
     /\ master' = [dim |-> dim, is_dummy_pass |-> FALSE, colormap |-> FALSE, smoothing |-> FALSE,
                   tables |-> {}]
     /\ main' = [context |-> context, crank |-> FALSE, buffer_full |-> FALSE, rowgroup_ctr |-> 0,
                 rowgroups_avail |-> 0, whichptr |-> 0, context_state |-> "PREPARE_FOR_IMCU",
                 iMCU_row_ctr |-> 0, xbuffer |-> <<>>, buffer |-> new_buffer(dim, context)]
     /\ post' = [mode |-> "PASS_THRU", starting_row |-> 0, next_row |-> 0,
                 whole |-> IF quantizer = "2pass" THEN [i \in 0 .. output_height - 1 |-> NoRow]
                           ELSE <<>>]
     /\ UNCHANGED <<input, marker, frame, tables, sos, input_scan_number, output_scan_number, geom,
                    output_scanline, output_iMCU_row, ups>>

start_error(dim) ==
  IF master_error(dim) # NoError THEN master_error(dim) ELSE start_input_error(frame, geom, sos)

(* In the state READY the calls that read an image begin with this; it goes on *)
(* at pc in the state next, or returns.                                        *)
begin_image(fn, pc, next) ==
  LET dim == output_dimensions(scaled_sizes)
      error == start_error(dim)
  IN IF error # NoError THEN Fail(error) /\ UNCHANGED <<inputVars, global_state, outputVars>>
     ELSE /\ master_selection(dim) /\ global_state' = next
          /\ IF pc = "app" THEN ReturnsToApp ELSE Calls(fn, pc)
go_on(fn, pc) == Calls(fn, pc) /\ UNCHANGED <<inputVars, global_state, outputVars>>

jpeg_start_decompress ==
  /\ AtApp /\ job.mode # "coefficients"
  /\ \/ /\ global_state = "READY"
        /\ IF buffered_image THEN begin_image("none", "app", "BUFIMAGE")
           ELSE begin_image("start_decompress", "preload", "PRELOAD")
     \/ global_state = "PRELOAD" /\ go_on("start_decompress", "preload")
     \/ global_state = "PRESCAN" /\ ~buffered_image /\ go_on("start_decompress", "setup")
  /\ ApiOnly /\ UNCHANGED <<stream, passes>>

jpeg_read_coefficients ==
  /\ AtApp /\ job.mode = "coefficients"
  /\ \/ global_state = "READY" /\ begin_image("read_coefficients", "read_coefficients", "RDCOEFS")
     \/ global_state = "RDCOEFS" /\ go_on("read_coefficients", "read_coefficients")
  /\ ApiOnly /\ UNCHANGED <<stream, passes>>

preload ==
  /\ InCall("preload")
  /\ IF inputctl.has_multiple_scans /\ call.ret # "REACHED_EOI"
     THEN ConsumeThen("preload") /\ UNCHANGED output_scan_number
     ELSE Goes("pass") /\ output_scan_number' = input_scan_number
  /\ LibraryOnly
  /\ UNCHANGED <<input, marker, frame, tables, sos, input_scan_number, inputctl, geom, scan, latched,
                 entropy, icoef, whole, global_state, outputVars>>

read_coefficients ==
  /\ InCall("read_coefficients")
  /\ IF call.ret # "REACHED_EOI" THEN ConsumeThen("read_coefficients") /\ UNCHANGED global_state
     ELSE ReturnsToApp /\ global_state' = "STOPPING"
  /\ LibraryOnly /\ UNCHANGED <<inputVars, outputVars>>

-----------------------------------------------------------------------------
(* output_pass_setup, with prepare_for_output_pass and finish_output_pass.     *)
begin_pass ==
  LET dummy == quantizer = "2pass" /\ ~master.colormap
  IN /\ master' = [master EXCEPT !.is_dummy_pass = dummy,
                     !.colormap = @ \/ quantizer = "1pass",
                     !.tables = @ \cup {c \in latched : component_needed(c)},
                     !.smoothing = icoef.full /\ job.smooth /\ smoothing_ok]
     /\ output_iMCU_row' = 0
     /\ main' = start_pass_main(main)
     /\ ups' = start_pass_upsample
     /\ post' = start_pass_dpost(post, IF dummy THEN "SAVE_AND_PASS" ELSE "PASS_THRU")

prepare_for_output_pass ==
  /\ InCall("pass")
  /\ begin_pass
  /\ output_scanline' = 0 /\ global_state' = "PRESCAN"
  /\ Goes("setup") /\ LibraryOnly /\ UNCHANGED inputVars

dummy_pass ==
  /\ InCall("setup") /\ master.is_dummy_pass /\ output_scanline < output_height
  /\ call' = [call EXCEPT !.pc = "process", !.want = 0, !.out = output_scanline] /\ UNCHANGED failed
  /\ LibraryOnly /\ UNCHANGED <<inputVars, global_state, outputVars>>

finish_dummy_pass ==
  /\ InCall("setup") /\ master.is_dummy_pass /\ output_scanline >= output_height
  /\ master' = [master EXCEPT !.is_dummy_pass = FALSE, !.colormap = TRUE]
  /\ post' = start_pass_dpost(post, "CRANK_DEST")
  /\ main' = [main EXCEPT !.crank = TRUE]
  /\ output_scanline' = 0
  /\ StaysIn /\ LibraryOnly /\ UNCHANGED <<inputVars, global_state, output_iMCU_row, ups>>

pass_ready ==
  /\ InCall("setup") /\ ~master.is_dummy_pass
  /\ global_state' = IF job.mode = "raw" THEN "RAW_OK" ELSE "SCANNING"
  /\ ReturnsToApp /\ LibraryOnly /\ UNCHANGED <<inputVars, outputVars>>

(* What process_data put out: the call's result, or a part of the dummy pass.  *)
processed ==
  /\ InCall("processed")
  /\ UNCHANGED <<job, stream, passes, inputVars, global_state, output_iMCU_row, master, main, ups, post>>
  /\ IF call.fn = "read_scanlines"
     THEN /\ rows' = [NoRows EXCEPT !.first = output_scanline, !.lines = call.got]
          /\ output_scanline' = output_scanline + call.out /\ ReturnsToApp
     ELSE /\ UNCHANGED rows
          /\ output_scanline' = call.out
          /\ IF call.out = output_scanline THEN ReturnsToApp ELSE Goes("setup")

-----------------------------------------------------------------------------
jpeg_read_scanlines ==
  /\ AtApp /\ global_state = "SCANNING" /\ output_scanline < output_height
  /\ \E n \in 1 .. job.lines :
       call' = [NoCall EXCEPT !.fn = "read_scanlines", !.pc = "process", !.want = n]
  /\ ApiOnly /\ UNCHANGED <<failed, stream, passes, inputVars, global_state, outputVars>>

(* jpeg_read_raw_data puts a whole row of iMCUs where the application says; it *)
(* says the same place when it repeats a call that was suspended.              *)
lines_per_iMCU_row == geom.max_v * min_DCT_scaled_size
jpeg_read_raw_data ==
  /\ AtApp /\ global_state = "RAW_OK" /\ output_scanline < output_height
  /\ Calls("read_raw", "decompress")
  /\ ApiOnly /\ UNCHANGED <<stream, passes, inputVars, global_state, outputVars>>

raw_done ==
  /\ InCall("raw_done")
  /\ rows' = [first |-> output_scanline, lines |-> <<>>, raw |-> main.buffer]
  /\ output_scanline' = output_scanline + lines_per_iMCU_row
  /\ ReturnsToApp
  /\ UNCHANGED <<job, stream, passes, inputVars, global_state, output_iMCU_row, master, main, ups, post>>

jpeg_start_output ==
  /\ AtApp /\ buffered_image /\ global_state \in {"BUFIMAGE", "PRESCAN"} /\ passes < job.passes
  /\ \E target \in job.targets :
       LET number == IF target <= 0 THEN 1 ELSE target
       IN output_scan_number' = IF inputctl.eoi_reached THEN clamped_output_scan(number) ELSE number
  /\ Calls("start_output", IF global_state = "PRESCAN" THEN "setup" ELSE "pass")
  /\ passes' = passes + 1
  /\ ApiOnly
  /\ UNCHANGED <<stream, input, marker, frame, tables, sos, input_scan_number, inputctl, geom, scan,
                 latched, entropy, icoef, whole, global_state, outputVars>>

jpeg_finish_output ==
  /\ AtApp /\ buffered_image /\ global_state \in {"SCANNING", "BUFPOST"}
  /\ global_state = "SCANNING" => output_scanline >= output_height \/ job.early
  /\ global_state' = "BUFPOST"
  /\ Calls("finish_output", "finish_output")
  /\ ApiOnly /\ UNCHANGED <<stream, passes, inputVars, outputVars>>

finish_output ==
  /\ InCall("finish_output")
  /\ IF input_scan_number <= output_scan_number /\ ~inputctl.eoi_reached
     THEN ConsumeThen("finish_output") /\ UNCHANGED global_state
     ELSE ReturnsToApp /\ global_state' = "BUFIMAGE"
  /\ LibraryOnly /\ UNCHANGED <<inputVars, outputVars>>

jpeg_consume_input ==
  /\ AtApp /\ job.eager /\ ~inputctl.eoi_reached
  /\ global_state \in {"PRELOAD", "PRESCAN", "SCANNING", "RAW_OK", "BUFIMAGE", "BUFPOST", "STOPPING"}
  /\ call' = [NoCall EXCEPT !.fn = "consume_input", !.pc = "input", !.then = "app"]
  /\ ApiOnly /\ UNCHANGED <<failed, stream, passes, inputVars, global_state, outputVars>>

(* jpeg_finish_decompress reads to the end of the file; the abort after it     *)
(* keeps nothing but the tables.  jpeg_abort may come at any time.             *)
jpeg_finish_decompress ==
  /\ AtApp
  /\ \/ global_state \in {"SCANNING", "RAW_OK"} /\ ~buffered_image /\ output_scanline >= output_height
     \/ global_state = "BUFIMAGE" /\ (passes = job.passes \/ job.early)
     \/ global_state = "STOPPING"
  /\ global_state' = "STOPPING"
  /\ Calls("finish", "finish")
  /\ ApiOnly /\ UNCHANGED <<stream, passes, inputVars, outputVars>>

finish ==
  /\ InCall("finish")
  /\ IF ~inputctl.eoi_reached THEN ConsumeThen("finish") /\ UNCHANGED global_state
     ELSE ReturnsToApp /\ global_state' = "START"
  /\ LibraryOnly /\ UNCHANGED <<inputVars, outputVars>>

jpeg_abort ==
  /\ AtApp /\ job.early /\ global_state # "START"
  /\ global_state' = "START" /\ ReturnsToApp
  /\ ApiOnly /\ UNCHANGED <<stream, passes, inputVars, outputVars>>

-----------------------------------------------------------------------------
Application ==
  \/ jpeg_read_header \/ jpeg_start_decompress \/ jpeg_read_coefficients
  \/ jpeg_read_scanlines \/ jpeg_read_raw_data
  \/ jpeg_start_output \/ jpeg_finish_output \/ jpeg_finish_decompress

Input ==
  /\ ReadsInput
  /\ UNCHANGED <<job, stream, global_state, outputVars, rows, passes>>
InputReturns ==
  /\ consume_after_eoi \/ dummy_consume_data
  /\ UNCHANGED <<job, stream, global_state, outputVars, rows, passes>>
SourceRefuses ==
  \/ fill_input_buffer_refuses /\ UNCHANGED <<job, stream, global_state, outputVars, rows, passes>>
  \/ onepass_refused

Reads == Input \/ decompress_onepass \/ onepass_restart
Library ==
  \/ InputReturns \/ header_read \/ preload \/ read_coefficients \/ prepare_for_output_pass
  \/ dummy_pass \/ finish_dummy_pass \/ pass_ready \/ processed \/ process_data
  \/ wait_for_input \/ decompress_data \/ raw_done \/ finish_output \/ finish

Next == Application \/ jpeg_consume_input \/ jpeg_abort \/ Reads \/ SourceRefuses \/ Library

(* A library call runs on; a source that refuses now and then delivers in the  *)
(* end; the application goes on with the image, whatever else it calls.        *)
Spec ==
  /\ Init /\ [][Next]_vars
  /\ WF_vars(Library) /\ SF_vars(Reads) /\ SF_vars(Application)

-----------------------------------------------------------------------------
(* The properties.  job.survives says of each datastream which <<scan, place>> *)
(* its undamaged segments carry, job.intact whether that is all of them.       *)
Surviving == job.survives[stream]

(* A block holds what was made for its place, and something made up only where *)
(* the data made for it is lost.                                               *)
RightPlace(place, entries) ==
  \A e \in entries : e = <<e[1], place>> \/ (e = Junk(e[1]) /\ <<e[1], place>> \notin Surviving)
BroughtUpTo(number, place, entries) ==
  \A e \in Surviving : e[2] = place /\ e[1] <= number => e \in entries

(* A row of component c as the image has it, and what a pass owes it: every    *)
(* scan up to the one it shows, and in a smoothed pass every DC scan up to     *)
(* that one in the blocks around.                                              *)
DCScans(c) == {n \in DOMAIN job.im[stream].scan_info :
                 job.im[stream].scan_info[n].Ss = 0 /\ c \in ToSet(job.im[stream].scan_info[n].comps)}
RightCell(cell, c, row, x) ==
  LET y == row \div DCT_scaled_size(c)
      last == geom.comps[c].height_in_blocks - 1
  IN /\ cell.at = <<c, y, x>> /\ cell.line = row % DCT_scaled_size(c)
     /\ RightPlace(cell.at, cell.got)
     /\ BroughtUpTo(output_scan_number, cell.at, cell.got)
     /\ cell.near # <<>> /\ job.intact =>
          /\ cell.near[1] = (IF y = 0 THEN 0 ELSE y - 1) /\ cell.near[2] = (IF y = last THEN y ELSE y + 1)
          /\ \A n \in DCScans(c) : n <= output_scan_number => n \in cell.near[3]
RightRow(samples, c, row) ==
  \A x \in 0 .. geom.comps[c].width_in_blocks - 1 : RightCell(samples[x], c, row, x)

(* The component row behind scanline n, and the other row a smoothing upsampler*)
(* mixes in: the nearest one above or below, within the component.             *)
OwnRow(c, n) == (n * rgroup(c)) \div geom.max_v
OtherRow(c, n) ==
  LET other == IF n % 2 = 0 THEN OwnRow(c, n) - 1 ELSE OwnRow(c, n) + 1
  IN IF other < 0 THEN 0 ELSE AtMost(other, downsampled_height(c) - 1)

RightScanline(line, n) ==
  \A c \in DOMAIN ids : component_needed(c) =>
    /\ RightRow(line[c][1], c, OwnRow(c, n))
    /\ line[c][2] # NoRow => RightRow(line[c][2], c, OtherRow(c, n))

(* What the application gets is its image: each scanline, and each row of raw  *)
(* data, is made of the component rows that belong there, of blocks that have  *)
(* absorbed what the file has for them up to the scan the pass shows.          *)
RowsComplete ==
  /\ \A i \in DOMAIN rows.lines : RightScanline(rows.lines[i], rows.first + i - 1)
  /\ rows.raw # <<>> =>
       \A c \in DOMAIN ids, i \in 0 .. geom.max_v * min_DCT_scaled_size - 1 :
         LET row == (rows.first \div lines_per_iMCU_row) * iMCUheight(c) + i
         IN i < iMCUheight(c) /\ row < geom.comps[c].height_in_blocks * DCT_scaled_size(c) =>
              RightRow(rows.raw[c][i], c, row)

(* Damage stays where it is: a restart marker brings everything after it back  *)
(* to its place, and at the end of the file every block has absorbed all that  *)
(* the undamaged segments carry for it (jpeg_resync_to_restart).               *)
SurvivorsInPlace ==
  whole # <<>> =>
    \A c \in DOMAIN whole : \A y \in DOMAIN whole[c] : \A x \in DOMAIN whole[c][y] :
      /\ RightPlace(<<c, y, x>>, whole[c][y][x])
      /\ inputctl.eoi_reached => BroughtUpTo(input_scan_number, <<c, y, x>>, whole[c][y][x])

(* An application that goes on reading comes to the end of its files, or is    *)
(* told why not, whatever the file holds and however often the source or a     *)
(* short buffer interrupts it.                                                 *)
DecoderEnds ==
  <>[](failed # NoError \/ (call.pc = "app" /\ global_state = "START" /\ stream = Len(job.files)))

(* libjpeg.doc: a pass started for a scan that has not begun waits for it and  *)
(* shows it.  A component that has data is not put out grey.                   *)
ShownCell(cell) == cell.got # {} => cell.table
TargetShown ==
  \A i \in DOMAIN rows.lines : \A c \in DOMAIN ids : component_needed(c) =>
    \A x \in DOMAIN rows.lines[i][c][1] : ShownCell(rows.lines[i][c][1][x])
=============================================================================
