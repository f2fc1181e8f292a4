---------------------------- MODULE JpegCompress -----------------------------
(* The compression object of the IJG library bundled with ScreenCaptureJpeg:   *)
(* the calls an application makes (jcapimin.c, jcapistd.c, jctrans.c), the     *)
(* master control that orders the passes (jcmaster.c), the row buffers         *)
(* (jcmainct.c, jcprepct.c), the coefficient controller (jccoefct.c), the      *)
(* bookkeeping of the entropy coders (jchuff.c, jcphuff.c) and the markers.    *)
(* One action is one call, one turn of a buffering loop, one MCU or one change *)
(* of pass; the destination may refuse an MCU, and the call then returns.      *)
EXTENDS JpegMarkers

CONSTANTS Images,      \* the images the application may compress, with their parameters
          Later,       \* those of them it may compress after another one
          MaxImages,   \* how many it compresses with one object
          Suspends     \* whether the destination may refuse output

VARIABLES cinfo, global_state, next_scanline, tables, \* jpeg_compress_struct
          geom, scan,        \* what initial_setup and per_scan_setup derived
          master, prep, main, coef, entropy,          \* the controllers
          last_restart_interval,                      \* of the marker writer
          out,               \* the stream of this image: what the destination accepted
          call,              \* the library call in progress, and its local variables
          delivered,         \* the last stream that was finished
          known,             \* tables the receiver of the finished streams has
          failed,            \* the error the last call ended with
          synced,            \* the application gave no image up since it sent all tables
          images             \* how many images were begun

control == <<master, prep, main, coef, entropy>>
vars == <<cinfo, global_state, next_scanline, tables, geom, scan, control,
          last_restart_interval, out, call, delivered, known, failed, synced, images>>
history == <<delivered, known, synced, images>>

(* The abstract writer of JpegStream: the tables and the application's markers *)
(* are not part of its stream, and an object that waits writes no image.       *)
Token(k) == IF k.t = "MCU" THEN [t |-> "MCU", blocks |-> k.blocks] ELSE k
Core(toks) ==
  LET kept == SelectSeq(toks, LAMBDA k : k.t \notin {"DQT", "DHT", "COM"})
  IN [i \in DOMAIN kept |-> Token(kept[i])]
NoImage == [image_height |-> 0]
ExpectedStreams == [im \in Images |-> Expected(im)]
Stream == INSTANCE JpegStream
            WITH Streams <- ExpectedStreams, image <- IF global_state = "START" THEN NoImage ELSE cinfo,
                 file <- IF global_state = "START" THEN <<>> ELSE Core(out),
                 finished <- Core(delivered)
NoCall == [pc |-> "app", rows |-> 0, ctr |-> 0, row |-> 0, col |-> 0, data |-> <<>>]
NoControl == [pass_type |-> "none"]

Init ==
  /\ cinfo = NoImage /\ global_state = "START" /\ next_scanline = 0
  /\ tables = jpeg_alloc_tables /\ geom = <<>> /\ scan = <<>>
  /\ master = NoControl /\ prep = NoControl /\ main = NoControl
  /\ coef = NoControl /\ entropy = NoControl
  /\ last_restart_interval = 0 /\ out = <<>> /\ call = NoCall
  /\ delivered = <<>> /\ known = jpeg_alloc_tables /\ failed = NoError
  /\ synced = FALSE /\ images = 0

Idle == call.pc = "app" /\ failed = NoError
Fail(error) == failed' = error /\ call' = NoCall

-----------------------------------------------------------------------------
(* jpeg_set_defaults and the parameters the application sets after it.         *)
MayBegin(im) == Idle /\ global_state = "START" /\ images < MaxImages /\ (images > 0 => im \in Later)

SetParameters(im) ==
  /\ MayBegin(im)
  /\ cinfo' = im
  /\ tables' = std_huff_tables(jpeg_set_quality(tables, im.quality))
  /\ UNCHANGED <<global_state, next_scanline, geom, scan, control, last_restart_interval,
                 out, call, failed, history>>

-----------------------------------------------------------------------------
(* The controllers' start_pass methods and the entropy coder's methods.        *)
num_scans(im) == IF im.scan_info = <<>> THEN 1 ELSE Len(im.scan_info)
optimized(im) == im.optimize_coding \/ progressive(im)

(* What an application may ask for: tables by numbers there are; and, unless   *)
(* the library makes the Huffman tables itself, of those the two that          *)
(* jpeg_set_defaults fills.  Sizes, sampling factors and scripts may be wrong. *)
WellFormed(im) ==
  /\ im.image_height \in Nat /\ im.image_width \in Nat
  /\ im.comp_info \in Seq([id : Nat, h : Int, v : Int, quant : Slots, dc : Slots, ac : Slots])
  /\ im.scan_info \in Seq([comps : Seq(Int), Ss : Int, Se : Int, Ah : Int, Al : Int])
  /\ im.restart_interval \in Nat /\ im.restart_in_rows \in Nat
  /\ {im.jfif, im.adobe, im.optimize_coding, im.smoothing, im.raw_data_in, im.transcode} \subseteq BOOLEAN
  /\ ~optimized(im) => \A c \in DOMAIN im.comp_info : {im.comp_info[c].dc, im.comp_info[c].ac} \subseteq {0, 1}
ASSUME ImagesAssumption == \A im \in Images : WellFormed(im)

master_control(im, transcode_only) ==
  [pass_type |-> IF ~transcode_only THEN "main_pass"
                   ELSE IF optimized(im) THEN "huff_opt_pass"
                   ELSE "output_pass",
   scan_number |-> 0, pass_number |-> 0, call_pass_startup |-> FALSE, is_last_pass |-> FALSE,
   total_passes |-> IF optimized(im) THEN num_scans(im) * 2 ELSE num_scans(im)]

start_pass_prep(im) ==
  [rows_to_go |-> im.image_height, next_buf_row |-> 0, this_row_group |-> 0,
   next_buf_stop |-> 2 * max_v(im), color_buf |-> <<>>]

start_pass_main(im) ==
  [cur_iMCU_row |-> 0, rowgroup_ctr |-> 0, suspended |-> FALSE,
   buffer |-> [c \in DOMAIN im.comp_info |-> <<>>]]

rows_per_iMCU_row(sc, g, n) ==
  IF Len(sc.comps) > 1 THEN 1
  ELSE IF n < g.total_iMCU_rows - 1 THEN g.comps[sc.comps[1]].v
  ELSE sc.cur[1].last_row_height

start_iMCU_row(co, sc, g, n) ==
  [co EXCEPT !.iMCU_row_num = n, !.mcu_ctr = 0, !.MCU_vert_offset = 0,
             !.MCU_rows_per_iMCU_row = rows_per_iMCU_row(sc, g, n)]

start_pass_coef(co, sc, g, mode) == [start_iMCU_row(co, sc, g, 0) EXCEPT !.mode = mode]

(* The Huffman tables a scan codes its blocks with.                            *)
CodingTables(im, sc) ==
  ToSet(ScanTables(im, sc))

start_pass_entropy(im, sc, tabs, gather) ==
  [gather |-> gather,
   last_dc |-> [i \in DOMAIN sc.comps |-> <<>>],
   counts |-> [e \in CodingTables(im, sc) |-> {}],
   derived |-> [e \in CodingTables(im, sc) |-> IF gather THEN NullTable ELSE tabs[e[1]][e[2]].val],
   restarts_to_go |-> sc.restart_interval, next_restart_num |-> 0]

entropy_error(im, sc, tabs, gather) ==
  IF ~gather /\ \E e \in CodingTables(im, sc) : tabs[e[1]][e[2]].val = NullTable
  THEN "NO_TABLE" ELSE NoError

(* start_pass_fdctmgr looks for the quantization table of every component.     *)
fdct_error(im, tabs) ==
  IF \E c \in DOMAIN im.comp_info : tabs["q"][im.comp_info[c].quant].val = NullTable
  THEN "NO_QUANT_TABLE" ELSE NoError

-----------------------------------------------------------------------------
(* jpeg_start_compress: every module is initialised, the file header written   *)
(* and the main pass prepared.  write_all_tables FALSE leaves out the tables   *)
(* sent before; an application says so only when the earlier images finished.  *)
start_error(im, transcode_only) ==
  LET sc == select_scan_parameters(im, 0)
  IN IF initial_setup_error(im) # NoError THEN initial_setup_error(im)
     ELSE IF im.scan_info # <<>> /\ validate_script_error(im) # NoError THEN validate_script_error(im)
     ELSE IF ~transcode_only /\ ~im.raw_data_in
             /\ (\E c \in DOMAIN im.comp_info : ~SamplingHandled(im, c)) THEN "FRACT_SAMPLE_NOTIMPL"
     ELSE IF ~transcode_only /\ per_scan_setup_error(im, sc) # NoError THEN per_scan_setup_error(im, sc)
     ELSE NoError

jpeg_start_compress(write_all_tables) ==
  LET im == cinfo
      g == initial_setup(im)
      sc == per_scan_setup(im, g, select_scan_parameters(im, 0))
      tabs == IF write_all_tables THEN jpeg_suppress_tables(tables, FALSE) ELSE tables
      header == write_file_header(Writer(tabs), im)
      error == IF start_error(im, FALSE) # NoError THEN start_error(im, FALSE)
               ELSE IF fdct_error(im, tabs) # NoError THEN fdct_error(im, tabs)
               ELSE entropy_error(im, sc, tabs, optimized(im))
      m == master_control(im, FALSE)
  IN /\ im # NoImage /\ MayBegin(im) /\ ~im.transcode
     /\ write_all_tables \/ synced
     /\ synced' = TRUE /\ images' = images + 1
     /\ tables' = tabs
     /\ IF error # NoError
        THEN Fail(error)
             /\ UNCHANGED <<global_state, next_scanline, geom, scan, control, last_restart_interval, out>>
        ELSE /\ geom' = g /\ scan' = sc
             /\ master' = [m EXCEPT !.call_pass_startup = ~optimized(im),
                                    !.is_last_pass = m.total_passes = 1]
             /\ prep' = start_pass_prep(im)
             /\ main' = start_pass_main(im)
             /\ entropy' = start_pass_entropy(im, sc, tabs, optimized(im))
             /\ coef' = start_pass_coef([mode |-> "", iMCU_row_num |-> 0, mcu_ctr |-> 0,
                                         MCU_vert_offset |-> 0, MCU_rows_per_iMCU_row |-> 0,
                                         whole |-> [c \in DOMAIN im.comp_info |-> <<>>]], sc, g,
                                        IF m.total_passes > 1 THEN "SAVE_AND_PASS" ELSE "PASS_THRU")
             /\ out' = header.toks /\ last_restart_interval' = 0
             /\ next_scanline' = 0
             /\ global_state' = IF im.raw_data_in THEN "RAW_OK" ELSE "SCANNING"
             /\ UNCHANGED <<call, failed>>
     /\ UNCHANGED <<cinfo, delivered, known>>

(* jpeg_write_coefficients: the coefficient arrays come from another file.     *)
SourceArrays(im, g) ==
  [c \in DOMAIN im.comp_info |->
     [y \in 1 .. g.comps[c].height_in_blocks |->
        [x \in 1 .. g.comps[c].width_in_blocks |-> RealBlock(im, c, y - 1, x - 1)]]]

jpeg_write_coefficients ==
  LET im == cinfo
      g == initial_setup(im)
      tabs == jpeg_suppress_tables(tables, FALSE)
  IN /\ im # NoImage /\ MayBegin(im) /\ im.transcode
     /\ synced' = TRUE /\ images' = images + 1
     /\ tables' = tabs
     /\ IF start_error(im, TRUE) # NoError
        THEN Fail(start_error(im, TRUE))
             /\ UNCHANGED <<global_state, next_scanline, geom, master, coef, last_restart_interval, out>>
        ELSE /\ geom' = g
             /\ master' = master_control(im, TRUE)
             /\ coef' = [mode |-> "TRANSCODE", iMCU_row_num |-> 0, mcu_ctr |-> 0,
                         MCU_vert_offset |-> 0, MCU_rows_per_iMCU_row |-> 0,
                         whole |-> SourceArrays(im, g)]
             /\ out' = write_file_header(Writer(tabs), im).toks /\ last_restart_interval' = 0
             /\ next_scanline' = 0 /\ global_state' = "WRCOEFS"
             /\ UNCHANGED <<call, failed>>
     /\ UNCHANGED <<cinfo, delivered, known, scan, prep, main, entropy>>

-----------------------------------------------------------------------------
(* jccoefct.c and jctrans.c: the blocks of an MCU.                             *)
Block(c, x, rows) == [c |-> c, x |-> x, dummy |-> FALSE, rows |-> rows]

(* compress_data transforms an MCU straight out of the row buffer;             *)
(* compress_output of jctrans.c takes it out of the arrays of another file,    *)
(* which hold no dummy blocks.  The MCU is filled in the order of its blocks,  *)
(* a block being <<component, row, column>> of the MCU; past the edges of the  *)
(* component it is a dummy that repeats the block before it.                   *)
Places ==
  FlattenSeq([i \in DOMAIN scan.comps |->
    [n \in 1 .. scan.cur[i].MCU_width * scan.cur[i].MCU_height |->
       <<i, (n - 1) \div scan.cur[i].MCU_width, (n - 1) % scan.cur[i].MCU_width>>]])

RealPlaces(row, col) ==
  {p \in ToSet(Places) :
     LET cur == scan.cur[p[1]]
     IN /\ p[3] < IF col < scan.MCUs_per_row - 1 THEN cur.MCU_width ELSE cur.last_col_width
        /\ coef.iMCU_row_num < geom.total_iMCU_rows - 1 \/ row + p[2] < cur.last_row_height}

Filled(real) ==
  LET MCU_buffer[n \in DOMAIN Places] ==
        IF Places[n] \in DOMAIN real THEN real[Places[n]] ELSE Dummy(MCU_buffer[n - 1])
  IN [n \in DOMAIN Places |-> MCU_buffer[n]]

compress_data(data, row, col) ==
  Filled([p \in RealPlaces(row, col) |->
    LET c == scan.comps[p[1]]
        ypos == (row + p[2]) * DCTSIZE
    IN Block(c, col * scan.cur[p[1]].MCU_width + p[3], SubSeq(data[c], ypos + 1, ypos + DCTSIZE))])

trans_compress_output(row, col) ==
  Filled([p \in RealPlaces(row, col) |->
    LET c == scan.comps[p[1]]
    IN coef.whole[c][coef.iMCU_row_num * geom.comps[c].v + row + p[2] + 1]
                    [col * scan.cur[p[1]].MCU_width + p[3] + 1]])

(* compress_first_pass stores a whole row of iMCUs, dummy blocks included; it  *)
(* is repeated from the same rows when the destination refused an MCU of it.   *)
Stored(data) ==
  LET block_rows(k) == IF coef.iMCU_row_num < geom.total_iMCU_rows - 1 THEN k.v
                       ELSE remainder(k.height_in_blocks, k.v)
      across(k) == jround_up(k.width_in_blocks, k.h)
      Line(c, b) ==
        [x \in 1 .. across(geom.comps[c]) |->
           LET real == Block(c, AtMost(x, geom.comps[c].width_in_blocks) - 1,
                             SubSeq(data[c], (b - 1) * DCTSIZE + 1, b * DCTSIZE))
           IN IF x <= geom.comps[c].width_in_blocks THEN real ELSE Dummy(real)]
      Lines(c) ==
        LET k == geom.comps[c]
            line[b \in 1 .. k.v] ==
              IF b <= block_rows(k) THEN Line(c, b)
              ELSE [x \in 1 .. across(k) |-> Dummy(line[b - 1][((x - 1) \div k.h) * k.h + k.h])]
        IN [b \in 1 .. k.v |-> line[b]]
  IN [coef EXCEPT !.whole = [c \in DOMAIN geom.comps |->
        SubSeq(coef.whole[c], 1, coef.iMCU_row_num * geom.comps[c].v) \o Lines(c)]]

compress_output(row, col) ==
  LET Of(i) ==
        LET cur == scan.cur[i]
            top == coef.iMCU_row_num * geom.comps[scan.comps[i]].v + row
        IN [n \in 1 .. cur.MCU_width * cur.MCU_height |->
              coef.whole[scan.comps[i]][top + ((n - 1) \div cur.MCU_width) + 1]
                                       [col * cur.MCU_width + ((n - 1) % cur.MCU_width) + 1]]
  IN FlattenSeq([i \in DOMAIN scan.comps |-> Of(i)])

-----------------------------------------------------------------------------
(* jpeg_write_scanlines takes up to n rows, jpeg_write_raw_data one row of     *)
(* iMCUs; the first call of a pass that needs it writes the frame header.      *)
pass_startup(w) ==
  write_scan_header(write_frame_header(w, cinfo), cinfo, scan, last_restart_interval)

(* The marker output of a call: pass_startup when the pass still waits for it. *)
StartOutput(next) ==
  IF ~master.call_pass_startup
  THEN call' = next /\ UNCHANGED <<master, out, tables, last_restart_interval, failed>>
  ELSE LET w == pass_startup(Writer(tables))
       IN /\ master' = [master EXCEPT !.call_pass_startup = FALSE]
          /\ out' = out \o w.toks /\ tables' = w.tables
          /\ last_restart_interval' = scan.restart_interval
          /\ IF w.error # NoError THEN Fail(w.error) ELSE call' = next /\ UNCHANGED failed

jpeg_write_scanlines(n) ==
  /\ Idle /\ global_state = "SCANNING" /\ next_scanline < cinfo.image_height
  /\ StartOutput([NoCall EXCEPT !.pc = "main",
                                !.rows = AtMost(n, cinfo.image_height - next_scanline)])
  /\ UNCHANGED <<cinfo, global_state, next_scanline, geom, scan, prep, main, coef, entropy, history>>

lines_per_iMCU_row == geom.max_v * DCTSIZE
(* The application has downsampled and padded the rows itself.                 *)
RawRows ==
  [c \in DOMAIN cinfo.comp_info |->
     LET height == geom.comps[c].v * DCTSIZE
     IN [j \in 1 .. height |->
           ComponentRow(cinfo, c, (next_scanline \div lines_per_iMCU_row) * height + j - 1)]]

jpeg_write_raw_data ==
  /\ Idle /\ global_state = "RAW_OK" /\ next_scanline < cinfo.image_height
  /\ StartOutput([NoCall EXCEPT !.pc = "coef", !.data = RawRows,
                                !.row = coef.MCU_vert_offset, !.col = coef.mcu_ctr])
  /\ coef' = IF coef.mode = "SAVE_AND_PASS" THEN Stored(RawRows) ELSE coef
  /\ UNCHANGED <<cinfo, global_state, next_scanline, geom, scan, prep, main, entropy, history>>

(* jpeg_write_marker, which the application calls before it gives any row.     *)
jpeg_write_marker ==
  /\ Idle /\ global_state # "START" /\ next_scanline = 0
  /\ \A i \in DOMAIN out : out[i].t \notin {"SOS", "COM"}
  /\ out' = Append(out, [t |-> "COM"])
  /\ UNCHANGED <<cinfo, global_state, next_scanline, tables, geom, scan, control,
                 last_restart_interval, call, failed, history>>

-----------------------------------------------------------------------------
(* jcprepct.c: one turn of pre_process_data or pre_process_context.  The       *)
(* context buffer is a ring of three row groups; the row pointers around it    *)
(* that create_context_buffer sets up make row -1 the last one and so on.      *)
buf_height == geom.max_v * 3
Row(buf, n) == buf[n % buf_height]

(* expand_bottom_edge: rows from .. to - 1 repeat row from - 1.                *)
expand_bottom_edge(buf, from, to) ==
  [n \in DOMAIN buf \cup {k % buf_height : k \in from .. to - 1} |->
     IF n \in {k % buf_height : k \in from .. to - 1} THEN buf[(from - 1) % buf_height] ELSE buf[n]]

(* color_convert: the next rows of the application's go into the buffer.       *)
color_convert(buf, first, rows) ==
  [n \in DOMAIN buf \cup (prep.next_buf_row .. prep.next_buf_row + rows - 1) |->
     IF n \in prep.next_buf_row .. prep.next_buf_row + rows - 1
     THEN first + n - prep.next_buf_row ELSE buf[n]]

(* sep_downsample: one row group of every component, from row in_row_index on. *)
downsample(buf, in_row_index) ==
  [c \in DOMAIN geom.comps |->
     LET ratio == geom.max_v \div geom.comps[c].v
         margin == IF Smooths(cinfo, c) THEN 1 ELSE 0
     IN [j \in 1 .. geom.comps[c].v |->
           [i \in 1 .. ratio + 2 * margin |->
              Row(buf, in_row_index + (j - 1) * ratio - margin + i - 1)]]]

AddGroup(buffer, group) == [c \in DOMAIN buffer |-> buffer[c] \o group[c]]
(* The row groups below the image repeat the last component row.               *)
PadGroups(buffer) ==
  [c \in DOMAIN buffer |->
     [j \in 1 .. geom.comps[c].v * DCTSIZE |->
        IF j <= Len(buffer[c]) THEN buffer[c][j] ELSE buffer[c][Len(buffer[c])]]]

pre_process_data ==
  LET numrows == AtMost(geom.max_v - prep.next_buf_row, call.rows - call.ctr)
      to_go == prep.rows_to_go - numrows
      read == color_convert(prep.color_buf, next_scanline + call.ctr, numrows)
      ended == to_go = 0 /\ prep.next_buf_row + numrows < geom.max_v
      buf == IF ended THEN expand_bottom_edge(read, prep.next_buf_row + numrows, geom.max_v) ELSE read
      full == ended \/ prep.next_buf_row + numrows = geom.max_v
      buffer == IF full THEN AddGroup(main.buffer, downsample(buf, 0)) ELSE main.buffer
      groups == IF full THEN main.rowgroup_ctr + 1 ELSE main.rowgroup_ctr
      padded == to_go = 0 /\ groups < DCTSIZE
  IN /\ ~need_context_rows(cinfo) /\ call.ctr < call.rows
     /\ call' = [call EXCEPT !.ctr = @ + numrows]
     /\ prep' = [prep EXCEPT !.rows_to_go = to_go, !.color_buf = buf,
                             !.next_buf_row = IF full THEN 0 ELSE @ + numrows]
     /\ main' = [main EXCEPT !.rowgroup_ctr = IF padded THEN DCTSIZE ELSE groups,
                             !.buffer = IF padded THEN PadGroups(buffer) ELSE buffer]

(* The rows above the image repeat its first row.                              *)
TopEdge(buf) == buf @@ [n \in 2 * geom.max_v .. buf_height - 1 |-> buf[0]]

pre_process_context ==
  LET numrows == AtMost(prep.next_buf_stop - prep.next_buf_row, call.rows - call.ctr)
      reads == call.ctr < call.rows
      read == color_convert(prep.color_buf, next_scanline + call.ctr, numrows)
      topped == IF prep.rows_to_go = cinfo.image_height THEN TopEdge(read) ELSE read
      buf == IF reads THEN topped
             ELSE expand_bottom_edge(prep.color_buf, prep.next_buf_row, prep.next_buf_stop)
      row == IF reads THEN prep.next_buf_row + numrows ELSE prep.next_buf_stop
      full == row = prep.next_buf_stop
      next == IF row >= buf_height THEN 0 ELSE row
      this == prep.this_row_group + geom.max_v
  IN /\ need_context_rows(cinfo)
     /\ reads \/ prep.rows_to_go = 0
     /\ call' = IF reads THEN [call EXCEPT !.ctr = @ + numrows] ELSE call
     /\ prep' = [prep EXCEPT
          !.rows_to_go = IF reads THEN @ - numrows ELSE @, !.color_buf = buf,
          !.next_buf_row = IF full THEN next ELSE row,
          !.next_buf_stop = IF full THEN next + geom.max_v ELSE @,
          !.this_row_group = IF ~full THEN @ ELSE IF this >= buf_height THEN 0 ELSE this]
     /\ main' = IF ~full THEN main
                ELSE [main EXCEPT !.rowgroup_ctr = @ + 1,
                                  !.buffer = AddGroup(@, downsample(buf, prep.this_row_group))]

(* process_data_simple_main: rows are prepared until a row of iMCUs is full,   *)
(* which then goes to the coefficient controller; without rows the call ends.  *)
Returns == next_scanline' = next_scanline + call.ctr /\ call' = NoCall
CanPrepare == call.ctr < call.rows \/ (need_context_rows(cinfo) /\ prep.rows_to_go = 0)

PreProcess ==
  /\ call.pc = "main" /\ main.cur_iMCU_row < geom.total_iMCU_rows /\ main.rowgroup_ctr < DCTSIZE
  /\ pre_process_data \/ pre_process_context
  /\ UNCHANGED <<cinfo, global_state, next_scanline, tables, geom, scan, master, coef, entropy,
                 last_restart_interval, out, failed, history>>

PassRow ==
  /\ call.pc = "main" /\ main.cur_iMCU_row < geom.total_iMCU_rows /\ main.rowgroup_ctr = DCTSIZE
  /\ call' = [call EXCEPT !.pc = "coef", !.data = main.buffer,
                          !.row = coef.MCU_vert_offset, !.col = coef.mcu_ctr]
  /\ coef' = IF coef.mode = "SAVE_AND_PASS" THEN Stored(main.buffer) ELSE coef
  /\ UNCHANGED <<cinfo, global_state, next_scanline, tables, geom, scan, master, prep, main, entropy,
                 last_restart_interval, out, failed, history>>

ReturnRows ==
  /\ call.pc = "main"
  /\ \/ main.cur_iMCU_row = geom.total_iMCU_rows
     \/ main.rowgroup_ctr < DCTSIZE /\ ~CanPrepare
  /\ Returns
  /\ UNCHANGED <<cinfo, global_state, tables, geom, scan, control, last_restart_interval,
                 out, failed, history>>

-----------------------------------------------------------------------------
(* The entropy coder.  A difference of DC values is coded with the DC table of *)
(* its component; it is known here by the two blocks whose values it is of.    *)
MCU_membership ==
  FlattenSeq([i \in DOMAIN scan.comps |->
    [n \in 1 .. scan.cur[i].MCU_width * scan.cur[i].MCU_height |-> i]])
Value(block) == <<block.c, block.x, block.rows>>
Before(mcu, n, last_dc) ==
  LET of == MCU_membership
      earlier == {m \in 1 .. n - 1 : of[m] = of[n]}
  IN IF earlier = {} THEN last_dc[of[n]] ELSE Value(mcu[Max(earlier)])

(* DC differences are coded by every scan but the refinements and the AC scans *)
CodesDifferences == scan.Ss = 0 /\ scan.Ah = 0
Differences(mcu, last_dc) ==
  LET of == MCU_membership
  IN IF ~CodesDifferences THEN {}
     ELSE {<<cinfo.comp_info[scan.comps[of[n]]].dc, Before(mcu, n, last_dc), Value(mcu[n])>> : n \in DOMAIN of}
LastValues(mcu, last_dc) ==
  LET of == MCU_membership
  IN [i \in DOMAIN last_dc |-> Value(mcu[Max({n \in DOMAIN of : of[n] = i})])]
ZeroDC == [i \in DOMAIN scan.comps |-> <<>>]

Restarting == scan.restart_interval > 0 /\ entropy.restarts_to_go = 0
CountDown ==
  IF scan.restart_interval = 0 THEN entropy.restarts_to_go
  ELSE IF Restarting THEN scan.restart_interval - 1 ELSE entropy.restarts_to_go - 1
BaseDC == IF Restarting THEN ZeroDC ELSE entropy.last_dc

(* encode_mcu_gather counts what encode_mcu_huff will code.                    *)
encode_mcu_gather(mcu) ==
  LET diffs == Differences(mcu, BaseDC)
  IN /\ entropy' = [entropy EXCEPT
          !.last_dc = LastValues(mcu, BaseDC), !.restarts_to_go = CountDown,
          !.counts = [e \in DOMAIN entropy.counts |->
            entropy.counts[e] \cup {d \in diffs : e = <<"dc", d[1]>>}]]
     /\ UNCHANGED <<out, failed>>

HasCode(d) ==
  LET tbl == entropy.derived[<<"dc", d[1]>>] IN tbl.kind = "std" \/ d \in tbl.syms
(* The tables the MCU was coded with, by the numbers its scan header gives.    *)
UsedTables ==
  {<<e[1], e[2], entropy.derived[e]>> : e \in DOMAIN entropy.derived}

encode_mcu_huff(mcu) ==
  LET rst == IF Restarting THEN <<[t |-> "RST", n |-> entropy.next_restart_num]>> ELSE <<>>
  IN IF \E d \in Differences(mcu, BaseDC) : ~HasCode(d)
     THEN Fail("HUFF_MISSING_CODE") /\ UNCHANGED <<entropy, out>>
     ELSE /\ out' = out \o rst \o <<[t |-> "MCU", blocks |-> mcu, used |-> UsedTables]>>
          /\ entropy' = [entropy EXCEPT
               !.last_dc = LastValues(mcu, BaseDC), !.restarts_to_go = CountDown,
               !.next_restart_num = IF Restarting THEN (@ + 1) % 8 ELSE @]
          /\ UNCHANGED failed

CurrentMCU ==
  CASE coef.mode = "PASS_THRU" -> compress_data(call.data, call.row, call.col)
    [] coef.mode = "TRANSCODE" -> trans_compress_output(call.row, call.col)
    [] OTHER -> compress_output(call.row, call.col)
Coding == call.pc \in {"coef", "crank"}

(* One MCU is accepted; at the end of an MCU row the controller's column is    *)
(* reset.                                                                      *)
NextMCU ==
  IF call.col + 1 < scan.MCUs_per_row THEN call' = [call EXCEPT !.col = @ + 1] /\ coef' = coef
  ELSE call' = [call EXCEPT !.col = 0, !.row = @ + 1] /\ coef' = [coef EXCEPT !.mcu_ctr = 0]

(* mutant: the coder that counts answers that it could not take the MCU.       *)
EncodeMCU_count_refused ==
  /\ Coding /\ call.row < coef.MCU_rows_per_iMCU_row
  /\ IF entropy.gather THEN encode_mcu_gather(CurrentMCU) /\ UNCHANGED <<call, coef>>
     ELSE encode_mcu_huff(CurrentMCU) /\ IF failed' = NoError THEN NextMCU ELSE UNCHANGED coef
  /\ UNCHANGED <<cinfo, global_state, next_scanline, tables, geom, scan, master, prep, main,
                 last_restart_interval, history>>
EncodeMCU ==
  /\ Coding /\ call.row < coef.MCU_rows_per_iMCU_row
  /\ IF entropy.gather THEN encode_mcu_gather(CurrentMCU) ELSE encode_mcu_huff(CurrentMCU)
  /\ IF failed' = NoError THEN NextMCU ELSE UNCHANGED coef
  /\ UNCHANGED <<cinfo, global_state, next_scanline, tables, geom, scan, master, prep, main,
                 last_restart_interval, history>>

(* mutant: the column is not kept.                                            *)
RefuseMCU_column_lost ==
  /\ Suspends /\ call.pc = "coef" /\ call.row < coef.MCU_rows_per_iMCU_row /\ ~entropy.gather
  /\ coef' = [coef EXCEPT !.MCU_vert_offset = call.row] /\ call' = NoCall
  /\ main' = [main EXCEPT !.suspended = TRUE]
  /\ next_scanline' = next_scanline + IF main.suspended THEN call.ctr ELSE call.ctr - 1
  /\ UNCHANGED <<cinfo, global_state, tables, geom, scan, master, prep, entropy,
                 last_restart_interval, out, failed, history>>
(* The destination refuses: the position in the row of iMCUs is kept and the   *)
(* call returns, with its last row taken back the first time.  A pass that no  *)
(* row drives cannot be interrupted.                                           *)
RefuseMCU ==
  /\ Suspends /\ Coding /\ call.row < coef.MCU_rows_per_iMCU_row /\ ~entropy.gather
  /\ IF call.pc = "crank"
     THEN Fail("CANT_SUSPEND") /\ UNCHANGED <<coef, main, next_scanline>>
     ELSE /\ coef' = [coef EXCEPT !.MCU_vert_offset = call.row, !.mcu_ctr = call.col]
          /\ call' = NoCall /\ failed' = NoError
          /\ IF cinfo.raw_data_in THEN UNCHANGED <<main, next_scanline>>
             ELSE /\ main' = [main EXCEPT !.suspended = TRUE]
                  /\ next_scanline' = next_scanline + IF main.suspended THEN call.ctr ELSE call.ctr - 1
  /\ UNCHANGED <<cinfo, global_state, tables, geom, scan, master, prep, entropy,
                 last_restart_interval, out, history>>

(* The row of iMCUs is done.                                                   *)
FinishRow ==
  /\ Coding /\ call.row = coef.MCU_rows_per_iMCU_row
  /\ coef' = start_iMCU_row(coef, scan, geom, coef.iMCU_row_num + 1)
  /\ CASE call.pc = "crank" ->
            /\ call' = IF coef.iMCU_row_num + 1 = geom.total_iMCU_rows
                       THEN [NoCall EXCEPT !.pc = "finish_pass"] ELSE [call EXCEPT !.row = 0, !.col = 0]
            /\ UNCHANGED <<main, next_scanline>>
       [] call.pc = "coef" /\ cinfo.raw_data_in ->
            /\ call' = NoCall /\ next_scanline' = next_scanline + lines_per_iMCU_row
            /\ UNCHANGED main
       [] OTHER ->
            /\ main' = [main EXCEPT !.suspended = FALSE, !.rowgroup_ctr = 0, !.cur_iMCU_row = @ + 1,
                                    !.buffer = [c \in DOMAIN @ |-> <<>>]]
            /\ call' = [call EXCEPT !.pc = "main", !.data = <<>>,
                                    !.ctr = IF main.suspended THEN @ + 1 ELSE @]
            /\ UNCHANGED next_scanline
  /\ UNCHANGED <<cinfo, global_state, tables, geom, scan, master, prep, entropy,
                 last_restart_interval, out, failed, history>>

-----------------------------------------------------------------------------
(* jpeg_finish_compress: the pass of the rows ends, and the remaining passes   *)
(* run over the stored image.                                                  *)
jpeg_finish_compress ==
  /\ Idle /\ global_state # "START"
  /\ IF global_state = "WRCOEFS" THEN call' = [NoCall EXCEPT !.pc = "next_pass"] /\ UNCHANGED failed
     ELSE IF next_scanline < cinfo.image_height THEN Fail("TOO_LITTLE_DATA")
     ELSE call' = [NoCall EXCEPT !.pc = "finish_pass"] /\ UNCHANGED failed
  /\ UNCHANGED <<cinfo, global_state, next_scanline, tables, geom, scan, control,
                 last_restart_interval, out, history>>

(* mutant: a new table keeps the mark of the one it replaces.                  *)
GatheredTables_still_sent ==
  [class \in Classes |-> [n \in Slots |->
     IF <<class, n>> \in DOMAIN entropy.counts
     THEN [tables[class][n] EXCEPT !.val = OptimalTable(entropy.counts[<<class, n>>])]
     ELSE tables[class][n]]]
(* finish_pass_master; the entropy coder makes tables out of what it counted.  *)
GatheredTables ==
  [class \in Classes |-> [n \in Slots |->
     IF <<class, n>> \in DOMAIN entropy.counts
     THEN [val |-> OptimalTable(entropy.counts[<<class, n>>]), sent |-> FALSE]
     ELSE tables[class][n]]]

finish_pass_master ==
  /\ call.pc = "finish_pass"
  /\ tables' = IF entropy.gather THEN GatheredTables ELSE tables
  /\ master' = [master EXCEPT
       !.pass_number = @ + 1,
       !.pass_type = IF @ = "output_pass" /\ optimized(cinfo) THEN "huff_opt_pass" ELSE "output_pass",
       !.scan_number = IF \/ master.pass_type = "output_pass"
                          \/ master.pass_type = "main_pass" /\ ~optimized(cinfo)
                       THEN @ + 1 ELSE @]
  /\ call' = [call EXCEPT !.pc = "next_pass"]
  /\ UNCHANGED <<cinfo, global_state, next_scanline, geom, scan, prep, main, coef, entropy,
                 last_restart_interval, out, failed, history>>

(* prepare_for_pass for the later passes.                                      *)
ThisScan == per_scan_setup(cinfo, geom, select_scan_parameters(cinfo, master.scan_number))
ThisError == per_scan_setup_error(cinfo, select_scan_parameters(cinfo, master.scan_number))
Crank(sc) ==
  /\ coef' = start_pass_coef(coef, sc, geom, IF coef.mode = "TRANSCODE" THEN coef.mode ELSE "CRANK_DEST")
  /\ call' = [NoCall EXCEPT !.pc = "crank"]
IsLast(number) == number = master.total_passes - 1
NeedsStatistics == ThisScan.Ss # 0 \/ ThisScan.Ah = 0

PrepareStatistics ==
  /\ call.pc = "next_pass" /\ ~master.is_last_pass
  /\ master.pass_type = "huff_opt_pass" /\ NeedsStatistics
  /\ IF ThisError # NoError
     THEN Fail(ThisError) /\ UNCHANGED <<scan, entropy, coef, master>>
     ELSE /\ scan' = ThisScan
          /\ entropy' = start_pass_entropy(cinfo, ThisScan, tables, TRUE)
          /\ Crank(ThisScan)
          /\ master' = [master EXCEPT !.is_last_pass = IsLast(master.pass_number)]
          /\ UNCHANGED failed
  /\ UNCHANGED <<cinfo, global_state, next_scanline, tables, geom, prep, main,
                 last_restart_interval, out, history>>

(* A refinement of DC values codes no difference and needs no statistics: its  *)
(* pass is passed over.                                                        *)
PrepareOutput ==
  LET skipped == master.pass_type = "huff_opt_pass"
      number == IF skipped THEN master.pass_number + 1 ELSE master.pass_number
      sc == IF skipped \/ ~optimized(cinfo) THEN ThisScan ELSE scan
      error == IF ThisError # NoError THEN ThisError ELSE entropy_error(cinfo, sc, tables, FALSE)
      frame == IF master.scan_number = 0 THEN write_frame_header(Writer(tables), cinfo) ELSE Writer(tables)
      w == write_scan_header(frame, cinfo, sc, last_restart_interval)
  IN /\ call.pc = "next_pass" /\ ~master.is_last_pass
     /\ master.pass_type = "output_pass" \/ (skipped /\ ~NeedsStatistics)
     /\ IF error # NoError
        THEN Fail(error) /\ UNCHANGED <<scan, entropy, coef, master, out, tables, last_restart_interval>>
        ELSE /\ scan' = sc
             /\ entropy' = start_pass_entropy(cinfo, sc, tables, FALSE)
             /\ master' = [master EXCEPT !.pass_type = "output_pass", !.pass_number = number,
                                         !.is_last_pass = IsLast(number)]
             /\ out' = out \o w.toks /\ tables' = w.tables
             /\ last_restart_interval' = sc.restart_interval
             /\ IF w.error # NoError THEN Fail(w.error) /\ UNCHANGED coef
                ELSE Crank(sc) /\ UNCHANGED failed
     /\ UNCHANGED <<cinfo, global_state, next_scanline, geom, prep, main, history>>

(* The end of the stream: it goes to the receiver, who keeps its tables: of a  *)
(* slot the one that was defined last.                                         *)
Defines(tok, class, n) == tok.t \in {"DQT", "DHT"} /\ tok.class = class /\ tok.n = n
Learn(tabs, toks) ==
  LET Definitions(class, n) == {i \in DOMAIN toks : Defines(toks[i], class, n)}
  IN [class \in Classes |-> [n \in Slots |->
        IF Definitions(class, n) = {} THEN tabs[class][n]
        ELSE [tabs[class][n] EXCEPT !.val = toks[Max(Definitions(class, n))].val]]]

FinishImage ==
  LET stream == out \o write_file_trailer(Writer(tables)).toks
  IN /\ call.pc = "next_pass" /\ master.is_last_pass
     /\ out' = stream /\ delivered' = stream /\ known' = Learn(known, stream)
     /\ global_state' = "START" /\ call' = NoCall
     /\ UNCHANGED <<cinfo, next_scanline, tables, geom, scan, control, last_restart_interval,
                    failed, synced, images>>

(* jpeg_abort_compress: after an error, or because the application has changed *)
(* its mind.  Tables marked as sent may have gone nowhere.                     *)
jpeg_abort_compress ==
  /\ call.pc = "app" /\ (failed # NoError \/ global_state # "START")
  /\ global_state' = "START" /\ failed' = NoError /\ synced' = FALSE
  /\ UNCHANGED <<cinfo, next_scanline, tables, geom, scan, control, last_restart_interval,
                 out, call, delivered, known, images>>

(* jpeg_write_tables: an abbreviated stream of the tables alone.               *)
jpeg_write_tables ==
  LET w == write_tables_only(Writer(tables))
  IN /\ cinfo # NoImage /\ MayBegin(cinfo)
     /\ tables' = w.tables /\ known' = Learn(known, w.toks)
     /\ last_restart_interval' = 0
     /\ UNCHANGED <<cinfo, global_state, next_scanline, geom, scan, control, out, call,
                    delivered, failed, synced, images>>

-----------------------------------------------------------------------------
Application ==
  \/ \E im \in Images : SetParameters(im)
  \/ \E all \in BOOLEAN : jpeg_start_compress(all)
  \/ jpeg_write_coefficients
  \/ \E n \in 1 .. 3 : jpeg_write_scanlines(n)
  \/ jpeg_write_raw_data
  \/ jpeg_write_marker
  \/ jpeg_finish_compress
  \/ jpeg_abort_compress
  \/ jpeg_write_tables
Library ==
  \/ PreProcess \/ PassRow \/ ReturnRows \/ FinishRow \/ RefuseMCU
  \/ finish_pass_master \/ PrepareStatistics \/ PrepareOutput \/ FinishImage
Next == Application \/ Library \/ EncodeMCU

(* The application and the library are one thread, which goes on: it supplies  *)
(* rows and ends the image when it has given them all.  A destination that     *)
(* refused an MCU takes it in the end.                                         *)
Supplies == (\E n \in 1 .. 3 : jpeg_write_scanlines(n)) \/ jpeg_write_raw_data
Ends == (next_scanline >= cinfo.image_height \/ global_state = "WRCOEFS") /\ jpeg_finish_compress
Fairness ==
  /\ WF_vars(Supplies \/ Ends \/ Library) /\ SF_vars(EncodeMCU)
Spec == Init /\ [][Next]_vars /\ Fairness

-----------------------------------------------------------------------------
(* Every stream grows along the one sequence its image decides: rows handed    *)
(* over in any portions, passes run any way, MCUs refused and offered again.   *)
Refines == Stream!StreamSpec

(* Whoever reads the finished streams in order has, at every MCU, the tables   *)
(* it was coded with, although tables already sent are left out.               *)
DecoderHasTables ==
  \A i \in DOMAIN out :
    out[i].t = "MCU" /\ global_state # "START" /\ failed = NoError /\ synced =>
      LET have == Learn(known, SubSeq(out, 1, i))
      IN \A u \in out[i].used : have[u[1]][u[2]].val = u[3]

(* The statistics pass has counted every difference the output pass codes.     *)
NoMissingCode == failed # "HUFF_MISSING_CODE"
TablesSuffice == DecoderHasTables /\ NoMissingCode

(* A writer whose application goes on, and whose destination takes what it is  *)
(* offered in the end, finishes the image or fails.                            *)
Finishes == global_state # "START" ~> (global_state = "START" \/ failed # NoError)
=============================================================================
