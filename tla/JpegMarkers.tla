----------------------------- MODULE JpegMarkers -----------------------------
(* jcmarker.c: the markers the compressor writes, as tokens rather than bytes, *)
(* and the quantisation and Huffman table slots of a compression object with   *)
(* the sent_table flag that decides whether a table is written again.          *)
(* A writer w carries the tokens written so far and the table slots.           *)
EXTENDS JpegFrame

(* A slot: NULL is a value of kind "null".  A quantisation table is known by   *)
(* the quality it was made from; a Huffman table by the symbols it has codes   *)
(* for, the standard ones having a code for everything.                        *)
NullTable == [kind |-> "null", syms |-> {}]
StdTable == [kind |-> "std", syms |-> {}]
QualityTable(quality) == [kind |-> quality, syms |-> {}]
OptimalTable(counted) == [kind |-> "optimal", syms |-> counted]

Slots == 0 .. NUM_TBLS - 1
Classes == {"q", "dc", "ac"}

jpeg_alloc_tables == [class \in Classes |-> [n \in Slots |-> [val |-> NullTable, sent |-> FALSE]]]

(* jpeg_add_quant_table, add_huff_table, jpeg_gen_optimal_table: a table that  *)
(* changed has not been sent.                                                  *)
WithTable(tables, class, n, val) == [tables EXCEPT ![class][n] = [val |-> val, sent |-> FALSE]]

jpeg_set_quality(tables, quality) ==
  WithTable(WithTable(tables, "q", 0, QualityTable(quality)), "q", 1, QualityTable(quality))

std_huff_tables(tables) ==
  [tables EXCEPT !["dc"] = [n \in Slots |-> IF n < 2 THEN [val |-> StdTable, sent |-> FALSE] ELSE @[n]],
                 !["ac"] = [n \in Slots |-> IF n < 2 THEN [val |-> StdTable, sent |-> FALSE] ELSE @[n]]]

jpeg_suppress_tables(tables, suppress) ==
  [class \in Classes |-> [n \in Slots |->
     IF tables[class][n].val = NullTable THEN tables[class][n]
     ELSE [tables[class][n] EXCEPT !.sent = suppress]]]

-----------------------------------------------------------------------------
(* Each emit operator appends one marker; emit_dqt and emit_dht only when the  *)
(* table was not sent, and then they mark it sent.                             *)
Writer(tables) == [toks |-> <<>>, tables |-> tables, error |-> NoError]
emit_marker(w, tok) == [w EXCEPT !.toks = Append(@, tok)]

(* emit_dqt and emit_dht for the tables of a list, in its order: a table comes *)
(* out where it is first named, if it was not sent; a table that does not      *)
(* exist is an error.                                                          *)
emit_tables(w, list) ==
  LET Slot(i) == w.tables[list[i][1]][list[i][2]]
      fresh == {i \in DOMAIN list : ~Slot(i).sent /\ \A j \in 1 .. i - 1 : list[j] # list[i]}
      tokens == [i \in DOMAIN list |->
                   IF i \notin fresh THEN <<>>
                   ELSE <<[t |-> IF list[i][1] = "q" THEN "DQT" ELSE "DHT",
                           class |-> list[i][1], n |-> list[i][2], val |-> Slot(i).val]>>]
      named == {list[i] : i \in DOMAIN list}
  IN IF \E i \in DOMAIN list : Slot(i).val = NullTable
     THEN [w EXCEPT !.error = "NO_TABLE"]
     ELSE [w EXCEPT !.toks = @ \o FlattenSeq(tokens),
                    !.tables = [class \in Classes |-> [n \in Slots |->
                       IF <<class, n>> \in named THEN [@[class][n] EXCEPT !.sent = TRUE]
                       ELSE @[class][n]]]]

emit_dri(w, interval) == emit_marker(w, [t |-> "DRI", interval |-> interval])

(* The frame as the marker carries it: the decoder knows no more than this.    *)
emit_sof(w, im, code) ==
  emit_marker(w, [t |-> "SOF", code |-> code, height |-> im.image_height, width |-> im.image_width,
                  comps |-> [c \in DOMAIN im.comp_info |->
                    [id |-> im.comp_info[c].id, h |-> im.comp_info[c].h, v |-> im.comp_info[c].v,
                     quant |-> im.comp_info[c].quant]]])

emit_sos(w, im, scan) ==
  emit_marker(w, [t |-> "SOS", Ss |-> scan.Ss, Se |-> scan.Se, Ah |-> scan.Ah, Al |-> scan.Al,
                  comps |-> [i \in DOMAIN scan.comps |->
                    LET k == im.comp_info[scan.comps[i]]
                    IN [id |-> k.id,
                        dc |-> IF progressive(im) /\ (scan.Ss # 0 \/ scan.Ah # 0) THEN 0 ELSE k.dc,
                        ac |-> IF progressive(im) /\ scan.Ss = 0 THEN 0 ELSE k.ac]]])

emit_adobe_app14(w, im) ==
  emit_marker(w, [t |-> "APP14", transform |-> CASE im.jpeg_color_space = "YCbCr" -> 1
                                                  [] im.jpeg_color_space = "YCCK" -> 2
                                                  [] OTHER -> 0])

-----------------------------------------------------------------------------
write_marker(w, marker) == emit_marker(w, [t |-> marker])

write_file_header(w, im) ==
  LET soi == emit_marker(w, [t |-> "SOI"])
      jfif == IF im.jfif THEN emit_marker(soi, [t |-> "APP0"]) ELSE soi
  IN IF im.adobe THEN emit_adobe_app14(jfif, im) ELSE jfif

is_baseline(im) ==
  /\ ~progressive(im)
  /\ \A c \in DOMAIN im.comp_info : im.comp_info[c].dc <= 1 /\ im.comp_info[c].ac <= 1

frame_code(im) == IF progressive(im) THEN "SOF2" ELSE IF is_baseline(im) THEN "SOF0" ELSE "SOF1"

write_frame_header(w, im) ==
  emit_sof(emit_tables(w, [c \in DOMAIN im.comp_info |-> <<"q", im.comp_info[c].quant>>]),
           im, frame_code(im))

(* The tables a scan of the image needs, in the order they are written.        *)
ScanTables(im, scan) ==
  LET Of(k) == IF ~progressive(im) THEN <<<<"dc", k.dc>>, <<"ac", k.ac>>>>
               ELSE IF scan.Ss # 0 THEN <<<<"ac", k.ac>>>>
               ELSE IF scan.Ah = 0 THEN <<<<"dc", k.dc>>>> ELSE <<>>
  IN FlattenSeq([i \in DOMAIN scan.comps |-> Of(im.comp_info[scan.comps[i]])])

write_scan_header(w, im, scan, last_restart_interval) ==
  LET dht == emit_tables(w, ScanTables(im, scan))
  IN emit_sos(IF scan.restart_interval # last_restart_interval
              THEN emit_dri(dht, scan.restart_interval) ELSE dht, im, scan)

write_file_trailer(w) == emit_marker(w, [t |-> "EOI"])

write_tables_only(w) ==
  LET Existing(class, n) == IF w.tables[class][n].val = NullTable THEN <<>> ELSE <<<<class, n>>>>
      quant == FlattenSeq([i \in 1 .. NUM_TBLS |-> Existing("q", i - 1)])
      huff == FlattenSeq([i \in 1 .. NUM_TBLS |-> Existing("dc", i - 1) \o Existing("ac", i - 1)])
  IN emit_marker(emit_tables(emit_marker(w, [t |-> "SOI"]), quant \o huff), [t |-> "EOI"])

-----------------------------------------------------------------------------
(* What the stream of an image has to be, as the image and its scan script     *)
(* alone decide it: the reference the models of the compressor and of the      *)
(* decompressor are compared with.  Tables are left out (they may be sent with *)
(* an earlier image) and so are the application's own markers.                 *)
(* A block is known by the image rows its samples come from: block column x of *)
(* component c, and the DCTSIZE component rows in it, each the sequence of     *)
(* image rows it averages.  A dummy block, which fills an MCU past the edge of *)
(* the component, repeats the DC value of the block before it.                 *)

(* The image rows component row y of component c is made of.                   *)
ComponentRow(im, c, y) ==
  LET ratio == max_v(im) \div im.comp_info[c].v
      margin == IF Smooths(im, c) THEN 1 ELSE 0
      real == jdiv_round_up(im.image_height, max_v(im)) * im.comp_info[c].v
      row == IF need_context_rows(im) THEN y ELSE AtMost(y, real - 1)
      Clamp(n) == IF n < 0 THEN 0 ELSE AtMost(n, im.image_height - 1)
  IN [i \in 1 .. ratio + 2 * margin |-> Clamp(row * ratio - margin + i - 1)]

RealBlock(im, c, y, x) ==
  [c |-> c, x |-> x, dummy |-> FALSE,
   rows |-> [i \in 1 .. DCTSIZE |-> ComponentRow(im, c, y * DCTSIZE + i - 1)]]
Dummy(block) == [block EXCEPT !.dummy = TRUE]

(* The places of the blocks of one MCU: for every component its MCU_height     *)
(* rows of MCU_width blocks, <<component, row, column>>.                       *)
MCUPlaces(scan, row, col) ==
  LET Of(i) == LET cur == scan.cur[i]
               IN [n \in 1 .. cur.MCU_width * cur.MCU_height |->
                    <<scan.comps[i], row * cur.MCU_height + ((n - 1) \div cur.MCU_width),
                      col * cur.MCU_width + ((n - 1) % cur.MCU_width)>>]
  IN FlattenSeq([i \in DOMAIN scan.comps |-> Of(i)])

(* What stands there; the places past the component's edges hold dummies.      *)
ExpectedMCU(im, geom, scan, row, col) ==
  LET BlockAt(c, y, x) ==
        LET k == geom.comps[c]
            cur == scan.cur[CHOOSE i \in DOMAIN scan.comps : scan.comps[i] = c]
            ey == AtMost(y, k.height_in_blocks - 1)
            \* a whole missing row repeats the last block of the row above it
            ex == AtMost(IF y = ey THEN x ELSE col * cur.MCU_width + cur.MCU_width - 1,
                         k.width_in_blocks - 1)
            real == RealBlock(im, c, ey, ex)
        IN IF y = ey /\ x = ex THEN real ELSE Dummy(real)
      places == MCUPlaces(scan, row, col)
  IN [n \in DOMAIN places |-> BlockAt(places[n][1], places[n][2], places[n][3])]

MCUs(im, geom, scan) ==
  [n \in 1 .. scan.MCUs_per_row * scan.MCU_rows_in_scan |->
     [t |-> "MCU", blocks |-> ExpectedMCU(im, geom, scan, (n - 1) \div scan.MCUs_per_row,
                                                          (n - 1) % scan.MCUs_per_row)]]

(* A restart marker stands before every restart_interval-th MCU but the first, *)
(* numbered modulo 8.                                                          *)
WithRestarts(mcus, interval) ==
  IF interval = 0 THEN mcus
  ELSE FlattenSeq([n \in DOMAIN mcus |->
         IF n > 1 /\ (n - 1) % interval = 0
         THEN <<[t |-> "RST", n |-> ((n - 1) \div interval - 1) % 8], mcus[n]>>
         ELSE <<mcus[n]>>])

Bare(w) == w.toks
Expected(im) ==
  LET geom == initial_setup(im)
      Scan(n) == per_scan_setup(im, geom, select_scan_parameters(im, n - 1))
      scans == IF im.scan_info = <<>> THEN 1 ELSE Len(im.scan_info)
      Interval(n) == IF n = 0 THEN 0 ELSE Scan(n).restart_interval
      OneScan(n) ==
        (IF Interval(n) # Interval(n - 1) THEN <<[t |-> "DRI", interval |-> Interval(n)]>> ELSE <<>>)
        \o Bare(emit_sos(Writer(jpeg_alloc_tables), im, Scan(n)))
        \o WithRestarts(MCUs(im, geom, Scan(n)), Interval(n))
      code == frame_code(im)
  IN Bare(write_file_header(Writer(jpeg_alloc_tables), im))
     \o Bare(emit_sof(Writer(jpeg_alloc_tables), im, code))
     \o FlattenSeq([n \in 1 .. scans |-> OneScan(n)])
     \o <<[t |-> "EOI"]>>

-----------------------------------------------------------------------------
(* A whole file as a decoder meets it, tables included.  Here an MCU is known  *)
(* by its scan, the restart segment it belongs to and the places of its        *)
(* blocks.                                                                     *)
Segment(n, interval) == IF interval = 0 THEN 0 ELSE (n - 1) \div interval
ScanData(scan, number) ==
  LET data == [n \in 1 .. scan.MCUs_per_row * scan.MCU_rows_in_scan |->
                 [t |-> "MCU", scan |-> number, seg |-> Segment(n, scan.restart_interval),
                  places |-> MCUPlaces(scan, (n - 1) \div scan.MCUs_per_row, (n - 1) % scan.MCUs_per_row)]]
      Marked(n) == n > 1 /\ data[n].seg > data[n - 1].seg
  IN FlattenSeq([n \in DOMAIN data |->
       IF Marked(n) THEN <<[t |-> "RST", n |-> (data[n].seg - 1) % 8, seg |-> data[n].seg], data[n]>>
       ELSE <<data[n]>>])

File(im, tables) ==
  LET geom == initial_setup(im)
      count == IF im.scan_info = <<>> THEN 1 ELSE Len(im.scan_info)
      Scan(n) == per_scan_setup(im, geom, select_scan_parameters(im, n - 1))
      written[n \in 0 .. count] ==
        IF n = 0 THEN write_frame_header(write_file_header(Writer(tables), im), im)
        ELSE LET w == write_scan_header(written[n - 1], im, Scan(n),
                                        IF n = 1 THEN 0 ELSE Scan(n - 1).restart_interval)
             IN [w EXCEPT !.toks = @ \o ScanData(Scan(n), n)]
  IN write_file_trailer(written[count]).toks
=============================================================================
