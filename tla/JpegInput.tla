------------------------------ MODULE JpegInput -------------------------------
(* The input side of the decompression object of the bundled IJG library: the  *)
(* marker reader (jdmarker.c), the input controller that alternates between    *)
(* markers and scans (jdinput.c), the restart handling and the bookkeeping of  *)
(* the entropy decoders (jdhuff.c, jdphuff.c) and the half of the coefficient  *)
(* controller that stores what they decode (jdcoefct.c).  One action reads one *)
(* marker or one MCU for the library call in progress.                         *)
(* Compressed data is a sequence of tokens: the markers of JpegMarkers, MCUs,  *)
(* and damage: a GAP where an MCU's bits were, a BAD byte pair that looks like *)
(* a marker.                                                                   *)
EXTENDS JpegMarkers

CONSTANTS Jobs      \* the files an application may read, and how it reads them

VARIABLES job,      \* the job of this behaviour
          stream,   \* how many datastreams of the job were opened
          input,    \* the tokens the source still has; when none is left it invents EOIs
          marker, frame, tables,                     \* the marker reader, and what it read
          sos, input_scan_number, output_scan_number, \* the scan header read last, and the counters
          inputctl, geom, scan, latched,             \* the input controller and its derived values
          entropy, icoef, whole,                     \* decoder, coefficient input, coefficient arrays
          call,     \* the library call in progress, and its local variables
          failed    \* the error that ended the job

inputVars == <<input, marker, frame, tables, sos, input_scan_number, output_scan_number,
               inputctl, geom, scan, latched, entropy, icoef, whole>>

NoMarker == [t |-> "none"]
Data == {"MCU", "GAP"}
NoCall == [pc |-> "app", fn |-> "none", then |-> "none", ret |-> "none", want |-> 0, got |-> <<>>,
           out |-> 0]
Fail(error) == failed' = error /\ call' = NoCall

(* consume_input returns to the place that called it.                          *)
Returns(ret) ==
  /\ call' = IF call.then = "app" THEN NoCall ELSE [call EXCEPT !.pc = call.then, !.ret = ret]
  /\ UNCHANGED failed
StaysIn == UNCHANGED <<call, failed>>

-----------------------------------------------------------------------------
(* reset_marker_reader, reset_input_controller; the frame get_soi resets.      *)
NoFrame == [image_height |-> 0, image_width |-> 0, comp_info |-> <<>>, progressive |-> FALSE,
            restart_interval |-> 0, restart_in_rows |-> 0, JFIF |-> FALSE, Adobe |-> -1]
reset_marker_reader == [unread |-> NoMarker, saw_SOI |-> FALSE, saw_SOF |-> FALSE, next_restart_num |-> 0]
reset_input_controller ==
  [consume |-> "markers", has_multiple_scans |-> FALSE, eoi_reached |-> FALSE, inheaders |-> TRUE]

InputInit ==
  /\ job \in Jobs /\ stream = 0 /\ input = <<>>
  /\ marker = reset_marker_reader /\ frame = NoFrame /\ tables = {}
  /\ sos = [comps |-> <<>>] /\ input_scan_number = 0 /\ output_scan_number = 0
  /\ inputctl = reset_input_controller /\ geom = <<>> /\ scan = <<>> /\ latched = {}
  /\ entropy = [coef_bits |-> <<>>] /\ icoef = [full |-> FALSE] /\ whole = <<>>
  /\ call = NoCall /\ failed = NoError

-----------------------------------------------------------------------------
(* next_marker passes over data; first_marker does not.                        *)
FromMarker(toks) ==
  LET marks == {i \in DOMAIN toks : toks[i].t \notin Data}
  IN IF marks = {} THEN <<[t |-> "EOI"]>> ELSE SubSeq(toks, Min(marks), Len(toks))
TakeMarker ==
  /\ marker' = [marker EXCEPT !.unread = Head(FromMarker(input))]
  /\ input' = Tail(FromMarker(input))

Reading == call.pc = "input" /\ failed = NoError
ReadingMarkers == Reading /\ inputctl.consume = "markers" /\ ~inputctl.eoi_reached

next_marker ==
  /\ ReadingMarkers /\ marker.unread = NoMarker /\ marker.saw_SOI
  /\ TakeMarker /\ StaysIn
  /\ UNCHANGED <<frame, tables, sos, input_scan_number, output_scan_number, inputctl, geom, scan,
                 latched, entropy, icoef, whole>>

first_marker ==
  /\ ReadingMarkers /\ marker.unread = NoMarker /\ ~marker.saw_SOI
  /\ IF input # <<>> /\ Head(input).t = "SOI" THEN TakeMarker /\ StaysIn
     ELSE Fail("NO_SOI") /\ UNCHANGED <<marker, input>>
  /\ UNCHANGED <<frame, tables, sos, input_scan_number, output_scan_number, inputctl, geom, scan,
                 latched, entropy, icoef, whole>>

-----------------------------------------------------------------------------
(* The bodies of the markers.  Each is read as a whole or not at all.          *)
At(t) == ReadingMarkers /\ marker.unread.t = t
MarkerDone == marker' = [marker EXCEPT !.unread = NoMarker]
BodyOnly == UNCHANGED <<input, sos, input_scan_number, output_scan_number, inputctl, geom, scan,
                        latched, entropy, icoef, whole>>

get_soi ==
  /\ At("SOI") /\ BodyOnly /\ UNCHANGED tables
  /\ IF marker.saw_SOI THEN Fail("SOI_DUPLICATE") /\ UNCHANGED <<marker, frame>>
     ELSE /\ marker' = [marker EXCEPT !.unread = NoMarker, !.saw_SOI = TRUE]
          /\ frame' = [frame EXCEPT !.restart_interval = 0, !.JFIF = FALSE, !.Adobe = -1]
          /\ StaysIn

get_sof ==
  LET m == marker.unread
      error == IF marker.saw_SOF THEN "SOF_DUPLICATE"
               ELSE IF m.height <= 0 \/ m.width <= 0 \/ m.comps = <<>> THEN "EMPTY_IMAGE"
               ELSE NoError
  IN /\ At("SOF") /\ BodyOnly /\ UNCHANGED tables
     /\ IF error # NoError THEN Fail(error) /\ UNCHANGED <<marker, frame>>
        ELSE /\ marker' = [marker EXCEPT !.unread = NoMarker, !.saw_SOF = TRUE]
             /\ frame' = [frame EXCEPT !.image_height = m.height, !.image_width = m.width,
                                       !.comp_info = m.comps, !.progressive = (m.code = "SOF2")]
             /\ StaysIn

get_dqt_or_dht(t) ==
  /\ At(t) /\ BodyOnly /\ MarkerDone /\ StaysIn /\ UNCHANGED frame
  /\ tables' = tables \cup {<<marker.unread.class, marker.unread.n>>}
get_dqt == get_dqt_or_dht("DQT")
get_dht == get_dqt_or_dht("DHT")

get_dri ==
  /\ At("DRI") /\ BodyOnly /\ MarkerDone /\ StaysIn /\ UNCHANGED tables
  /\ frame' = [frame EXCEPT !.restart_interval = marker.unread.interval]

get_interesting_appn ==
  /\ At("APP0") \/ At("APP14")
  /\ BodyOnly /\ MarkerDone /\ StaysIn /\ UNCHANGED tables
  /\ frame' = IF marker.unread.t = "APP0" THEN [frame EXCEPT !.JFIF = TRUE]
              ELSE [frame EXCEPT !.Adobe = marker.unread.transform]

(* skip_variable for a comment; a restart marker out of place means nothing;   *)
(* anything else that is no marker of a JPEG file ends the job.                *)
skip_marker ==
  /\ At("COM") \/ At("RST") \/ At("BAD")
  /\ BodyOnly /\ UNCHANGED <<tables, frame>>
  /\ IF marker.unread.t = "BAD" THEN Fail("UNKNOWN_MARKER") /\ UNCHANGED marker
     ELSE MarkerDone /\ StaysIn

-----------------------------------------------------------------------------
(* start_input_pass: per_scan_setup, latch_quant_tables, the entropy decoder's *)
(* start_pass and the coefficient controller's.                                *)
ScanSetup(f, g, s) == per_scan_setup(f, g, s)

HuffTables(f, s) ==
  UNION {IF ~f.progressive THEN {<<"dc", s.tbls[i].dc>>, <<"ac", s.tbls[i].ac>>}
         ELSE IF s.Ss # 0 THEN {<<"ac", s.tbls[i].ac>>}
         ELSE IF s.Ah = 0 THEN {<<"dc", s.tbls[i].dc>>}
         ELSE {} : i \in DOMAIN s.comps}

bad_progression(s) ==
  \/ s.Ss = 0 /\ s.Se # 0
  \/ s.Ss # 0 /\ (s.Ss > s.Se \/ s.Se > LastCoef \/ Len(s.comps) # 1)
  \/ s.Ah # 0 /\ s.Al # s.Ah - 1
  \/ s.Al > 13

start_input_error(f, g, s) ==
  IF /\ Len(s.comps) > 1
     /\ blocks_in_MCU(ScanSetup(f, g, s)) > C_MAX_BLOCKS_IN_MCU THEN "BAD_MCU_SIZE"
  ELSE IF \E c \in ToSet(s.comps) \ latched : <<"q", f.comp_info[c].quant>> \notin tables THEN "NO_QUANT_TABLE"
  ELSE IF f.progressive /\ bad_progression(s) THEN "BAD_PROGRESSION"
  ELSE IF HuffTables(f, s) \ tables # {} THEN "NO_HUFF_TABLE"
  ELSE NoError

(* coef_bits of a component and coefficient: -1 when no scan carried it yet.   *)
coef_bits_after(bits, f, s) ==
  IF ~f.progressive THEN bits
  ELSE [c \in DOMAIN bits |-> [k \in 0 .. LastCoef |->
          IF c \in ToSet(s.comps) /\ k \in s.Ss .. s.Se THEN s.Al ELSE bits[c][k]]]

start_pass_decoder(bits, f, s) ==
  [restarts_to_go |-> f.restart_interval, insufficient_data |-> FALSE, spoiled |-> FALSE,
   coef_bits |-> coef_bits_after(bits, f, s)]

MCU_rows_per_iMCU_row(sc, g, row) ==
  IF Len(sc.comps) > 1 THEN 1
  ELSE IF row < g.total_iMCU_rows - 1 THEN g.comps[sc.comps[1]].v
  ELSE sc.cur[1].last_row_height

start_iMCU_row(sc, g, full, row) ==
  [full |-> full, input_iMCU_row |-> row, MCU_ctr |-> 0, MCU_vert_offset |-> 0,
   rows |-> MCU_rows_per_iMCU_row(sc, g, row)]

(* The scan s of a frame f with geometry g begins; full says whether there are *)
(* coefficient arrays, bits what coef_bits was before.                         *)
start_input_pass(f, g, s, full, bits) ==
  LET sc == ScanSetup(f, g, s)
  IN /\ scan' = sc
     /\ latched' = latched \cup ToSet(s.comps)
     /\ entropy' = start_pass_decoder(bits, f, s)
     /\ icoef' = start_iMCU_row(sc, g, full, 0)

-----------------------------------------------------------------------------
(* get_sos, and what consume_markers does when read_markers reports it: the    *)
(* first one ends the header, another one begins the next scan.                *)
sos_error(m) ==
  IF ~marker.saw_SOF THEN "SOS_NO_SOF"
  ELSE IF Len(m.comps) \notin 1 .. MAX_COMPS_IN_SCAN THEN "BAD_LENGTH"
  ELSE IF \E i \in DOMAIN m.comps : \A c \in DOMAIN frame.comp_info : frame.comp_info[c].id # m.comps[i].id
            THEN "BAD_COMPONENT_ID"
  ELSE NoError

cur_comp_info(m) ==
  [i \in DOMAIN m.comps |->
     Min({c \in DOMAIN frame.comp_info : frame.comp_info[c].id = m.comps[i].id})]

NewSos(m) == [comps |-> cur_comp_info(m), Ss |-> m.Ss, Se |-> m.Se, Ah |-> m.Ah, Al |-> m.Al,
              tbls |-> [i \in DOMAIN m.comps |-> [dc |-> m.comps[i].dc, ac |-> m.comps[i].ac]]]

(* initial_setup of the decoder derives what the compressor's does.            *)
frame_setup(f) == initial_setup(f)
has_multiple_scans(m) == Len(m.comps) < Len(frame.comp_info) \/ frame.progressive

AfterSOS ==
  /\ marker' = [marker EXCEPT !.unread = NoMarker, !.next_restart_num = 0]
  /\ sos' = NewSos(marker.unread)
  /\ input_scan_number' = input_scan_number + 1

get_sos_first ==
  LET m == marker.unread
      error == IF sos_error(m) # NoError THEN sos_error(m) ELSE initial_setup_error(frame)
  IN /\ At("SOS") /\ inputctl.inheaders
     /\ UNCHANGED <<input, frame, tables, output_scan_number, scan, latched, entropy, icoef, whole>>
     /\ IF error # NoError THEN Fail(error) /\ UNCHANGED <<marker, sos, input_scan_number, inputctl, geom>>
        ELSE /\ AfterSOS /\ geom' = frame_setup(frame)
             /\ inputctl' = [inputctl EXCEPT !.inheaders = FALSE,
                               !.has_multiple_scans = has_multiple_scans(m)]
             /\ Returns("REACHED_SOS")

get_sos_later ==
  LET m == marker.unread
      error == IF sos_error(m) # NoError THEN sos_error(m)
               ELSE IF ~inputctl.has_multiple_scans THEN "EOI_EXPECTED"
               ELSE start_input_error(frame, geom, NewSos(m))
  IN /\ At("SOS") /\ ~inputctl.inheaders
     /\ UNCHANGED <<input, frame, tables, output_scan_number, geom, whole>>
     /\ IF error # NoError
        THEN Fail(error) /\ UNCHANGED <<marker, sos, input_scan_number, inputctl, scan, latched, entropy, icoef>>
        ELSE /\ AfterSOS
             /\ start_input_pass(frame, geom, NewSos(m), icoef.full, entropy.coef_bits)
             /\ inputctl' = [inputctl EXCEPT !.consume = "data"]
             /\ Returns("REACHED_SOS")

(* consume_markers at the end of the file.                                     *)
clamped_output_scan_kept(number) == number
clamped_output_scan(number) == IF number > input_scan_number THEN input_scan_number ELSE number
reach_eoi ==
  /\ At("EOI") /\ MarkerDone
  /\ inputctl' = [inputctl EXCEPT !.eoi_reached = TRUE]
  /\ output_scan_number' = IF inputctl.inheaders THEN output_scan_number
                           ELSE clamped_output_scan(output_scan_number)
  /\ IF inputctl.inheaders /\ marker.saw_SOF THEN Fail("SOF_NO_SOS") ELSE Returns("REACHED_EOI")
  /\ UNCHANGED <<input, frame, tables, sos, input_scan_number, geom, scan, latched, entropy, icoef, whole>>

consume_after_eoi ==
  /\ Reading /\ inputctl.consume = "markers" /\ inputctl.eoi_reached
  /\ Returns("REACHED_EOI") /\ UNCHANGED inputVars

-----------------------------------------------------------------------------
(* read_restart_marker and jpeg_resync_to_restart: what is done with a marker  *)
(* that stands where the restart marker desired should be.                     *)
resync_action_next_only(m, desired) ==
  IF m.t = "BAD" THEN 2
  ELSE IF m.t # "RST" THEN 3
  ELSE IF m.n = (desired + 1) % 8 THEN 3
  ELSE IF m.n \in {(desired - 1) % 8, (desired - 2) % 8} THEN 2
  ELSE 1
resync_action(m, desired) ==
  IF m.t = "BAD" THEN 2
  ELSE IF m.t # "RST" THEN 3
  ELSE IF m.n \in {(desired + 1) % 8, (desired + 2) % 8} THEN 3
  ELSE IF m.n \in {(desired - 1) % 8, (desired - 2) % 8} THEN 2
  ELSE 1

ReadingData == Reading /\ inputctl.consume = "data"
RestartDue == scan.restart_interval > 0 /\ entropy.restarts_to_go = 0
Action == resync_action(marker.unread, marker.next_restart_num)

(* The next marker is needed: there is none yet, or the one there is a stray.  *)
find_restart ==
  /\ RestartDue
  /\ marker.unread = NoMarker \/ Action = 2
  /\ TakeMarker
  /\ UNCHANGED entropy

(* process_restart: the marker found is the one desired, or is taken for it,   *)
(* or is left for later, and then the decoder is still out of data.            *)
process_restart ==
  LET found == Action = 1
  IN /\ RestartDue
     /\ marker.unread # NoMarker /\ Action # 2
     /\ marker' = [marker EXCEPT !.unread = IF found THEN NoMarker ELSE @,
                                 !.next_restart_num = (@ + 1) % 8]
     /\ entropy' = [entropy EXCEPT !.restarts_to_go = scan.restart_interval, !.spoiled = FALSE,
                                   !.insufficient_data = IF found THEN FALSE ELSE @]
     /\ UNCHANGED input

(* What decode_mcu may make of the input.  A block that absorbs the data of a  *)
(* scan gets <<scan, the place the data was made for>>; without data it stays  *)
(* as it is; after a damaged MCU the decoder has lost its place in the bits,   *)
(* and makes something of any amount of them until the next marker.            *)
Junk(number) == <<number, <<0, 0, 0>>>>
LeadingData ==
  LET marks == {i \in DOMAIN input : input[i].t \notin Data}
  IN IF marks = {} THEN Len(input) ELSE Min(marks) - 1
MCUTaken(entries, count, spoiled) ==
  [entries |-> entries, input |-> SubSeq(input, count + 1, Len(input)), marker |-> marker,
   insufficient |-> FALSE, spoiled |-> spoiled]

decode_mcu ==
  LET All(entries) == [i \in 1 .. blocks_in_MCU(scan) |-> entries]
      junk == All({Junk(input_scan_number)})
      hit == [entries |-> junk, input |-> Tail(FromMarker(input)),
              marker |-> [marker EXCEPT !.unread = Head(FromMarker(input))],
              insufficient |-> TRUE, spoiled |-> entropy.spoiled]
  IN IF entropy.insufficient_data
     THEN {[MCUTaken(All({}), 0, entropy.spoiled) EXCEPT !.insufficient = TRUE]}
     ELSE IF marker.unread # NoMarker
     THEN {[MCUTaken(junk, 0, entropy.spoiled) EXCEPT !.insufficient = TRUE]}
     ELSE IF input = <<>> \/ Head(input).t \notin Data THEN {hit}
     ELSE IF entropy.spoiled
     THEN {MCUTaken(junk, k, TRUE) : k \in 0 .. AtMost(2, LeadingData)}
     ELSE IF Head(input).t = "GAP" THEN {MCUTaken(junk, 1, TRUE)}
     ELSE {MCUTaken([i \in 1 .. blocks_in_MCU(scan) |->
                       {<<Head(input).scan, Head(input).places[i]>>}], 1, FALSE)}

(* The decoder's state after the MCU mcu; restarts_to_go counts it.            *)
MCUDone(mcu) ==
  /\ input' = mcu.input /\ marker' = mcu.marker
  /\ entropy' = [entropy EXCEPT !.insufficient_data = mcu.insufficient, !.spoiled = mcu.spoiled,
                                !.restarts_to_go = IF scan.restart_interval = 0 THEN @ ELSE @ - 1]

-----------------------------------------------------------------------------
(* consume_data: the blocks of the MCU at the controller's position.           *)
Places ==
  LET Of(i) ==
        LET c == scan.comps[i]
            cur == scan.cur[i]
        IN [n \in 1 .. cur.MCU_width * cur.MCU_height |->
             <<c, icoef.input_iMCU_row * geom.comps[c].v + icoef.MCU_vert_offset
                    + ((n - 1) \div cur.MCU_width),
               icoef.MCU_ctr * cur.MCU_width + ((n - 1) % cur.MCU_width)>>]
  IN FlattenSeq([i \in DOMAIN scan.comps |-> Of(i)])

Absorb(arrays, places, entries) ==
  [c \in DOMAIN arrays |-> [y \in DOMAIN arrays[c] |-> [x \in DOMAIN arrays[c][y] |->
     arrays[c][y][x] \cup UNION {entries[i] : i \in {j \in DOMAIN places : places[j] = <<c, y, x>>}}]]]

EndOfRow == icoef.MCU_ctr + 1 = scan.MCUs_per_row
EndOfIMCURow == EndOfRow /\ icoef.MCU_vert_offset + 1 = icoef.rows
NextPosition ==
  IF EndOfRow THEN [icoef EXCEPT !.MCU_ctr = 0, !.MCU_vert_offset = @ + 1]
  ELSE [icoef EXCEPT !.MCU_ctr = @ + 1]

(* The last MCU of a row of iMCUs: the next row, or the end of the scan.       *)
LastIMCURow == icoef.input_iMCU_row + 1 = geom.total_iMCU_rows
NextIMCURow ==
  IF LastIMCURow THEN [icoef EXCEPT !.input_iMCU_row = @ + 1]
  ELSE start_iMCU_row(scan, geom, icoef.full, icoef.input_iMCU_row + 1)
finish_input_pass == [inputctl EXCEPT !.consume = "markers"]

consume_data ==
  /\ ReadingData /\ icoef.full /\ ~RestartDue
  /\ \E mcu \in decode_mcu : MCUDone(mcu) /\ whole' = Absorb(whole, Places, mcu.entries)
  /\ icoef' = IF EndOfIMCURow THEN NextIMCURow ELSE NextPosition
  /\ inputctl' = IF EndOfIMCURow /\ LastIMCURow THEN finish_input_pass ELSE inputctl
  /\ IF ~EndOfIMCURow THEN StaysIn
     ELSE Returns(IF LastIMCURow THEN "SCAN_COMPLETED" ELSE "ROW_COMPLETED")
  /\ UNCHANGED <<frame, tables, sos, input_scan_number, output_scan_number, geom, scan, latched>>

restart ==
  /\ ReadingData /\ icoef.full
  /\ find_restart \/ process_restart
  /\ StaysIn
  /\ UNCHANGED <<frame, tables, sos, input_scan_number, output_scan_number, inputctl, geom, scan,
                 latched, icoef, whole>>

(* Without coefficient arrays the data is the output side's; what is asked for *)
(* it here is refused.                                                         *)
dummy_consume_data ==
  /\ ReadingData /\ ~icoef.full
  /\ call' = NoCall /\ UNCHANGED failed /\ UNCHANGED inputVars

read_markers ==
  \/ first_marker \/ next_marker \/ get_soi \/ get_sof \/ get_sos_first \/ get_sos_later
  \/ get_dqt \/ get_dht \/ get_dri \/ get_interesting_appn \/ skip_marker \/ reach_eoi
ReadsInput == read_markers \/ consume_data \/ restart
consume_input == ReadsInput \/ consume_after_eoi \/ dummy_consume_data

(* The source has nothing to read: the call returns, to be made again.         *)
NeedsInput ==
  IF inputctl.consume = "markers"
  THEN ~inputctl.eoi_reached /\ marker.unread.t \notin {"SOI", "EOI", "RST", "BAD"}
  ELSE IF RestartDue THEN marker.unread = NoMarker \/ Action = 2
       ELSE ~entropy.insufficient_data /\ marker.unread = NoMarker

fill_input_buffer_refuses ==
  /\ job.suspends /\ Reading /\ NeedsInput
  /\ inputctl.consume = "data" => icoef.full
  /\ call' = NoCall /\ UNCHANGED failed /\ UNCHANGED inputVars
=============================================================================
