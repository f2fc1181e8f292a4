------------------------------- MODULE MCJpeg --------------------------------
(* The compressor for TLC: small images that between them use every path of    *)
(* the controllers, on blocks of two rows.                                     *)
EXTENDS JpegCompress

Base == [image_height |-> 3, image_width |-> 3, jpeg_color_space |-> "GRAYSCALE",
         comp_info |-> <<Comp(1, 1, 1, 0, 0)>>, jfif |-> TRUE, adobe |-> FALSE,
         scan_info |-> <<>>, optimize_coding |-> FALSE, restart_interval |-> 0, restart_in_rows |-> 0,
         smoothing |-> FALSE, raw_data_in |-> FALSE, transcode |-> FALSE, quality |-> "75"]
Two == <<Comp(1, 2, 2, 0, 0), Comp(2, 1, 1, 1, 1)>>

(* h2v2 with both edges, rows and columns, in the last iMCU.                   *)
Colour == [Base EXCEPT !.image_height = 5, !.image_width = 5, !.comp_info = Two,
                       !.restart_in_rows = 1]
Smooth == [Colour EXCEPT !.smoothing = TRUE, !.restart_in_rows = 0, !.quality = "50"]
(* One component whose sampling factor is 2: two MCU rows in a row of iMCUs.   *)
Tall == [Base EXCEPT !.image_height = 7, !.comp_info = <<Comp(1, 1, 2, 0, 0)>>, !.restart_interval = 3]
(* Nine restarts in one scan.                                                  *)
Wide == [Base EXCEPT !.image_width = 19, !.image_height = 1, !.restart_interval = 1,
                     !.optimize_coding = TRUE]
Raw == [Colour EXCEPT !.raw_data_in = TRUE, !.optimize_coding = TRUE]
(* Separate scans: the main pass writes the first one.                         *)
Scans == [Colour EXCEPT !.scan_info =
            <<[comps |-> <<1>>, Ss |-> 0, Se |-> LastCoef, Ah |-> 0, Al |-> 0],
              [comps |-> <<2>>, Ss |-> 0, Se |-> LastCoef, Ah |-> 0, Al |-> 0]>>]
Progressive == [Colour EXCEPT !.scan_info =
            <<[comps |-> <<1, 2>>, Ss |-> 0, Se |-> 0, Ah |-> 0, Al |-> 1],
              [comps |-> <<1>>, Ss |-> 1, Se |-> LastCoef, Ah |-> 0, Al |-> 0],
              [comps |-> <<1, 2>>, Ss |-> 0, Se |-> 0, Ah |-> 1, Al |-> 0]>>]
Copied == [Colour EXCEPT !.transcode = TRUE, !.image_height = 4]
CopiedScans == [Scans EXCEPT !.transcode = TRUE, !.optimize_coding = TRUE]
(* Parameters the library refuses, before and in the middle of the image.      *)
BadScript == [Progressive EXCEPT !.scan_info = Tail(@)]
BadMCU == [Base EXCEPT !.comp_info = <<Comp(1, 4, 2, 0, 0), Comp(2, 1, 1, 1, 1), Comp(3, 2, 1, 1, 1)>>]
NoTable == [Base EXCEPT !.comp_info = <<Comp(1, 1, 1, 2, 0)>>]

(* What comes after another image: the tables it shares are not sent again.    *)
Small == [Base EXCEPT !.image_height = 1, !.image_width = 1]
SmallOptimized == [Small EXCEPT !.image_width = 3, !.optimize_coding = TRUE]
MCLater == {Small, SmallOptimized}
MCImages == MCLater \cup {Colour, Smooth, Tall, Wide, Raw, Scans, Progressive, Copied, CopiedScans,
             BadScript, BadMCU, NoTable}
=============================================================================
