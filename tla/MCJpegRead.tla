----------------------------- MODULE MCJpegRead ------------------------------
(* The decompressor for TLC: small files, whole and damaged, and the ways an   *)
(* application may read them, on blocks of two rows.                           *)
EXTENDS JpegDecompress

Base == [image_height |-> 3, image_width |-> 3, jpeg_color_space |-> "GRAYSCALE",
         comp_info |-> <<Comp(1, 1, 1, 0, 0)>>, jfif |-> TRUE, adobe |-> FALSE,
         scan_info |-> <<>>, restart_interval |-> 0, restart_in_rows |-> 0]
TwoComps == <<Comp(1, 2, 2, 0, 0), Comp(2, 1, 1, 1, 1)>>
Two == [Base EXCEPT !.image_height = 10, !.image_width = 5, !.comp_info = TwoComps,
                    !.jfif = FALSE, !.restart_in_rows = 1]
Three == [Base EXCEPT !.image_height = 5, !.image_width = 3,
                      !.comp_info = <<Comp(1, 2, 2, 0, 0), Comp(2, 1, 1, 1, 1), Comp(3, 1, 1, 1, 1)>>]
Rgb == [Three EXCEPT !.image_height = 10, !.jfif = FALSE, !.adobe = TRUE, !.jpeg_color_space = "RGB"]
TwoScans == <<[comps |-> <<1>>, Ss |-> 0, Se |-> LastCoef, Ah |-> 0, Al |-> 0],
              [comps |-> <<2>>, Ss |-> 0, Se |-> LastCoef, Ah |-> 0, Al |-> 0]>>
ThreeScans == <<[comps |-> <<1, 2>>, Ss |-> 0, Se |-> 0, Ah |-> 0, Al |-> 1],
                [comps |-> <<1>>, Ss |-> 1, Se |-> LastCoef, Ah |-> 0, Al |-> 0],
                [comps |-> <<1, 2>>, Ss |-> 0, Se |-> 0, Ah |-> 1, Al |-> 0]>>
Separate == [Two EXCEPT !.scan_info = TwoScans, !.restart_in_rows = 0, !.image_height = 5]
Progressive == [Two EXCEPT !.scan_info = ThreeScans]
SmallProgressive == [Progressive EXCEPT !.image_height = 3, !.image_width = 3, !.restart_in_rows = 0]
MergedProgressive == [Three EXCEPT !.scan_info =
  <<[comps |-> <<1, 2, 3>>, Ss |-> 0, Se |-> 0, Ah |-> 0, Al |-> 1],
    [comps |-> <<1, 2, 3>>, Ss |-> 0, Se |-> 0, Ah |-> 1, Al |-> 0]>>]
(* Ten segments of one MCU.                                                    *)
Wide == [Base EXCEPT !.image_width = 19, !.image_height = 1, !.restart_interval = 1]
(* Segments of two MCUs, in two scans.                                         *)
Segments == [Separate EXCEPT !.image_height = 3, !.restart_interval = 2]

Tables == std_huff_tables(jpeg_set_quality(jpeg_alloc_tables, "75"))
Whole(im) == File(im, Tables)
Carried(toks) ==
  UNION {{<<toks[i].scan, toks[i].places[k]>> : k \in DOMAIN toks[i].places} :
           i \in {j \in DOMAIN toks : toks[j].t = "MCU"}}

Job(im) ==
  [im |-> <<im>>, files |-> <<Whole(im)>>, survives |-> <<Carried(Whole(im))>>, intact |-> TRUE,
   mode |-> "scanlines", fancy |-> TRUE, smooth |-> FALSE, quant |-> "none", size |-> DCTSIZE,
   lines |-> 2, suspends |-> FALSE, targets |-> {}, eager |-> FALSE, early |-> FALSE,
   grey |-> FALSE, passes |-> 0]

(* Damage.  Lost says which segments <<scan, segment>> cannot be recovered.    *)
Tok(t) == [t |-> t]
IsMCU(tok, n, seg) == tok.t = "MCU" /\ tok.scan = n /\ tok.seg = seg
IsRST(tok, seg) == tok.t = "RST" /\ tok.seg = seg
Without(toks, Bad(_)) == SelectSeq(toks, LAMBDA tok : ~Bad(tok))
Damaged(im, toks, lost) ==
  [Job(im) EXCEPT !.files = <<toks>>, !.intact = FALSE,
     !.survives = <<Carried(SelectSeq(Whole(im),
                       LAMBDA tok : tok.t = "MCU" /\ <<tok.scan, tok.seg>> \notin lost))>>]
Gapped(toks, n, seg) ==
  [i \in DOMAIN toks |->
     IF IsMCU(toks[i], n, seg) /\ ~\E j \in 1 .. i - 1 : IsMCU(toks[j], n, seg)
     THEN Tok("GAP") ELSE toks[i]]
(* A segment and its restart marker come twice.                                *)
Twice(toks, n, seg) ==
  FlattenSeq([i \in DOMAIN toks |->
    IF i < Len(toks) /\ IsRST(toks[i], seg) /\ IsMCU(toks[i + 1], n, seg)
    THEN <<toks[i], toks[i + 1], toks[i], toks[i + 1]>> ELSE <<toks[i]>>])
Stray(toks, n, seg) ==
  FlattenSeq([i \in DOMAIN toks |->
    IF IsMCU(toks[i], n, seg) /\ ~\E j \in 1 .. i - 1 : IsMCU(toks[j], n, seg)
    THEN <<toks[i], Tok("BAD")>> ELSE <<toks[i]>>])

DamagedJobs ==
  {Damaged(Wide, Without(Whole(Wide), LAMBDA t : IsRST(t, 3)), {<<1, 3>>}),
   Damaged(Wide, Without(Whole(Wide), LAMBDA t : IsRST(t, 3) \/ IsMCU(t, 1, 3)
                                                 \/ IsRST(t, 4) \/ IsMCU(t, 1, 4)), {<<1, 3>>, <<1, 4>>}),
   Damaged(Wide, Gapped(Whole(Wide), 1, 8), {<<1, 8>>}),
   Damaged(Wide, Twice(Whole(Wide), 1, 8), {}),
   Damaged(Wide, SubSeq(Whole(Wide), 1, Len(Whole(Wide)) - 5), {<<1, 8>>, <<1, 9>>})}
  \cup
  {[d EXCEPT !.mode = "coefficients"] : d \in
    {Damaged(Segments, Gapped(Whole(Segments), 1, 1), {<<1, 1>>}),
     Damaged(Segments, Stray(Whole(Segments), 1, 1), {<<1, 1>>}),
     Damaged(Wide, Without(Whole(Wide), LAMBDA t : t.t \in {"RST", "MCU"} /\ t.seg \in {3, 4}),
             {<<1, 3>>, <<1, 4>>}),
     Damaged(Segments, Without(Whole(Segments), LAMBDA t : t.t \in {"RST", "MCU"} /\ t.seg = 1),
             {<<1, 1>>, <<2, 1>>})}}

-----------------------------------------------------------------------------
(* Tables in one datastream and the image in the next; files no image is in.   *)
TablesOnly == write_tables_only(Writer(Tables))
Abbreviated == [Job(Base) EXCEPT !.im = <<Base, Base>>,
                  !.files = <<TablesOnly.toks, File(Base, TablesOnly.tables)>>,
                  !.survives = <<{}, Carried(Whole(Base))>>]
NoTables == [Job(Base) EXCEPT !.files = <<File(Base, TablesOnly.tables)>>]
Bad(toks) == [Job(Base) EXCEPT !.files = <<toks>>, !.intact = FALSE]
BadJobs ==
  {NoTables, Bad(TablesOnly.toks), Bad(Tail(Whole(Base))), Bad(<<Tok("SOI")>> \o Whole(Base)),
   Bad(<<Tok("SOI"), Tok("BAD")>> \o Tail(Whole(Base))),
   Bad(<<Tok("SOI"), [t |-> "SOS", Ss |-> 0, Se |-> LastCoef, Ah |-> 0, Al |-> 0, comps |-> <<>>]>>),
   Bad(SelectSeq(Whole(Base), LAMBDA t : t.t \notin {"SOS", "MCU"})),
   Bad(FlattenSeq([i \in DOMAIN Whole(Base) |->
         IF Whole(Base)[i].t = "EOI" THEN SelectSeq(Whole(Base), LAMBDA t : t.t = "SOS")
         ELSE <<Whole(Base)[i]>>])),
   [Job(Segments) EXCEPT !.files = <<SelectSeq(Whole(Segments), LAMBDA t : ~(t.t = "DHT" /\ t.n = 1))>>,
                         !.intact = FALSE],
   Bad(FlattenSeq([i \in DOMAIN Whole(Base) |->
         IF Whole(Base)[i].t = "SOF" THEN <<Whole(Base)[i], Whole(Base)[i]>> ELSE <<Whole(Base)[i]>>])),
   Job([Three EXCEPT !.comp_info[1] = Comp(1, 3, 2, 0, 0), !.comp_info[2] = Comp(2, 2, 1, 1, 1)]),
   [Job(Three) EXCEPT !.mode = "raw", !.quant = "1pass"]}

GoodJobs ==
  {[Job(Two) EXCEPT !.suspends = TRUE],
   [Job(Three) EXCEPT !.fancy = FALSE],
   [Job([Two EXCEPT !.image_height = 8]) EXCEPT !.lines = 1],
   [Job(Two) EXCEPT !.fancy = FALSE, !.quant = "2pass"],
   [Job(Rgb) EXCEPT !.fancy = FALSE, !.quant = "2pass"],
   [Job(Rgb) EXCEPT !.quant = "2pass", !.lines = 3],
   [Job(Three) EXCEPT !.fancy = FALSE, !.quant = "2pass"],
   [Job(Two) EXCEPT !.quant = "1pass", !.size = 1],
   [Job(Three) EXCEPT !.grey = TRUE, !.eager = TRUE, !.early = TRUE, !.lines = 1],
   [Job(Two) EXCEPT !.mode = "raw", !.suspends = TRUE],
   [Job(SmallProgressive) EXCEPT !.suspends = TRUE, !.lines = 1],
   [Job(SmallProgressive) EXCEPT !.suspends = TRUE, !.eager = TRUE, !.quant = "1pass"],
   [Job(Progressive) EXCEPT !.mode = "coefficients", !.suspends = TRUE],
   [Job(Progressive) EXCEPT !.smooth = TRUE],
   [Job(Progressive) EXCEPT !.mode = "buffered", !.smooth = TRUE, !.targets = {1, 2, 9}, !.passes = 3,
                            !.lines = 2],
   [Job(SmallProgressive) EXCEPT !.mode = "buffered", !.targets = {0, 2, 9},
                            !.passes = 2, !.lines = 2, !.eager = TRUE],
   [Job(MergedProgressive) EXCEPT !.mode = "buffered", !.fancy = FALSE, !.targets = {1, 2}, !.passes = 2,
                            !.early = TRUE, !.lines = 1],
   Abbreviated, [Job(Wide) EXCEPT !.suspends = TRUE]}

MCJobs == GoodJobs \cup DamagedJobs \cup BadJobs
(* A buffered image in separate scans, for the passes that begin too early.    *)
MCSeparate == {[Job(Separate) EXCEPT !.mode = "buffered", !.targets = {2}, !.passes = 1]}
=============================================================================
