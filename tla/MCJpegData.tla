----------------------------- MODULE MCJpegData ------------------------------
(***************************************************************************)
(* What libjpeg does with memory, codes, colours and samples, for TLC: one  *)
(* behaviour is about one part, the one named by part.  The virtual array    *)
(* and the pools have their own variables; the other parts take x1, x2, ...  *)
(* in the order of their VARIABLES.                                          *)
(***************************************************************************)
EXTENDS JpegVirtArray, JpegPools

VARIABLES part, x1, x2, x3, x4, x5, x6, x7, x8, x9, x10, x11, x12, x13, x14, x15, x16, x17

(* Unused variables.                                                        *)
from14 == <<x14, x15, x16, x17>>
from13 == <<x13, from14>>
from11 == <<x11, x12, from13>>
from5 == <<x5, x6, x7, x8, x9, x10, from11>>
from2 == <<x2, x3, x4, from5>>
Zero14 == x14 = 0 /\ x15 = 0 /\ x16 = 0 /\ x17 = 0
Zero13 == x13 = 0 /\ Zero14
Zero11 == x11 = 0 /\ x12 = 0 /\ Zero13
Zero5 == x5 = 0 /\ x6 = 0 /\ x7 = 0 /\ x8 = 0 /\ x9 = 0 /\ x10 = 0 /\ Zero11
Zero2 == x2 = 0 /\ x3 = 0 /\ x4 = 0 /\ Zero5
Zero1 == x1 = 0 /\ Zero2

-----------------------------------------------------------------------------
(* Pools: an object of five units does not fit beside another in the slop.   *)
V(rows, access, width) ==
  [rows_in_array |-> rows, maxaccess |-> access, width |-> width,
   realized |-> FALSE, rows_in_mem |-> 0, b_s_open |-> FALSE]
FirstSlop == [PERMANENT |-> 4, IMAGE |-> 10]
ExtraSlop == [PERMANENT |-> 0, IMAGE |-> 4]
SomeArrays == {V(5, 2, 3), V(4, 1, 1)}

(* Codes: five symbols and codes of at most three bits; the entropy coders    *)
(* with bytes of three bits, so that most of them are full of ones.          *)
Huffman == INSTANCE JpegHuffman WITH LastSymbol <- 4, MaxLength <- 3, MAX_CLEN <- 6, HUFF_LOOKAHEAD <- 2
Coefs == << <<3, 0, 0, 0, 2>>, <<-3, 1, 0, 3, 0>>, <<2, 0, -1, 0, 0>>, <<-1, 2, -3, 1, -1>>,
            <<0, 0, 0, 0, 0>>, <<1, 3, 0, 0, -1>>, <<0, 2, 2, 2, 0>>, <<1, 2, 3, -3, 1>> >>
Blocks == [b \in 1 .. 8 |-> [k \in 0 .. 4 |-> Coefs[b][k + 1]]]
Component(s) == [i \in 1 .. 3 |-> Blocks[s[i]]]
Scan(comps, ss, se, ah, al) == [comps |-> comps, Ss |-> ss, Se |-> se, Ah |-> ah, Al |-> al]
Sequential == <<Scan(<<1, 2>>, 0, 4, 0, 0)>>
Progressive ==
  <<Scan(<<1, 2>>, 0, 0, 0, 1), Scan(<<1>>, 1, 4, 0, 1), Scan(<<2>>, 1, 4, 0, 0),
    Scan(<<1>>, 1, 4, 1, 0), Scan(<<1, 2>>, 0, 0, 1, 0)>>
Entropy == INSTANCE JpegEntropy WITH
  W <- 3, LastCoef <- 4, Radix <- 4, MaxRun <- 2, MAX_COEF_BITS <- 2, MAX_CORR_BITS <- 6,
  MIN_GET_BITS <- 4, HUFF_LOOKAHEAD <- 2, MaxLength <- 4, MAX_CLEN <- 8,
  Images <- {<<Component(a), Component(b)>> :
               a \in {<<1, 2, 3>>, <<4, 5, 5>>, <<2, 6, 1>>, <<5, 7, 3>>, <<8, 3, 8>>},
               b \in {<<5, 5, 5>>, <<7, 7, 6>>}},
  Scripts <- {Sequential, Progressive}, Intervals <- {0, 1, 2}, Pieces <- {1, 3},
  image <- x1, script <- x2, restart_interval <- x3, scan <- x4, pass <- x5, enc <- x6, avail <- x7,
  dec <- x8, coef <- x9, warned <- x10

(* Colour maps, of samples of four bits.                                     *)
Quant2 == INSTANCE JpegQuant2 WITH
  MAXJSAMPLE <- 15, Shift <- <<2, 1, 2>>, Scale <- <<2, 3, 1>>, BoxLog <- <<1, 2, 1>>, HistMax <- 2,
  STEPSIZE <- 1, Desired <- {2, 3}, Maps <- {<< <<0, 0, 0>>, <<15, 15, 15>> >>}, Passes <- 2,
  Images <- {<< <<p, q>>, <<q, r>> >> : p \in {<<0, 0, 0>>, <<15, 15, 0>>},
                                         q \in {<<7, 12, 2>>, <<3, 1, 14>>},
                                         r \in {<<15, 3, 9>>, <<4, 1, 13>>}},
  image <- x1, desired <- x2, histogram <- x3, needs_zeroed <- x4, colormap <- x5, chosen <- x6,
  pass <- x7, passes <- x8, dithered <- x9, row <- x10, fserrors <- x11, on_odd_row <- x12,
  looked <- x13
Rows3(P, Q, R) == {<< <<p, q, p>>, <<q, r, p>>, <<r, r, p>> >> : p \in P, q \in Q, r \in R}
Quant1 == INSTANCE JpegQuant1 WITH
  MAXJSAMPLE <- 15, base_dither_matrix <- << <<0, 2>>, <<3, 1>> >>, Components <- {1, 3},
  Desired <- {1, 5, 8, 13, 16, 27}, Passes <- 2,
  Images <- Rows3({<<0, 0, 0>>, <<15, 13, 0>>}, {<<7, 12, 2>>, <<3, 1, 14>>}, {<<15, 3, 9>>, <<4, 1, 13>>})
            \cup Rows3({<<0>>, <<13>>}, {<<7>>, <<3>>}, {<<9>>, <<15>>}),
  image <- x1, nc <- x2, desired <- x3, rgb <- x4, Ncolors <- x5, colormap <- x6, colorindex <- x7,
  is_padded <- x8, odither <- x9, row_index <- x10, fserrors <- x11, on_odd_row <- x12,
  dither_mode <- x13, passes <- x14, row <- x15, output <- x16, looked <- x17

(* Blocks of eight by eight, as rows of samples.                             *)
Samples(f(_, _)) == [r \in 1 .. 8 |-> [c \in 1 .. 8 |-> f(r - 1, c - 1)]]
Dct == INSTANCE JpegDct WITH
  Blocks <- {Samples(LAMBDA y, x : 128), Samples(LAMBDA y, x : 255),
             Samples(LAMBDA y, x : 4 * x + 20 * y + 10),
             Samples(LAMBDA y, x : IF x < 4 THEN 0 ELSE 255),
             Samples(LAMBDA y, x : IF x = 2 /\ y = 5 THEN 255 ELSE 0)},
  Quants <- {Samples(LAMBDA r, c : 4 + (r + c) \div 2)}, Sizes <- {1, 2, 4, 8}, Passes <- 2, Tolerance <- 6,
  block <- x1, quantval <- x2, fdct_method <- x3, coefs <- x4, quant_table <- x5, size <- x6,
  dct_method <- x7, cur_method <- x8, dct_table <- x9, latched <- x10, passes <- x11, output <- x12

(* Pictures of four rows, wider than a whole number of chroma samples or not. *)
Picture(w, p, q, r) == [y \in 1 .. 4 |-> [x \in 1 .. w |-> IF x = w THEN r ELSE IF (x + y) % 3 = 0 THEN p ELSE q]]
SomeColours == {<<0, 0, 0>>, <<255, 0, 9>>, <<13, 200, 77>>}
Color == INSTANCE JpegColor WITH
  DCTSIZE <- 2, Expansions <- {<<1, 1>>, <<2, 1>>, <<2, 2>>, <<1, 2>>}, Smoothing <- {0, 60}, Junk <- 99,
  Pictures <- {Picture(w, p, q, r) : w \in {3, 6, 7}, p \in SomeColours,
                 q \in {<<255, 255, 255>>, <<13, 200, 77>>}, r \in {<<255, 255, 255>>, <<0, 0, 255>>}}
              \cup {Picture(7, p, p, p) : p \in SomeColours}
              \cup {Picture(5, <<7>>, <<200>>, <<90>>),
                    Picture(5, <<7, 0, 255, 3>>, <<200, 201, 202, 203>>, <<90, 0, 0, 255>>)},
  picture <- x1, jpeg_color_space <- x2, expand <- x3, smoothing_factor <- x4, planes <- x5, scaled <- x6,
  fancy <- x7, merged <- x8, out_color_space <- x9, full <- x10, output <- x11, stage <- x12

(* Files to transform: edges that are no whole iMCU, on blocks of two rows.  *)
Transform == INSTANCE JpegTransform WITH
  DCTSIZE <- 2, Sizes <- {<<7, 5>>, <<3, 9>>, <<12, 8>>},
  Samplings <- {<< <<1, 1>> >>, << <<2, 2>>, <<1, 1>>, <<1, 1>> >>, << <<2, 1>>, <<1, 1>>, <<1, 1>> >>,
                << <<1, 1>>, <<1, 1>>, <<1, 1>>, <<1, 1>> >>},
  MarkerLists <- {<<>>, <<"JFIF", "Com", "Exif">>, <<"JFIF", "JFXX", "Adobe0">>, <<"Adobe2", "Com">>,
                  <<"Exif", "Adobe1">>},
  src <- x1, info <- x2, dst <- x3, stage <- x4

-----------------------------------------------------------------------------
(* The virtual array and the pools, while the run is about another part.      *)
NoRows == Init /\ shape = (CHOOSE s \in Shapes : TRUE) /\ mem_buffer = [r \in DOMAIN mem_buffer |-> Zero]
NoPools == PoolsInit /\ max_memory_to_use = Max(Limits)
Idle == NoRows /\ NoPools
DataInit ==
  \/ part = "rows" /\ Init /\ NoPools /\ Zero1
  \/ part = "memory" /\ NoRows /\ PoolsInit /\ Zero1
  \/ part = "codes" /\ Idle /\ Zero2 /\ x1 \in [Huffman!Symbol -> {0, 1, 2, 3, 5, 8}] /\ \E s \in Huffman!Symbol : x1[s] > 0
  \/ part = "entropy" /\ Idle /\ Entropy!Init /\ Zero11
  \/ part = "two_pass" /\ Idle /\ Quant2!Init /\ Zero14
  \/ part = "one_pass" /\ Idle /\ Quant1!Init
  \/ part = "dct" /\ Idle /\ Dct!Init /\ Zero13
  \/ part = "colour" /\ Idle /\ Color!Init /\ Zero13
  \/ part = "transform" /\ Idle /\ Transform!Init /\ Zero5
DataNext ==
  \/ part = "rows" /\ Next /\ UNCHANGED <<part, poolvars, x1, from2>>
  \/ part = "memory" /\ PoolsNext /\ UNCHANGED <<part, vars, x1, from2>>
  \/ part = "entropy" /\ Entropy!Next /\ UNCHANGED <<part, vars, poolvars, from11>>
  \/ part = "two_pass" /\ Quant2!Next /\ UNCHANGED <<part, vars, poolvars, from14>>
  \/ part = "one_pass" /\ Quant1!Next /\ UNCHANGED <<part, vars, poolvars>>
  \/ part = "dct" /\ Dct!Next /\ UNCHANGED <<part, vars, poolvars, from13>>
  \/ part = "colour" /\ Color!Next /\ UNCHANGED <<part, vars, poolvars, from13>>
  \/ part = "transform" /\ Transform!Next /\ UNCHANGED <<part, vars, poolvars, from5>>
DataVars == <<vars, poolvars, part, x1, from2>>
DataSpec == DataInit /\ [][DataNext]_DataVars

-----------------------------------------------------------------------------
(* Each part's invariants (see its module).                                  *)
(* What the entropy coders write is what they read, with tables for every     *)
(* symbol counted.                                                            *)
CodesReadBack ==
  /\ part = "codes" => Huffman!TableSound(x1)
  /\ part = "entropy" => Entropy!ScansReadBack /\ Entropy!NeverWrong /\ Entropy!WaitingFits
(* Colour maps: the nearest colour of the map, errors within their limits.    *)
ColoursFit ==
  /\ part = "two_pass" => Quant2!NearestColour /\ Quant2!BoxesShareColours /\ Quant2!LimitsLookedUp
  /\ part = "one_pass" => Quant1!GridSound
(* Blocks and pictures come back near what they were; transformed files are    *)
(* the source's pixels, moved.                                                *)
SamplesComeBack ==
  /\ part = "dct" => Dct!BlockSurvives
  /\ part = "colour" => Color!PictureComesBack
  /\ part = "transform" => Transform!TransformIsLossless
=============================================================================
