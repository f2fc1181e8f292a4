----------------------------- MODULE JpegStream ------------------------------
(* What a JPEG writer promises, whatever its passes, buffers and suspensions:  *)
(* the stream of an image grows along the one sequence of markers and MCUs     *)
(* that belongs to the image.                                                  *)
EXTENDS Sequences, SequencesExt

CONSTANTS Streams,  \* the images, as a function to the stream of each
          NoImage

VARIABLES image,    \* the image being written, or NoImage
          file,     \* the markers and MCUs of it written so far
          finished  \* the last stream that was completed

-----------------------------------------------------------------------------
(* The abstract writer: it takes an image up, extends its stream, and lets go  *)
(* of it, complete, or (the application gave up) wherever it stands.           *)
StreamInit == image = NoImage /\ file = <<>> /\ finished = <<>>
Begin ==
  /\ image = NoImage /\ image' # NoImage
  /\ IsPrefix(file', Streams[image']) /\ UNCHANGED finished
Extend ==
  /\ image # NoImage /\ image' = image /\ UNCHANGED finished
  /\ IsPrefix(file, file') /\ IsPrefix(file', Streams[image])
Complete == image # NoImage /\ image' = NoImage /\ file' = <<>> /\ finished' = Streams[image]
GiveUp == image # NoImage /\ image' = NoImage /\ file' = <<>> /\ UNCHANGED finished
StreamNext == Begin \/ Extend \/ Complete \/ GiveUp
StreamSpec == StreamInit /\ [][StreamNext]_<<image, file, finished>>
=============================================================================
