----------------------------- MODULE JpegArray ------------------------------
(***************************************************************************)
(* What a virtual array promises: an array of rows.  An access names some   *)
(* rows and shows them, every row as it was last left; a row no one has     *)
(* claimed yet is zero, or of any content when zeroing was not asked for.   *)
(* A writer fills the rows in order, so that the rows below first_undef_row *)
(* are the ones that hold something.                                        *)
(***************************************************************************)
EXTENDS Integers

CONSTANTS RowValue, Zero, MaxRows

VARIABLES
  rows,             \* the rows that hold something, by number
  pre_zero,         \* rows not claimed yet are zero
  seen              \* what the last access showed

Init == rows = [r \in {} |-> Zero] /\ seen = [r \in {} |-> Zero]

Shown(start, num) == start .. start + num - 1
Fresh(r) == r \notin DOMAIN rows

(* Rows may be looked at where they hold something, and anywhere when they are *)
(* zeroed; looking changes none.                                              *)
Look ==
  \E start, num \in 0 .. MaxRows :
    /\ pre_zero \/ \A r \in Shown(start, num) : ~Fresh(r)
    /\ seen' = [r \in Shown(start, num) |-> IF Fresh(r) THEN Zero ELSE rows[r]]
    /\ UNCHANGED rows

(* A writer claims rows: the new ones join the array, the others are as left.  *)
Claim ==
  \E start, num \in 0 .. MaxRows :
    /\ seen' \in [Shown(start, num) -> RowValue]
    /\ \A r \in Shown(start, num) :
         IF Fresh(r) THEN pre_zero => seen'[r] = Zero ELSE seen'[r] = rows[r]
    /\ rows' = [r \in DOMAIN rows \cup Shown(start, num) |-> IF Fresh(r) THEN seen'[r] ELSE rows[r]]

(* A row shown to a writer is filled.                                         *)
Put == \E r \in DOMAIN rows, v \in RowValue :
  rows' = [rows EXCEPT ![r] = v] /\ UNCHANGED seen

Next == (Look \/ Claim \/ Put) /\ UNCHANGED pre_zero
Spec == Init /\ [][Next]_<<rows, pre_zero, seen>>
=============================================================================
