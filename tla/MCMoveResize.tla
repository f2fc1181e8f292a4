---------------------------- MODULE MCMoveResize ----------------------------
(* A window of 4 by 4 and one of 6 by 2; rectangles of 3 to 15.  The sizes   *)
(* let a rectangle that had to be enlarged for the one be another that is   *)
(* sent for the other.                                                     *)
EXTENDS MoveResize

CONSTANTS plain, browser

Sizes == [w \in {plain, browser} |->
            IF w = plain THEN [a \in Axis |-> 4] ELSE [a \in Axis |-> IF a = "x" THEN 6 ELSE 2]]
Monitor == [a \in Axis |-> <<0, 20>>]
Start == [a \in Axis |-> IF a = "x" THEN <<-4, 3>> ELSE <<0, 3>>]
Gaps == [a \in Axis |-> IF a = "x" THEN {1, 2} ELSE {1}]
Grips == {[MB_NULL EXCEPT !["x"] = "first"], [MB_NULL EXCEPT !["y"] = "second"]}
=============================================================================
