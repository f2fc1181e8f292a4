---------------------------- MODULE JpegVirtArray ---------------------------
(***************************************************************************)
(* A virtual array of the JPEG library (jmemmgr.c): as many rows as fit are *)
(* in memory, a window that moves over the array; the others are in a       *)
(* temporary file.  Whole-image buffers of coefficients (jccoefct.c,        *)
(* jdcoefct.c, jctrans.c) and of samples (jdpostct.c) are such arrays.  The *)
(* calling code asks for a strip of rows, gets a pointer into the window,   *)
(* and may read, and when it asked for that write, through it.              *)
(***************************************************************************)
EXTENDS Integers

CONSTANTS
  RowValue,      \* what a row may hold
  Zero,       \* a row of zeroes
  MaxRows,    \* bound: the rows of an array
  MaxAccess   \* bound: the rows of a strip

ASSUME ValueAssumption == Zero \in RowValue
ASSUME RowsAssumption == MaxRows \in Nat /\ MaxAccess \in Nat

VARIABLES
  shape,            \* the fields request_virt_sarray and realize_virt_arrays fix
  cur_start_row,    \* the first row of the array that is in the window
  first_undef_row,  \* the rows below it hold something
  dirty,            \* the window has rows the file has not
  mem_buffer,       \* the rows of the window
  store,            \* the rows of the temporary file
  asked,            \* the last access: its rows, and whether it may write
  seen,             \* what it showed
  failed            \* an error exit was taken
vars == <<shape, cur_start_row, first_undef_row, dirty, mem_buffer, store, asked, seen, failed>>

Nothing == [start |-> 0, num |-> 0, writable |-> FALSE]
InWindow(cur) == cur .. cur + shape.rows_in_mem - 1
Rows(start, num) == start .. start + num - 1

-----------------------------------------------------------------------------
(* The memory given to the arrays is so many times their maximum access       *)
(* (max_minheights); an array that needs no more is wholly in memory, another  *)
(* gets that much and a temporary file.                                       *)
minheights(rows_in_array, maxaccess) == (rows_in_array - 1) \div maxaccess + 1
realized(rows_in_array, maxaccess, pre_zero, max_minheights) ==
  LET whole == minheights(rows_in_array, maxaccess) <= max_minheights
  IN [rows_in_array |-> rows_in_array, maxaccess |-> maxaccess, pre_zero |-> pre_zero,
      rows_in_mem |-> IF whole THEN rows_in_array ELSE max_minheights * maxaccess,
      b_s_open |-> ~whole]
Shapes == {realized(n, a, z, h) : n \in 1 .. MaxRows, a \in 1 .. MaxAccess, z \in BOOLEAN, h \in 1 .. MaxRows}

(* realize_virt_arrays: the window is at the start; what malloc gave is there. *)
Init ==
  /\ shape \in Shapes
  /\ cur_start_row = 0 /\ first_undef_row = 0 /\ dirty = FALSE
  /\ mem_buffer \in [0 .. shape.rows_in_mem - 1 -> RowValue]
  /\ store = [r \in {} |-> Zero]
  /\ asked = Nothing /\ seen = [r \in {} |-> Zero] /\ failed = FALSE

-----------------------------------------------------------------------------
(* do_sarray_io moves the rows of the window that hold something, and are in   *)
(* the array, to the file or back.                                            *)
Transferred(cur) == {r \in InWindow(cur) : r < first_undef_row /\ r < shape.rows_in_array}
written_store(cur) ==
  [r \in DOMAIN store \cup Transferred(cur) |->
     IF r \in Transferred(cur) THEN mem_buffer[r - cur] ELSE store[r]]
read_buffer(cur, file) ==
  [i \in DOMAIN mem_buffer |->
     IF cur + i \in Transferred(cur) THEN file[cur + i] ELSE mem_buffer[i]]

(* The window moves down to the rows asked for, or up until they are its last. *)
NewStart(start, num) ==
  IF start > cur_start_row THEN start
  ELSE IF start + num < shape.rows_in_mem THEN 0 ELSE start + num - shape.rows_in_mem
OutOfWindow(start, num) ==
  start < cur_start_row \/ start + num > cur_start_row + shape.rows_in_mem

BadAccess(start, num, writable) ==
  \/ start + num > shape.rows_in_array \/ num > shape.maxaccess
  \/ OutOfWindow(start, num) /\ ~shape.b_s_open
  \/ /\ first_undef_row < start + num
     /\ IF writable THEN first_undef_row < start ELSE ~shape.pre_zero

(* A mutant: every row of the access is zeroed again.                          *)
ZeroedAgain(buffer, cur, start, num) ==
  [i \in DOMAIN buffer |-> IF shape.pre_zero /\ cur + i \in Rows(start, num) THEN Zero ELSE buffer[i]]

(* The rows of the access that nobody has claimed are zeroed.                  *)
zeroed(buffer, cur, start, num) ==
  [i \in DOMAIN buffer |->
     IF shape.pre_zero /\ cur + i \in Rows(start, num) /\ cur + i >= first_undef_row
     THEN Zero ELSE buffer[i]]

access_virt_sarray(start, num, writable) ==
  LET moves == OutOfWindow(start, num)
      cur == IF moves THEN NewStart(start, num) ELSE cur_start_row
      file == IF moves /\ dirty THEN written_store(cur_start_row) ELSE store
      loaded == IF moves THEN read_buffer(cur, file) ELSE mem_buffer
      buffer == zeroed(loaded, cur, start, num)
  IN /\ ~failed
     /\ ~BadAccess(start, num, writable)
     /\ cur_start_row' = cur /\ store' = file /\ mem_buffer' = buffer
     /\ first_undef_row' = IF writable /\ first_undef_row < start + num
                           THEN start + num ELSE first_undef_row
     /\ dirty' = (writable \/ (dirty /\ ~moves))
     /\ asked' = [start |-> start, num |-> num, writable |-> writable]
     /\ seen' = [r \in Rows(start, num) |-> buffer[r - cur]]
     /\ UNCHANGED <<shape, failed>>

Refuse(start, num, writable) ==
  /\ ~failed
  /\ BadAccess(start, num, writable)
  /\ failed' = TRUE
  /\ UNCHANGED <<shape, cur_start_row, first_undef_row, dirty, mem_buffer, store, asked, seen>>

(* The caller writes through the pointer it got, a row at a time.             *)
Fill(r, v) ==
  /\ ~failed
  /\ asked.writable /\ r \in Rows(asked.start, asked.num)
  /\ mem_buffer' = [mem_buffer EXCEPT ![r - cur_start_row] = v]
  /\ UNCHANGED <<shape, cur_start_row, first_undef_row, dirty, store, asked, seen, failed>>

Access == \E start \in 0 .. MaxRows, num \in 1 .. MaxAccess + 1, writable \in BOOLEAN :
            \/ access_virt_sarray(start, num, writable)
            \/ Refuse(start, num, writable)
Write == \E r \in 0 .. MaxRows, v \in RowValue : Fill(r, v)
Next == Access \/ Write
Spec == Init /\ [][Next]_vars

-----------------------------------------------------------------------------
(* The array the window and the file stand for.                               *)
TheRows == [r \in 0 .. first_undef_row - 1 |->
              IF r \in InWindow(cur_start_row) THEN mem_buffer[r - cur_start_row] ELSE store[r]]
Array == INSTANCE JpegArray WITH rows <- TheRows, pre_zero <- shape.pre_zero

(* Whatever strips are asked for, in whatever order, the rows are what was     *)
(* last written to them, wherever they were meanwhile (access_virt_sarray).    *)
ImplementsArray == Array!Spec
=============================================================================
