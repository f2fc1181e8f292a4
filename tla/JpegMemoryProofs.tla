-------------------------- MODULE JpegMemoryProofs -------------------------
(***************************************************************************)
(* The memory manager of the JPEG library (jmemmgr.c).  First: a virtual      *)
(* array is an array, whatever part of it is in memory, for every number of   *)
(* rows, every window and every content.  Then the pools: what malloc gave is  *)
(* counted and held, objects are apart, and the virtual arrays share what     *)
(* memory is left, for every size and every sequence of calls.                *)
(***************************************************************************)
EXTENDS JpegVirtArray, JpegPools, FiniteSetTheorems, TLAPS

(* The window holds a strip of any access; without a file it holds all.       *)
ShapeSound ==
  /\ shape.rows_in_array \in 1 .. MaxRows /\ shape.maxaccess \in Nat \ {0}
  /\ shape.rows_in_mem \in Nat \ {0}
  /\ shape.b_s_open \in BOOLEAN /\ shape.pre_zero \in BOOLEAN
  /\ shape.b_s_open => shape.maxaccess <= shape.rows_in_mem
  /\ ~shape.b_s_open => shape.rows_in_mem = shape.rows_in_array

Defined == 0 .. first_undef_row - 1

(* Every row that holds something is in the window or in the file; a window   *)
(* that is not dirty agrees with the file; who may write does so in a dirty    *)
(* window, to rows that count as defined.                                     *)
WindowType ==
  /\ cur_start_row \in Nat /\ first_undef_row \in 0 .. shape.rows_in_array
  /\ dirty \in BOOLEAN /\ failed \in BOOLEAN
  /\ mem_buffer \in [0 .. shape.rows_in_mem - 1 -> RowValue]
FileHasOthers ==
  \A r \in Defined : r \notin InWindow(cur_start_row) => r \in DOMAIN store /\ store[r] \in RowValue
CleanAgrees ==
  ~dirty => \A r \in Defined : r \in InWindow(cur_start_row) =>
              r \in DOMAIN store /\ store[r] = mem_buffer[r - cur_start_row]
WriterInWindow ==
  asked.writable =>
    /\ dirty
    /\ asked.start \in Nat /\ asked.num \in Nat
    /\ asked.start >= cur_start_row
    /\ asked.start + asked.num <= cur_start_row + shape.rows_in_mem
    /\ asked.start + asked.num <= first_undef_row
WindowInv == ShapeSound /\ WindowType /\ FileHasOthers /\ CleanAgrees /\ WriterInWindow

-----------------------------------------------------------------------------
LEMMA Realized ==
  ASSUME NEW n \in 1 .. MaxRows, NEW a \in 1 .. MaxAccess, NEW z \in BOOLEAN, NEW h \in 1 .. MaxRows,
         shape = realized(n, a, z, h)
  PROVE  ShapeSound
<1> USE RowsAssumption
<1>1. n \in Nat /\ a \in Nat /\ h \in Nat /\ a >= 1 /\ h >= 1 /\ n >= 1 OBVIOUS
<1>2. h * a \in Nat /\ h * a >= a
  <2>1. (h - 1) * a \in Nat BY <1>1
  <2>2. h * a = (h - 1) * a + a BY <1>1
  <2> QED BY <1>1, <2>1, <2>2
<1>3. CASE minheights(n, a) <= h
  <2>1. shape = [rows_in_array |-> n, maxaccess |-> a, pre_zero |-> z, rows_in_mem |-> n, b_s_open |-> FALSE]
    BY <1>3 DEF realized
  <2> QED BY <1>1, <2>1 DEF ShapeSound
<1>4. CASE ~(minheights(n, a) <= h)
  <2>1. shape = [rows_in_array |-> n, maxaccess |-> a, pre_zero |-> z, rows_in_mem |-> h * a, b_s_open |-> TRUE]
    BY <1>4 DEF realized
  <2> QED BY <1>1, <1>2, <2>1 DEF ShapeSound
<1> QED BY <1>3, <1>4

LEMMA WindowInitial == Init => WindowInv
<1> SUFFICES ASSUME Init PROVE WindowInv
  OBVIOUS
<1>1. ShapeSound BY Realized DEF Init, Shapes
<1>2. WindowType
  <2>1. /\ cur_start_row = 0 /\ first_undef_row = 0 /\ dirty = FALSE /\ failed = FALSE
        /\ mem_buffer \in [0 .. shape.rows_in_mem - 1 -> RowValue]
    BY DEF Init
  <2>2. 0 \in 0 .. shape.rows_in_array BY <1>1, RowsAssumption DEF ShapeSound
  <2> QED BY <2>1, <2>2 DEF WindowType
<1>3. Defined = {} BY DEF Init, Defined
<1>4. WriterInWindow BY DEF Init, WriterInWindow, Nothing
<1> QED BY <1>1, <1>2, <1>3, <1>4 DEF WindowInv, FileHasOthers, CleanAgrees

(* What the array stands for at a row.                                       *)
View(r) == IF r \in InWindow(cur_start_row) THEN mem_buffer[r - cur_start_row] ELSE store[r]

LEMMA TheRowsAt ==
  WindowInv => /\ DOMAIN TheRows = Defined
               /\ \A s \in Defined : TheRows[s] = View(s) /\ View(s) \in RowValue
<1> SUFFICES ASSUME WindowInv
             PROVE  DOMAIN TheRows = Defined /\ \A s \in Defined : TheRows[s] = View(s) /\ View(s) \in RowValue
  OBVIOUS
<1>1. TheRows = [r \in Defined |-> View(r)] BY DEF TheRows, Defined, View
<1>2. ASSUME NEW r \in Defined PROVE View(r) \in RowValue
  <2>1. CASE r \in InWindow(cur_start_row)
    <3>1. r - cur_start_row \in 0 .. shape.rows_in_mem - 1
      BY <2>1 DEF InWindow, WindowInv, WindowType, ShapeSound
    <3> QED BY <2>1, <3>1 DEF View, WindowInv, WindowType
  <2>2. CASE r \notin InWindow(cur_start_row)
    BY <2>2 DEF View, WindowInv, FileHasOthers
  <2> QED BY <2>1, <2>2
<1> QED BY <1>1, <1>2

(* The window an access leaves holds the strip.                              *)
LEMMA StripInWindow ==
  ASSUME WindowInv, NEW start \in Nat, NEW num \in Nat, NEW writable, ~BadAccess(start, num, writable),
         NEW cur, cur = IF OutOfWindow(start, num) THEN NewStart(start, num) ELSE cur_start_row
  PROVE  cur \in Nat /\ cur <= start /\ start + num <= cur + shape.rows_in_mem
<1>1. num <= shape.maxaccess /\ (OutOfWindow(start, num) => shape.b_s_open)
  BY DEF BadAccess, WindowInv, ShapeSound
<1>2. CASE OutOfWindow(start, num)
  <2>1. shape.rows_in_mem \in Nat /\ num <= shape.rows_in_mem
    BY <1>1, <1>2 DEF WindowInv, ShapeSound
  <2> QED BY <1>2, <2>1 DEF NewStart, WindowInv, WindowType
<1>3. CASE ~OutOfWindow(start, num)
  BY <1>3 DEF OutOfWindow, WindowInv, WindowType, ShapeSound
<1> QED BY <1>2, <1>3

LEMMA InWindowIs ==
  ASSUME WindowInv, NEW c \in Nat, NEW r \in Int, c <= r, r < c + shape.rows_in_mem
  PROVE  r \in InWindow(c) /\ r - c \in 0 .. shape.rows_in_mem - 1
BY DEF InWindow, WindowInv, ShapeSound

(* An access moves the window, and changes no row that holds something; it    *)
(* shows zeroes in the others where that was asked for.                      *)
LEMMA AccessKeepsRows ==
  ASSUME WindowInv, NEW start \in Nat, NEW num \in Nat, NEW writable \in BOOLEAN,
         access_virt_sarray(start, num, writable)
  PROVE  /\ cur_start_row' \in Nat /\ cur_start_row' <= start
         /\ start + num <= cur_start_row' + shape.rows_in_mem
         /\ mem_buffer' \in [0 .. shape.rows_in_mem - 1 -> RowValue]
         /\ \A r \in Defined :
              IF r \in InWindow(cur_start_row') THEN mem_buffer'[r - cur_start_row'] = View(r)
              ELSE r \in DOMAIN store' /\ store'[r] = View(r)
         /\ ~dirty' => \A r \in Defined : r \in InWindow(cur_start_row') =>
                         r \in DOMAIN store' /\ store'[r] = View(r)
         /\ shape.pre_zero => \A r \in Rows(start, num) :
                                r >= first_undef_row => mem_buffer'[r - cur_start_row'] = Zero
<1> DEFINE moves == OutOfWindow(start, num)
           cur == IF moves THEN NewStart(start, num) ELSE cur_start_row
           file == IF moves /\ dirty THEN written_store(cur_start_row) ELSE store
           loaded == IF moves THEN read_buffer(cur, file) ELSE mem_buffer
           buffer == zeroed(loaded, cur, start, num)
           Index == 0 .. shape.rows_in_mem - 1
<1>1. /\ ~BadAccess(start, num, writable)
      /\ cur_start_row' = cur /\ store' = file /\ mem_buffer' = buffer
      /\ dirty' = (writable \/ (dirty /\ ~moves))
  BY DEF access_virt_sarray
<1>2. cur \in Nat /\ cur <= start /\ start + num <= cur + shape.rows_in_mem
  BY <1>1, StripInWindow
<1>3. /\ shape.rows_in_mem \in Nat /\ cur_start_row \in Nat /\ first_undef_row \in Nat
      /\ first_undef_row <= shape.rows_in_array /\ shape.rows_in_array \in Nat
      /\ mem_buffer \in [Index -> RowValue]
  BY RowsAssumption DEF WindowInv, ShapeSound, WindowType
<1>4. ASSUME moves, NEW r \in Defined PROVE r \in DOMAIN file /\ file[r] = View(r)
  <2>1. r < first_undef_row /\ r < shape.rows_in_array BY <1>3 DEF Defined
  <2>2. CASE dirty
    <3>1. file = written_store(cur_start_row) BY <1>4, <2>2
    <3>2. CASE r \in InWindow(cur_start_row)
      <4>1. r \in Transferred(cur_start_row) BY <2>1, <3>2 DEF Transferred
      <4> QED BY <3>1, <3>2, <4>1 DEF written_store, View
    <3>3. CASE r \notin InWindow(cur_start_row)
      <4>1. r \notin Transferred(cur_start_row) BY <3>3 DEF Transferred
      <4>2. r \in DOMAIN store BY <3>3 DEF WindowInv, FileHasOthers
      <4> QED BY <3>1, <3>3, <4>1, <4>2 DEF written_store, View
    <3> QED BY <3>2, <3>3
  <2>3. CASE ~dirty
    <3>1. file = store BY <2>3
    <3> QED BY <2>3, <3>1 DEF WindowInv, FileHasOthers, CleanAgrees, View
  <2> QED BY <2>2, <2>3
<1>5. ASSUME NEW r \in Defined, r \in InWindow(cur)
      PROVE  r - cur \in Index /\ loaded[r - cur] = View(r)
  <2>1. r - cur \in Index /\ cur + (r - cur) = r BY <1>2, <1>3, <1>5 DEF InWindow, Defined
  <2>2. CASE moves
    <3>1. r \in Transferred(cur) BY <1>3, <1>5 DEF Transferred, Defined
    <3>2. loaded = read_buffer(cur, file) /\ DOMAIN mem_buffer = Index BY <1>3, <2>2
    <3>3. loaded[r - cur] = file[r] BY <2>1, <3>1, <3>2 DEF read_buffer
    <3> QED BY <1>4, <2>1, <2>2, <3>3
  <2>3. CASE ~moves BY <1>5, <2>1, <2>3 DEF View
  <2> QED BY <2>2, <2>3
<1>6. loaded \in [Index -> RowValue]
  <2>1. CASE moves
    <3>1. ASSUME NEW i \in Index, cur + i \in Transferred(cur) PROVE file[cur + i] \in RowValue
      <4>1. cur + i \in Defined BY <1>2, <1>3, <3>1 DEF Transferred, Defined
      <4> QED BY <1>4, <2>1, <4>1, TheRowsAt
    <3>2. loaded = [i \in Index |-> IF cur + i \in Transferred(cur) THEN file[cur + i] ELSE mem_buffer[i]]
      BY <1>3, <2>1 DEF read_buffer
    <3>3. \A i \in Index : (IF cur + i \in Transferred(cur) THEN file[cur + i] ELSE mem_buffer[i]) \in RowValue
      BY <1>3, <3>1
    <3> QED BY <3>2, <3>3
  <2>2. CASE ~moves BY <1>3, <2>2
  <2> QED BY <2>1, <2>2
<1> HIDE DEF file, loaded, cur, moves
<1>7. buffer = [i \in Index |-> IF shape.pre_zero /\ cur + i \in Rows(start, num) /\ cur + i >= first_undef_row
                                THEN Zero ELSE loaded[i]]
  BY <1>6 DEF zeroed
<1> HIDE DEF buffer
<1>8. mem_buffer' \in [Index -> RowValue] BY <1>1, <1>6, <1>7, ValueAssumption
<1>9. ASSUME NEW r \in Defined, r \in InWindow(cur) PROVE buffer[r - cur] = View(r)
  <2>1. ~(cur + (r - cur) >= first_undef_row) BY <1>2, <1>3 DEF Defined
  <2> QED BY <1>5, <1>7, <1>9, <2>1
<1>10. ASSUME NEW r \in Defined, r \notin InWindow(cur) PROVE r \in DOMAIN file /\ file[r] = View(r)
  <2>1. CASE moves BY <1>4, <2>1
  <2>2. CASE ~moves
    <3>1. cur = cur_start_row /\ file = store BY <2>2 DEF cur, file
    <3> QED BY <1>10, <3>1 DEF View, WindowInv, FileHasOthers
  <2> QED BY <2>1, <2>2
<1>11. ASSUME ~dirty', NEW r \in Defined, r \in InWindow(cur) PROVE r \in DOMAIN file /\ file[r] = View(r)
  <2>1. CASE moves BY <1>4, <2>1
  <2>2. CASE ~moves
    <3>1. cur = cur_start_row /\ file = store BY <2>2 DEF cur, file
    <3>2. ~dirty BY <1>1, <1>11, <2>2
    <3> QED BY <1>11, <3>1, <3>2 DEF View, WindowInv, CleanAgrees
  <2> QED BY <2>1, <2>2
<1>12. ASSUME shape.pre_zero, NEW r \in Rows(start, num), r >= first_undef_row
       PROVE  buffer[r - cur] = Zero
  <2>1. r - cur \in Index /\ cur + (r - cur) = r BY <1>2, <1>3 DEF Rows
  <2> QED BY <1>7, <1>12, <2>1
<1> QED BY <1>1, <1>2, <1>8, <1>9, <1>10, <1>11, <1>12

-----------------------------------------------------------------------------
(* After an access: the rows below first_undef_row are one run from zero.    *)
LEMMA AccessDefines ==
  ASSUME WindowInv, NEW start \in Nat, NEW num \in Nat, NEW writable \in BOOLEAN,
         access_virt_sarray(start, num, writable)
  PROVE  /\ first_undef_row' \in 0 .. shape.rows_in_array
         /\ writable => Defined' = Defined \cup Rows(start, num) /\ start + num <= first_undef_row'
         /\ ~writable => Defined' = Defined
         /\ ~writable => shape.pre_zero \/ Rows(start, num) \subseteq Defined
<1>1. /\ ~BadAccess(start, num, writable)
      /\ first_undef_row' = IF writable /\ first_undef_row < start + num THEN start + num ELSE first_undef_row
  BY DEF access_virt_sarray
<1>2. first_undef_row \in Nat /\ first_undef_row <= shape.rows_in_array /\ shape.rows_in_array \in Nat
  BY RowsAssumption DEF WindowInv, ShapeSound, WindowType
<1>3. start + num <= shape.rows_in_array BY <1>1, <1>2 DEF BadAccess
<1>4. first_undef_row' \in 0 .. shape.rows_in_array BY <1>1, <1>2, <1>3
<1>5. CASE first_undef_row < start + num
  <2>1. IF writable THEN start <= first_undef_row ELSE shape.pre_zero
    BY <1>1, <1>2, <1>5 DEF BadAccess, WindowInv, ShapeSound
  <2> QED BY <1>1, <1>2, <1>4, <1>5, <2>1 DEF Defined, Rows
<1>6. CASE ~(first_undef_row < start + num)
  BY <1>1, <1>2, <1>4, <1>6 DEF Defined, Rows
<1> QED BY <1>5, <1>6

LEMMA AccessKeeps ==
  ASSUME WindowInv, NEW start \in Nat, NEW num \in Nat, NEW writable \in BOOLEAN,
         access_virt_sarray(start, num, writable)
  PROVE  WindowInv' /\ (IF writable THEN Array!Claim ELSE Array!Look) /\ UNCHANGED shape.pre_zero
<1>1. /\ cur_start_row' \in Nat /\ cur_start_row' <= start
      /\ start + num <= cur_start_row' + shape.rows_in_mem
      /\ mem_buffer' \in [0 .. shape.rows_in_mem - 1 -> RowValue]
      /\ \A r \in Defined :
           IF r \in InWindow(cur_start_row') THEN mem_buffer'[r - cur_start_row'] = View(r)
           ELSE r \in DOMAIN store' /\ store'[r] = View(r)
      /\ ~dirty' => \A r \in Defined : r \in InWindow(cur_start_row') =>
                      r \in DOMAIN store' /\ store'[r] = View(r)
      /\ shape.pre_zero => \A r \in Rows(start, num) :
                             r >= first_undef_row => mem_buffer'[r - cur_start_row'] = Zero
  BY AccessKeepsRows
<1>2. /\ first_undef_row' \in 0 .. shape.rows_in_array
      /\ writable => Defined' = Defined \cup Rows(start, num) /\ start + num <= first_undef_row'
      /\ ~writable => Defined' = Defined
      /\ ~writable => shape.pre_zero \/ Rows(start, num) \subseteq Defined
  BY AccessDefines
<1>3. /\ shape' = shape /\ failed' = failed /\ dirty' \in BOOLEAN /\ (writable => dirty')
      /\ asked' = [start |-> start, num |-> num, writable |-> writable]
      /\ seen' = [r \in Rows(start, num) |-> mem_buffer'[r - cur_start_row']]
  BY DEF access_virt_sarray, WindowInv, WindowType
<1>4. ASSUME NEW r \in Rows(start, num)
      PROVE  r \in InWindow(cur_start_row') /\ mem_buffer'[r - cur_start_row'] \in RowValue
  <2>1. shape.rows_in_mem \in Nat BY DEF WindowInv, ShapeSound
  <2>2. r \in Int /\ start <= r /\ r < start + num BY DEF Rows
  <2>3. /\ cur_start_row' \in Nat /\ cur_start_row' <= start
        /\ start + num <= cur_start_row' + shape.rows_in_mem
    BY <1>1
  <2>4. cur_start_row' <= r /\ r < cur_start_row' + shape.rows_in_mem BY <2>1, <2>2, <2>3
  <2>5. r \in InWindow(cur_start_row') /\ r - cur_start_row' \in 0 .. shape.rows_in_mem - 1
    BY <2>2, <2>3, <2>4, InWindowIs
  <2> QED BY <1>1, <2>5
<1>5. \A r : r \in InWindow(cur_start_row)' <=> r \in InWindow(cur_start_row') BY <1>3 DEF InWindow
<1>6. \A r \in Defined' : r \in Defined \/ r \in Rows(start, num) BY <1>2
<1>7. ShapeSound' /\ WindowType' BY <1>1, <1>2, <1>3 DEF WindowInv, ShapeSound, WindowType
<1>8. FileHasOthers' BY <1>1, <1>4, <1>5, <1>6, TheRowsAt DEF FileHasOthers
<1>9. CleanAgrees' BY <1>1, <1>2, <1>3, <1>5 DEF CleanAgrees
<1>10. WriterInWindow' BY <1>1, <1>2, <1>3 DEF WriterInWindow
<1>11. WindowInv' BY <1>7, <1>8, <1>9, <1>10 DEF WindowInv
<1>12. /\ DOMAIN TheRows = Defined /\ \A r \in Defined : TheRows[r] = View(r)
       /\ DOMAIN TheRows' = Defined' /\ \A r \in Defined' : TheRows'[r] = View(r)'
  <2>1. (DOMAIN TheRows = Defined /\ \A s \in Defined : TheRows[s] = View(s) /\ View(s) \in RowValue)'
    BY <1>11, TheRowsAt, PTL
  <2> QED BY <2>1, TheRowsAt
<1>13. start \in 0 .. MaxRows /\ num \in 0 .. MaxRows
  <2>1. start + num <= MaxRows
    BY <1>3, RowsAssumption DEF access_virt_sarray, BadAccess, WindowInv, ShapeSound
  <2> QED BY <2>1, RowsAssumption
<1>14. \A r \in Rows(start, num) : r \in Defined =>
         mem_buffer'[r - cur_start_row'] = TheRows[r]
  BY <1>1, <1>4, <1>12
<1>15. \A r \in Rows(start, num) : r \notin Defined => r >= first_undef_row
  BY DEF Defined, Rows, WindowInv, WindowType
<1>16. CASE ~writable
  <2>1. TheRows' = TheRows
    <3>1. \A r \in Defined : TheRows'[r] = TheRows[r]
      BY <1>1, <1>2, <1>3, <1>5, <1>12, <1>16 DEF View
    <3>2. TheRows = [r \in Defined |-> TheRows[r]] /\ TheRows' = [r \in Defined' |-> TheRows'[r]]
      BY <1>12 DEF TheRows
    <3> QED BY <1>2, <1>16, <3>1, <3>2
  <2>2. seen' = [r \in Rows(start, num) |-> IF r \in Defined THEN TheRows[r] ELSE Zero]
    BY <1>1, <1>2, <1>3, <1>14, <1>15, <1>16
  <2>3. Array!Look
    <3>1. shape.pre_zero \/ \A r \in Rows(start, num) : r \in DOMAIN TheRows
      BY <1>2, <1>12, <1>16
    <3>2. seen' = [r \in Rows(start, num) |-> IF r \notin DOMAIN TheRows THEN Zero ELSE TheRows[r]]
      BY <1>12, <2>2
    <3> QED BY <1>13, <2>1, <3>1, <3>2 DEF Array!Look, Array!Shown, Array!Fresh, Rows
  <2> QED BY <1>3, <1>11, <1>16, <2>3
<1>17. CASE writable
  <2>1. \A r \in Defined : TheRows'[r] = TheRows[r]
    BY <1>1, <1>2, <1>5, <1>12, <1>17 DEF View
  <2>2. \A r \in Rows(start, num) : TheRows'[r] = mem_buffer'[r - cur_start_row']
    BY <1>2, <1>4, <1>5, <1>12, <1>17 DEF View
  <2>3. seen' \in [Rows(start, num) -> RowValue] BY <1>3, <1>4
  <2>4. \A r \in Rows(start, num) :
          IF r \notin DOMAIN TheRows THEN shape.pre_zero => seen'[r] = Zero ELSE seen'[r] = TheRows[r]
    BY <1>1, <1>3, <1>12, <1>14, <1>15
  <2>5. TheRows' = [r \in DOMAIN TheRows \cup Rows(start, num) |->
                     IF r \notin DOMAIN TheRows THEN seen'[r] ELSE TheRows[r]]
    <3>1. TheRows' = [r \in Defined' |-> TheRows'[r]] BY <1>12 DEF TheRows
    <3>2. \A r \in Defined' : TheRows'[r] = IF r \notin Defined THEN seen'[r] ELSE TheRows[r]
      BY <1>3, <1>6, <2>1, <2>2
    <3> QED BY <1>2, <1>12, <1>17, <3>1, <3>2
  <2>6. Array!Claim BY <1>13, <2>3, <2>4, <2>5 DEF Array!Claim, Array!Shown, Array!Fresh, Rows
  <2> QED BY <1>3, <1>11, <1>17, <2>6
<1> QED BY <1>3, <1>11, <1>16, <1>17

LEMMA FillKeeps ==
  ASSUME WindowInv, NEW r, NEW v \in RowValue, Fill(r, v)
  PROVE  WindowInv' /\ Array!Put /\ UNCHANGED shape.pre_zero
<1> DEFINE at == r - cur_start_row
<1>1. /\ asked.writable /\ r \in Rows(asked.start, asked.num)
      /\ mem_buffer' = [mem_buffer EXCEPT ![at] = v]
      /\ UNCHANGED <<shape, cur_start_row, first_undef_row, dirty, store, asked, seen, failed>>
  BY DEF Fill
<1>2. /\ dirty /\ asked.start \in Nat /\ asked.num \in Nat /\ asked.start >= cur_start_row
      /\ asked.start + asked.num <= cur_start_row + shape.rows_in_mem
      /\ asked.start + asked.num <= first_undef_row
      /\ cur_start_row \in Nat /\ shape.rows_in_mem \in Nat /\ first_undef_row \in Nat
      /\ mem_buffer \in [0 .. shape.rows_in_mem - 1 -> RowValue]
  BY <1>1, RowsAssumption DEF WindowInv, WriterInWindow, WindowType, ShapeSound
<1>3. r \in Int /\ cur_start_row <= r /\ r < cur_start_row + shape.rows_in_mem /\ r < first_undef_row
  BY <1>1, <1>2, SMTT(30) DEF Rows
<1>4. r \in InWindow(cur_start_row) /\ at \in 0 .. shape.rows_in_mem - 1
  BY <1>2, <1>3, InWindowIs
<1>5. r \in Defined BY <1>2, <1>3 DEF Defined
<1> HIDE DEF at
<1>6. mem_buffer' \in [0 .. shape.rows_in_mem - 1 -> RowValue] BY <1>1, <1>2
<1>7. UNCHANGED <<Defined, InWindow(cur_start_row)>> BY <1>1 DEF Defined, InWindow
<1>8. WindowInv'
  <2>1. ShapeSound' /\ WindowType' BY <1>1, <1>6 DEF WindowInv, ShapeSound, WindowType
  <2>2. FileHasOthers' BY <1>1, <1>7 DEF WindowInv, FileHasOthers
  <2>3. CleanAgrees' /\ WriterInWindow' BY <1>1, <1>2 DEF WindowInv, CleanAgrees, WriterInWindow
  <2> QED BY <2>1, <2>2, <2>3 DEF WindowInv
<1>9. /\ DOMAIN TheRows = Defined /\ \A s \in Defined : TheRows[s] = View(s)
      /\ DOMAIN TheRows' = Defined /\ \A s \in Defined : TheRows'[s] = View(s)'
  <2>1. (DOMAIN TheRows = Defined /\ \A s \in Defined : TheRows[s] = View(s) /\ View(s) \in RowValue)'
    BY <1>8, TheRowsAt, PTL
  <2> QED BY <1>7, <2>1, TheRowsAt
<1>10. \A s \in Defined : TheRows'[s] = IF s = r THEN v ELSE TheRows[s]
  <2> SUFFICES ASSUME NEW s \in Defined PROVE TheRows'[s] = IF s = r THEN v ELSE TheRows[s]
    OBVIOUS
  <2>1. CASE s = r
    <3>1. View(s)' = mem_buffer'[at] BY <1>1, <1>4, <1>7, <2>1 DEF View, at
    <3>2. mem_buffer'[at] = v BY <1>1, <1>2, <1>4
    <3> QED BY <1>9, <2>1, <3>1, <3>2
  <2>2. CASE s # r /\ s \in InWindow(cur_start_row)
    <3>1. s - cur_start_row \in 0 .. shape.rows_in_mem - 1 /\ s - cur_start_row # at
      BY <1>2, <1>3, <2>2 DEF InWindow, at
    <3>2. mem_buffer'[s - cur_start_row] = mem_buffer[s - cur_start_row] BY <1>1, <1>2, <3>1
    <3>3. View(s)' = mem_buffer'[s - cur_start_row] /\ View(s) = mem_buffer[s - cur_start_row]
      BY <1>1, <1>7, <2>2 DEF View
    <3> QED BY <1>9, <2>2, <3>2, <3>3
  <2>3. CASE s # r /\ s \notin InWindow(cur_start_row)
    <3>1. View(s)' = store[s] /\ View(s) = store[s] BY <1>1, <1>7, <2>3 DEF View
    <3> QED BY <1>9, <2>3, <3>1
  <2> QED BY <2>1, <2>2, <2>3
<1>11. TheRows' = [TheRows EXCEPT ![r] = v]
  <2>1. TheRows = [s \in Defined |-> TheRows[s]] BY <1>9 DEF TheRows
  <2>2. TheRows' = [s \in Defined |-> TheRows'[s]] BY <1>9 DEF TheRows
  <2>3. [TheRows EXCEPT ![r] = v] = [s \in Defined |-> IF s = r THEN v ELSE TheRows[s]]
    BY <1>9, <2>1
  <2> QED BY <1>10, <2>2, <2>3
<1>12. Array!Put BY <1>1, <1>5, <1>9, <1>11 DEF Array!Put
<1> QED BY <1>1, <1>8, <1>12

LEMMA StandStill ==
  ASSUME WindowInv, UNCHANGED <<shape, cur_start_row, first_undef_row, dirty, mem_buffer, store, asked, seen>>,
         failed' \in BOOLEAN
  PROVE  WindowInv' /\ UNCHANGED <<TheRows, shape.pre_zero, seen>>
<1>1. UNCHANGED <<Defined, InWindow(cur_start_row)>> BY DEF Defined, InWindow
<1>2. WindowInv'
  BY <1>1 DEF WindowInv, ShapeSound, WindowType, FileHasOthers, CleanAgrees, WriterInWindow
<1>3. UNCHANGED TheRows BY DEF TheRows, InWindow
<1> QED BY <1>2, <1>3

LEMMA StepImplements ==
  ASSUME WindowInv, [Next]_vars
  PROVE  WindowInv' /\ [Array!Next]_<<TheRows, shape.pre_zero, seen>>
<1>1. ASSUME NEW start \in 0 .. MaxRows, NEW num \in 1 .. MaxAccess + 1, NEW writable \in BOOLEAN,
             access_virt_sarray(start, num, writable)
      PROVE  WindowInv' /\ [Array!Next]_<<TheRows, shape.pre_zero, seen>>
  <2>1. start \in Nat /\ num \in Nat BY RowsAssumption
  <2>2. WindowInv' /\ (IF writable THEN Array!Claim ELSE Array!Look) /\ UNCHANGED shape.pre_zero
    BY <1>1, <2>1, AccessKeeps
  <2> QED BY <2>2 DEF Array!Next
<1>2. ASSUME NEW start, NEW num, NEW writable, Refuse(start, num, writable)
      PROVE  WindowInv' /\ [Array!Next]_<<TheRows, shape.pre_zero, seen>>
  BY <1>2, StandStill DEF Refuse
<1>3. ASSUME NEW r \in 0 .. MaxRows, NEW v \in RowValue, Fill(r, v)
      PROVE  WindowInv' /\ [Array!Next]_<<TheRows, shape.pre_zero, seen>>
  BY <1>3, FillKeeps DEF Array!Next
<1>4. CASE UNCHANGED vars
  <2>1. failed' \in BOOLEAN BY <1>4 DEF vars, WindowInv, WindowType
  <2> QED BY <1>4, <2>1, StandStill DEF vars
<1> QED BY <1>1, <1>2, <1>3, <1>4 DEF Next, Access, Write

(* Every row that holds something is in the window or in the file, and what   *)
(* is about to be written is in the window, to be flushed when it moves.       *)
THEOREM WindowHolds == Spec => []WindowInv
<1>1. WindowInv /\ [Next]_vars => WindowInv' BY StepImplements
<1> QED BY <1>1, WindowInitial, PTL DEF Spec

(* A virtual array is an array: whatever strips are asked for and written, in *)
(* whatever order, each access shows every row as it was last left.          *)
THEOREM VirtualArrayIsArray == Spec => ImplementsArray
<1>1. Init => Array!Init
  <2> SUFFICES ASSUME Init PROVE Array!Init OBVIOUS
  <2>1. 0 .. first_undef_row - 1 = {} BY DEF Init
  <2>2. TheRows = [r \in {} |-> Zero] BY <2>1 DEF TheRows
  <2>3. seen = [r \in {} |-> Zero] BY DEF Init
  <2> QED BY <2>2, <2>3 DEF Array!Init
<1>2. WindowInv /\ [Next]_vars => [Array!Next]_<<TheRows, shape.pre_zero, seen>> BY StepImplements
<1> QED BY <1>1, <1>2, WindowHolds, PTL DEF Spec, ImplementsArray, Array!Spec

-----------------------------------------------------------------------------
(* Induction over numbers and over finite sets.                               *)
LEMMA LeastNumber ==
  ASSUME NEW S \in SUBSET Nat, S # {}
  PROVE  \E l \in S : \A y \in S : l <= y
<1> DEFINE R == {ss \in Nat \X Nat : ss[1] < ss[2]}
<1>1. IsWellFoundedOn(R, Nat) BY NatLessThanWellFounded DEF OpToRel
<1>2. PICK l \in S : \A y \in S : <<y, l>> \notin R
  <2>. HIDE DEF R
  <2>. QED BY <1>1, WFMin
<1>3. ASSUME NEW y \in S PROVE l <= y
  <2>1. l \in Nat /\ y \in Nat OBVIOUS
  <2>2. ~(y < l) BY <1>2, <2>1, Zenon
  <2>. QED BY <2>1, <2>2
<1>. QED BY <1>3

(* Induction up to k, over a set of numbers.                                  *)
LEMMA Induction ==
  ASSUME NEW k \in Nat, NEW P, 0 \in P, \A j \in 1..k : j - 1 \in P => j \in P
  PROVE  \A j \in 0..k : j \in P
<1> DEFINE Others == {j \in 0..k : j \notin P}
<1>1. SUFFICES ASSUME Others # {} PROVE FALSE OBVIOUS
<1>2. PICK l \in Others : \A j \in Others : l <= j
  <2>1. Others \in SUBSET Nat OBVIOUS
  <2>. HIDE DEF Others
  <2>. QED BY <1>1, <2>1, LeastNumber
<1>3. l \in 1..k /\ l - 1 \in 0..k /\ l - 1 \notin Others BY <1>2
<1>. QED BY <1>2, <1>3

(* Q has the sets of which something is true.                                 *)
LEMMA SetInduction ==
  ASSUME NEW D, IsFiniteSet(D), NEW Q, {} \in Q,
         \A S \in SUBSET D : S # {} /\ (\A x \in S : S \ {x} \in Q) => S \in Q
  PROVE  \A S \in SUBSET D : S \in Q
<1> DEFINE n == Cardinality(D)
           P == {k \in 0..n : \A S \in SUBSET D : Cardinality(S) = k => S \in Q}
<1>1. n \in Nat BY FS_CardinalityType
<1>2. \A S \in SUBSET D : IsFiniteSet(S) /\ Cardinality(S) \in 0..n
  <2>1. ASSUME NEW S \in SUBSET D PROVE IsFiniteSet(S) /\ Cardinality(S) \in 0..n
    <3>1. IsFiniteSet(S) /\ Cardinality(S) <= n BY FS_Subset
    <3>2. Cardinality(S) \in Nat BY <3>1, FS_CardinalityType
    <3>. QED BY <1>1, <3>1, <3>2
  <2>. QED BY <2>1
<1>. HIDE DEF n
<1>3. 0 \in P
  <2>1. ASSUME NEW S \in SUBSET D, Cardinality(S) = 0 PROVE S \in Q
    <3>1. S = {} BY <1>2, <2>1, FS_EmptySet
    <3>. QED BY <3>1
  <2>2. 0 \in 0..n BY <1>1
  <2>. QED BY <2>1, <2>2
<1>4. \A k \in 1..n : k - 1 \in P => k \in P
  <2>1. ASSUME NEW k \in 1..n, k - 1 \in P, NEW S \in SUBSET D, Cardinality(S) = k PROVE S \in Q
    <3>1. S # {}
      <4>1. Cardinality({}) = 0 BY FS_EmptySet
      <4>2. k # 0 BY <1>1
      <4>. QED BY <2>1, <4>1, <4>2
    <3>2. ASSUME NEW x \in S PROVE S \ {x} \in Q
      <4>1. S \ {x} \in SUBSET D /\ Cardinality(S \ {x}) = k - 1 BY <1>2, <2>1, FS_RemoveElement
      <4>. QED BY <2>1, <4>1
    <3>. QED BY <3>1, <3>2
  <2>. QED BY <1>1, <2>1
<1>5. \A k \in 0..n : k \in P
  <2>. HIDE DEF P
  <2>. QED BY <1>1, <1>3, <1>4, Induction
<1>. QED BY <1>2, <1>5

-----------------------------------------------------------------------------
(* SumFunction adds one value after the other, in the order in which CHOOSE   *)
(* takes them; the order does not matter.                                     *)
Chosen(s) == CHOOSE x \in s : TRUE
SumAt(f, h, s) == IF s = {} THEN 0 ELSE f[Chosen(s)] + h[s \ {Chosen(s)}]
SumOf(f) == CHOOSE h : h = [s \in SUBSET DOMAIN f |-> SumAt(f, h, s)]

(* SumFunction by its recursion.                                              *)
LEMMA SumUnfolds == ASSUME NEW f PROVE SumFunction(f) = SumOf(f)[DOMAIN f]
BY DEF SumFunction, SumFunctionOnSet, FoldFunctionOnSet, MapThenFoldSet, SumOf, SumAt, Chosen

(* What CHOOSE takes is a member.                                             *)
LEMMA ChosenIn == ASSUME NEW s, s # {} PROVE Chosen(s) \in s
BY DEF Chosen

(* The recursion has a solution, on the subsets of a finite set.              *)
LEMMA SumExists ==
  ASSUME NEW f, IsFiniteSet(DOMAIN f)
  PROVE  SumOf(f) = [s \in SUBSET DOMAIN f |-> SumAt(f, SumOf(f), s)]
<1> DEFINE D == DOMAIN f
           n == Cardinality(D)
           Upto(k) == {s \in SUBSET D : Cardinality(s) <= k}
           P == {k \in 0..n : \E h : h = [s \in Upto(k) |-> SumAt(f, h, s)]}
<1>1. n \in Nat BY FS_CardinalityType
<1>2. \A s \in SUBSET D : IsFiniteSet(s) /\ Cardinality(s) \in Nat /\ Cardinality(s) <= n
  <2>1. ASSUME NEW s \in SUBSET D PROVE IsFiniteSet(s) /\ Cardinality(s) \in Nat /\ Cardinality(s) <= n
    <3>1. IsFiniteSet(s) /\ Cardinality(s) <= n BY FS_Subset
    <3>. QED BY <3>1, FS_CardinalityType
  <2>. QED BY <2>1
<1>. HIDE DEF n
<1>3. 0 \in P
  <2> DEFINE h == [s \in Upto(0) |-> 0]
  <2>1. \A s \in Upto(0) : s = {} BY <1>2, FS_EmptySet
  <2>2. h = [s \in Upto(0) |-> SumAt(f, h, s)] BY <2>1 DEF SumAt
  <2>. HIDE DEF h
  <2>. QED BY <1>1, <2>2, SMTT(30)
<1>4. \A k \in 1..n : k - 1 \in P => k \in P
  <2>1. ASSUME NEW k \in 1..n, NEW h, h = [s \in Upto(k-1) |-> SumAt(f, h, s)]
        PROVE  \E g : g = [s \in Upto(k) |-> SumAt(f, g, s)]
    <3> DEFINE g == [s \in Upto(k) |-> IF Cardinality(s) <= k - 1 THEN h[s] ELSE SumAt(f, h, s)]
    <3>1. ASSUME NEW s \in Upto(k), s # {} PROVE s \ {Chosen(s)} \in Upto(k-1)
      <4>1. Chosen(s) \in s BY <3>1, ChosenIn
      <4>2. Cardinality(s \ {Chosen(s)}) = Cardinality(s) - 1 BY <1>2, <4>1, FS_RemoveElement
      <4>. QED BY <1>2, <3>1, <4>2
    <3>2. \A s \in Upto(k-1) : s \in Upto(k) /\ g[s] = h[s] BY <1>2
    <3>3. ASSUME NEW s \in Upto(k) PROVE g[s] = SumAt(f, h, s) /\ SumAt(f, h, s) = SumAt(f, g, s)
      <4>1. g[s] = SumAt(f, h, s)
        <5>1. CASE Cardinality(s) <= k - 1
          <6>1. s \in Upto(k-1) BY <5>1
          <6>2. h[s] = SumAt(f, h, s) BY <2>1, <6>1, Zenon
          <6>. QED BY <5>1, <6>2
        <5>2. CASE ~(Cardinality(s) <= k - 1) BY <5>2
        <5>. QED BY <5>1, <5>2
      <4>2. CASE s = {} BY <4>1, <4>2 DEF SumAt
      <4>3. CASE s # {}
        <5>1. g[s \ {Chosen(s)}] = h[s \ {Chosen(s)}] BY <3>1, <3>2, <4>3
        <5>. HIDE DEF g
        <5>. QED BY <4>1, <4>3, <5>1 DEF SumAt
      <4>. QED BY <4>1, <4>2, <4>3
    <3>4. g = [s \in Upto(k) |-> g[s]] OBVIOUS
    <3>. HIDE DEF g, Upto
    <3>5. g = [s \in Upto(k) |-> SumAt(f, g, s)] BY <3>3, <3>4
    <3>. QED BY <3>5
  <2>. HIDE DEF Upto
  <2>. QED BY <1>1, <2>1
<1>5. n \in P
  <2>1. n \in 0..n BY <1>1
  <2>. HIDE DEF P
  <2>2. \A k \in 0..n : k \in P BY <1>1, <1>3, <1>4, Induction
  <2>. QED BY <2>1, <2>2
<1>6. Upto(n) = SUBSET D BY <1>2
<1>7. \E h : h = [s \in SUBSET D |-> SumAt(f, h, s)]
  <2>. HIDE DEF Upto
  <2>. QED BY <1>5, <1>6
<1>. QED BY <1>7 DEF SumOf

(* What SumFunction adds up, in any order.                                    *)
LEMMA SumOrder ==
  ASSUME NEW f, IsFiniteSet(DOMAIN f), \A x \in DOMAIN f : f[x] \in Int
  PROVE  /\ SumOf(f)[{}] = 0
         /\ \A S \in SUBSET DOMAIN f :
              /\ SumOf(f)[S] \in Int
              /\ \A x \in S : SumOf(f)[S] = f[x] + SumOf(f)[S \ {x}]
<1> DEFINE D == DOMAIN f
           h == SumOf(f)
           I == {S \in SUBSET D : h[S] \in Int}
           Q == {S \in SUBSET D : \A x \in S : h[S] = f[x] + h[S \ {x}]}
<1>1. \A S \in SUBSET D : h[S] = SumAt(f, h, S)
  <2>1. h = [s \in SUBSET D |-> SumAt(f, h, s)] BY SumExists
  <2>. HIDE DEF h
  <2>. QED BY <2>1
<1>2. h[{}] = 0 BY <1>1 DEF SumAt
<1>. HIDE DEF h
<1>3. \A S \in SUBSET D : S # {} => Chosen(S) \in S /\ h[S] = f[Chosen(S)] + h[S \ {Chosen(S)}]
  BY <1>1, ChosenIn DEF SumAt
<1>4. \A S \in SUBSET D : S \in I
  <2>1. {} \in I BY <1>2
  <2>2. ASSUME NEW S \in SUBSET D, S # {}, \A x \in S : S \ {x} \in I PROVE S \in I
    <3>1. Chosen(S) \in S /\ h[S] = f[Chosen(S)] + h[S \ {Chosen(S)}] BY <1>3, <2>2
    <3>2. h[S \ {Chosen(S)}] \in Int /\ f[Chosen(S)] \in Int BY <2>2, <3>1
    <3>3. h[S] \in Int BY <3>1, <3>2
    <3>. QED BY <3>3
  <2>. HIDE DEF I
  <2>. QED BY <2>1, <2>2, SetInduction
<1>5. \A S \in SUBSET D : h[S] \in Int BY <1>4
<1>6. \A S \in SUBSET D : S \in Q
  <2>1. {} \in Q OBVIOUS
  <2>2. ASSUME NEW S \in SUBSET D, S # {}, \A x \in S : S \ {x} \in Q PROVE S \in Q
    <3> DEFINE c == Chosen(S)
    <3>1. c \in S /\ h[S] = f[c] + h[S \ {c}] BY <1>3, <2>2
    <3>. HIDE DEF c
    <3>2. ASSUME NEW x \in S, x # c PROVE h[S] = f[x] + h[S \ {x}]
      <4> DEFINE r == h[(S \ {x}) \ {c}]
      <4>1. x \in S \ {c} /\ c \in S \ {x} BY <3>1, <3>2
      <4>2. h[S \ {c}] = f[x] + h[(S \ {c}) \ {x}] BY <2>2, <3>1, <4>1
      <4>3. h[S \ {x}] = f[c] + r BY <2>2, <4>1
      <4>4. (S \ {c}) \ {x} = (S \ {x}) \ {c} OBVIOUS
      <4>5. h[S \ {c}] = f[x] + r BY <4>2, <4>4
      <4>6. r \in Int
        <5>1. (S \ {x}) \ {c} \in SUBSET D OBVIOUS
        <5>. QED BY <1>5, <5>1
      <4>7. f[c] \in Int /\ f[x] \in Int /\ h[S \ {x}] \in Int BY <1>5, <3>1
      <4>. HIDE DEF r
      <4>. QED BY <3>1, <4>3, <4>5, <4>6, <4>7
    <3>3. \A x \in S : h[S] = f[x] + h[S \ {x}] BY <3>1, <3>2
    <3>. QED BY <3>3
  <2>. HIDE DEF Q
  <2>. QED BY <2>1, <2>2, SetInduction
<1>7. \A S \in SUBSET D : h[S] \in Int /\ \A x \in S : h[S] = f[x] + h[S \ {x}] BY <1>5, <1>6
<1>. QED BY <1>2, <1>7 DEF h

-----------------------------------------------------------------------------
(* What the manager holds: the blocks of its lists by kind, pool and place in   *)
(* the list.                                                                  *)
Block == [block : Nat, used : Nat, left : Nat]
Object == [pool : PoolId, block : Nat, at : Nat, size : Nat]
ListOf(small, large, q) == IF q[1] = "small" THEN small[q[2]] ELSE large[q[2]]
Slots(small, large) ==
  {q \in {"small", "large"} \X PoolId \X Nat : q[3] \in DOMAIN ListOf(small, large, q)}
Held(small, large) == [q \in Slots(small, large) |-> ListOf(small, large, q)[q[3]]]

(* Every block but the manager's own is held at one place, with its size; what *)
(* is used of it is whole units; the objects lie in what is used, apart.       *)
HeapType(h) ==
  /\ IsFiniteSet(DOMAIN h) /\ 0 \in DOMAIN h /\ h[0] = Manager
  /\ \A b \in DOMAIN h : b \in Nat /\ h[b] \in Nat
HeldOnce(h, held) ==
  /\ \A q \in DOMAIN held :
       /\ held[q] \in Block /\ held[q].block \in DOMAIN h /\ held[q].block # 0
       /\ h[held[q].block] = Header + held[q].used + held[q].left
       /\ held[q].used % Align = 0
  /\ \A q, r \in DOMAIN held : held[q].block = held[r].block => q = r
  /\ \A n \in DOMAIN h : n # 0 => \E q \in DOMAIN held : held[q].block = n
Within(o, held) ==
  \E q \in DOMAIN held :
    q[2] = o.pool /\ held[q].block = o.block /\ o.at + o.size <= Header + held[q].used
Apart(o, p) == o.at + o.size <= p.at \/ p.at + p.size <= o.at
ObjectsApart(objs, held) ==
  /\ \A o \in objs : o \in Object /\ o.at % Align = 0 /\ Within(o, held)
  /\ \A o, p \in objs : o # p /\ o.block = p.block => Apart(o, p)
Kept(h, held, objs) == HeapType(h) /\ HeldOnce(h, held) /\ ObjectsApart(objs, held)
Sound(s) ==
  /\ s = [heap |-> s.heap, small |-> s.small, large |-> s.large,
          total |-> s.total, objects |-> s.objects, error |-> s.error]
  /\ s.small \in [PoolId -> Seq(Block)] /\ s.large \in [PoolId -> Seq(Block)]
  /\ s.total = SumFunction(s.heap)
  /\ Kept(s.heap, Held(s.small, s.large), s.objects)

Virt == [rows_in_array : Nat \ {0}, maxaccess : Nat \ {0}, width : Nat \ {0},
         realized : BOOLEAN, rows_in_mem : Nat, b_s_open : BOOLEAN]
Open(virt) == {i \in DOMAIN virt : virt[i].b_s_open}
PoolsInv ==
  /\ error_exit \in BOOLEAN /\ max_memory_to_use \in Int
  /\ alive \in BOOLEAN
  /\ virt_list \in Seq(Virt) /\ files = Cardinality(Open(virt_list))
  /\ ~error_exit => \A i \in DOMAIN virt_list : virt_list[i].b_s_open => virt_list[i].realized
  /\ alive => Sound(Now)
  /\ ~alive => DOMAIN heap = {} /\ total_space_allocated = 0 /\ objects = {}
            /\ \A p \in PoolId : small_list[p] = <<>> /\ large_list[p] = <<>>

Numbers(f) == IsFiniteSet(DOMAIN f) /\ \A x \in DOMAIN f : f[x] \in Int

Step(f, S, x) ==
  SumOf(f)[S] = f[x] + SumOf(f)[S \ {x}] /\ SumOf(f)[S \ {x}] \in Int /\ f[x] \in Int

(* One term apart.                                                            *)
LEMMA SumStep ==
  ASSUME NEW f, Numbers(f), NEW S \in SUBSET DOMAIN f, NEW x \in S
  PROVE  Step(f, S, x)
<1>1. IsFiniteSet(DOMAIN f) /\ \A y \in DOMAIN f : f[y] \in Int BY DEF Numbers
<1>2. S \ {x} \in SUBSET DOMAIN f OBVIOUS
<1>3. \A R \in SUBSET DOMAIN f :
        /\ SumOf(f)[R] \in Int
        /\ \A y \in R : SumOf(f)[R] = f[y] + SumOf(f)[R \ {y}]
  BY <1>1, SumOrder, Zenon
<1>. QED BY <1>1, <1>2, <1>3 DEF Step

(* A sum of integers is one; of nothing it is zero.                           *)
LEMMA SumType ==
  ASSUME NEW f, Numbers(f)
  PROVE  /\ SumFunction(f) \in Int
         /\ DOMAIN f = {} => SumFunction(f) = 0
BY SumUnfolds, SumOrder DEF Numbers

(* The sum over a set depends on the values there.                            *)
LEMMA SumAgrees ==
  ASSUME NEW f, Numbers(f), NEW g, Numbers(g), NEW D, D \subseteq DOMAIN f, D \subseteq DOMAIN g,
         \A x \in D : f[x] = g[x]
  PROVE  SumOf(f)[D] = SumOf(g)[D]
<1> DEFINE Q == {S \in SUBSET D : SumOf(f)[S] = SumOf(g)[S]}
<1>1. IsFiniteSet(D) BY FS_Subset DEF Numbers
<1>2. {} \in Q BY SumOrder DEF Numbers
<1>3. ASSUME NEW S \in SUBSET D, S # {}, \A x \in S : S \ {x} \in Q PROVE S \in Q
  <2>1. PICK x \in S : TRUE BY <1>3
  <2>2. SumOf(f)[S] = f[x] + SumOf(f)[S \ {x}]
    <3>1. S \in SUBSET DOMAIN f OBVIOUS
    <3>2. Step(f, S, x) BY <3>1, <2>1, SumStep, Zenon
    <3>. QED BY <3>2 DEF Step
  <2>3. SumOf(g)[S] = g[x] + SumOf(g)[S \ {x}]
    <3>1. S \in SUBSET DOMAIN g OBVIOUS
    <3>2. Step(g, S, x) BY <3>1, <2>1, SumStep, Zenon
    <3>. QED BY <3>2 DEF Step
  <2>4. SumOf(f)[S \ {x}] = SumOf(g)[S \ {x}] /\ f[x] = g[x] BY <1>3, <2>1
  <2>. QED BY <2>2, <2>3, <2>4
<1>4. \A S \in SUBSET D : S \in Q
  <2>. HIDE DEF Q
  <2>. QED BY <1>1, <1>2, <1>3, SetInduction
<1>. QED BY <1>4

(* One more term.                                                             *)
LEMMA SumAdded ==
  ASSUME NEW h, Numbers(h), NEW n, n \notin DOMAIN h, NEW x \in Int,
         NEW g, g = [m \in DOMAIN h \cup {n} |-> IF m \in DOMAIN h THEN h[m] ELSE x]
  PROVE  /\ DOMAIN g = DOMAIN h \cup {n} /\ g[n] = x
         /\ \A m \in DOMAIN h : g[m] = h[m]
         /\ Numbers(g) /\ SumFunction(g) = SumFunction(h) + x
<1>2. DOMAIN g = DOMAIN h \cup {n} /\ g[n] = x /\ \A m \in DOMAIN h : g[m] = h[m] OBVIOUS
<1>3. Numbers(g) BY <1>2, FS_AddElement DEF Numbers
<1>4. SumOf(g)[DOMAIN g] = x + SumOf(g)[DOMAIN g \ {n}] /\ SumOf(g)[DOMAIN g \ {n}] \in Int
  <2>1. DOMAIN g \in SUBSET DOMAIN g /\ n \in DOMAIN g BY <1>2
  <2>2. SumOf(g)[DOMAIN g] = g[n] + SumOf(g)[DOMAIN g \ {n}] /\ SumOf(g)[DOMAIN g \ {n}] \in Int
    <3>1. Step(g, DOMAIN g, n) BY <1>3, <2>1, SumStep, Zenon
    <3>. QED BY <3>1 DEF Step
  <2>. QED BY <1>2, <2>2
<1>5. DOMAIN g \ {n} = DOMAIN h BY <1>2
<1>6. SumOf(g)[DOMAIN h] = SumOf(h)[DOMAIN h] BY <1>2, <1>3, SumAgrees
<1>7. SumFunction(g) = SumFunction(h) + x BY <1>4, <1>5, <1>6, SumUnfolds
<1>. QED BY <1>2, <1>3, <1>7

(* What stays when the values at some places go, each one to a b of its own.   *)
LEMMA SumGone ==
  ASSUME NEW f, Numbers(f), NEW gone, IsFiniteSet(gone), NEW g, DOMAIN g = gone,
         NEW j \in [gone -> DOMAIN f], \A b, c \in gone : j[b] = j[c] => b = c,
         \A b \in gone : g[b] = f[j[b]],
         NEW rest, rest = [n \in DOMAIN f \ {j[b] : b \in gone} |-> f[n]]
  PROVE  Numbers(rest) /\ Numbers(g) /\ SumFunction(f) = SumFunction(g) + SumFunction(rest)
<1>a. ASSUME NEW S \in SUBSET gone, NEW b \in S PROVE Step(g, S, b)
  <2>1. Numbers(g) BY DEF Numbers
  <2>2. S \in SUBSET DOMAIN g OBVIOUS
  <2>. QED BY <2>1, <2>2, SumStep, Zenon
<1>b. ASSUME NEW R \in SUBSET DOMAIN f, NEW x \in R PROVE Step(f, R, x)
  BY SumStep, Zenon
<1> DEFINE D == DOMAIN f
           Left(S) == D \ {j[b] : b \in S}
           Q == {S \in SUBSET gone : SumOf(f)[D] = SumOf(g)[S] + SumOf(f)[Left(S)]}
<1>1. Numbers(rest)
  <2>1. DOMAIN rest \in SUBSET D OBVIOUS
  <2>2. IsFiniteSet(DOMAIN rest) BY <2>1, FS_Subset DEF Numbers
  <2>. QED BY <2>2 DEF Numbers
<1>2. Numbers(g) BY DEF Numbers
<1>3. {} \in Q
  <2>1. Left({}) = D OBVIOUS
  <2>2. SumOf(g)[{}] = 0 /\ SumOf(f)[D] \in Int BY <1>2, SumOrder DEF Numbers
  <2>. HIDE DEF Left
  <2>. QED BY <2>1, <2>2
<1>4. ASSUME NEW S \in SUBSET gone, S # {}, \A b \in S : S \ {b} \in Q PROVE S \in Q
  <2>1. PICK b \in S : TRUE BY <1>4
  <2>2. j[b] \in Left(S \ {b}) /\ Left(S) = Left(S \ {b}) \ {j[b]} OBVIOUS
  <2>3. Left(S \ {b}) \in SUBSET D /\ Left(S) \in SUBSET D OBVIOUS
  <2>4. SumOf(f)[D] = SumOf(g)[S \ {b}] + SumOf(f)[Left(S \ {b})] BY <1>4
  <2>. HIDE DEF Left, Q
  <2>5. SumOf(f)[Left(S \ {b})] = f[j[b]] + SumOf(f)[Left(S)] /\ SumOf(f)[Left(S)] \in Int
    <3>1. Left(S \ {b}) \in SUBSET DOMAIN f /\ j[b] \in Left(S \ {b}) BY <2>2, <2>3
    <3>2. Step(f, Left(S \ {b}), j[b]) BY <1>b, <3>1, Zenon
    <3>. QED BY <2>2, <3>2 DEF Step
  <2>6. SumOf(g)[S] = g[b] + SumOf(g)[S \ {b}] /\ SumOf(g)[S \ {b}] \in Int BY <1>a, <2>1 DEF Step
  <2>7. g[b] = f[j[b]] /\ g[b] \in Int BY <1>2 DEF Numbers
  <2>8. SumOf(f)[D] = SumOf(g)[S] + SumOf(f)[Left(S)] BY <2>4, <2>5, <2>6, <2>7
  <2>. QED BY <2>8 DEF Q
<1>5. \A S \in SUBSET gone : S \in Q
  <2>. HIDE DEF Q
  <2>. QED BY <1>3, <1>4, SetInduction
<1>6. SumOf(f)[D] = SumOf(g)[gone] + SumOf(f)[Left(gone)] BY <1>5
<1>7. SumOf(f)[Left(gone)] = SumOf(rest)[Left(gone)]
  <2>1. Left(gone) \subseteq DOMAIN f /\ Left(gone) \subseteq DOMAIN rest /\ \A x \in Left(gone) : f[x] = rest[x]
    OBVIOUS
  <2>. HIDE DEF Left
  <2>. QED BY <1>1, <2>1, SumAgrees
<1>8. SumFunction(f) = SumFunction(g) + SumFunction(rest) BY <1>6, <1>7, SumUnfolds
<1>. QED BY <1>1, <1>2, <1>8

(* A bound on every term is one on the sum.                                   *)
LEMMA SumAtMost ==
  ASSUME NEW f, Numbers(f), NEW g, Numbers(g), DOMAIN f = DOMAIN g, NEW m \in Nat,
         \A x \in DOMAIN f : f[x] <= m * g[x]
  PROVE  SumFunction(f) <= m * SumFunction(g)
<1> DEFINE D == DOMAIN f
           Q == {S \in SUBSET D : SumOf(f)[S] <= m * SumOf(g)[S]}
<1>1. {} \in Q
  <2>1. SumOf(f)[{}] = 0 /\ SumOf(g)[{}] = 0 BY SumOrder DEF Numbers
  <2>. QED BY <2>1
<1>2. ASSUME NEW S \in SUBSET D, S # {}, \A x \in S : S \ {x} \in Q PROVE S \in Q
  <2>1. PICK x \in S : TRUE BY <1>2
  <2> DEFINE a == SumOf(f)[S \ {x}]
             b == SumOf(g)[S \ {x}]
             c == f[x]
             d == g[x]
  <2>2. SumOf(f)[S] = c + a /\ a \in Int
    <3>1. Step(f, S, x) BY <2>1, SumStep, Zenon
    <3>. QED BY <3>1 DEF Step
  <2>3. SumOf(g)[S] = d + b /\ b \in Int
    <3>1. S \in SUBSET DOMAIN g OBVIOUS
    <3>2. Step(g, S, x) BY <2>1, <3>1, SumStep, Zenon
    <3>. QED BY <3>2 DEF Step
  <2>4. a <= m * b /\ c <= m * d BY <1>2, <2>1
  <2>5. c \in Int /\ d \in Int BY <2>1 DEF Numbers
  <2>. HIDE DEF a, b, c, d
  <2>6. m * (d + b) = m * d + m * b /\ m * d \in Int /\ m * b \in Int BY <2>3, <2>5
  <2>7. c + a <= m * (d + b) BY <2>2, <2>3, <2>4, <2>5, <2>6
  <2>. QED BY <2>2, <2>3, <2>7
<1>3. \A S \in SUBSET D : S \in Q
  <2>. HIDE DEF Q
  <2>. QED BY <1>1, <1>2, SetInduction DEF Numbers
<1>4. SumOf(f)[D] <= m * SumOf(g)[D] BY <1>3
<1>. QED BY <1>4, SumUnfolds

(* A term is at most the sum, when none is negative.                          *)
LEMMA SumPart ==
  ASSUME NEW f, Numbers(f), \A x \in DOMAIN f : f[x] >= 0, NEW y \in DOMAIN f
  PROVE  f[y] <= SumFunction(f)
<1> DEFINE D == DOMAIN f
           Q == {S \in SUBSET D : SumOf(f)[S] >= 0}
<1>1. {} \in Q BY SumOrder DEF Numbers
<1>2. ASSUME NEW S \in SUBSET D, S # {}, \A x \in S : S \ {x} \in Q PROVE S \in Q
  <2>1. PICK x \in S : TRUE BY <1>2
  <2>2. SumOf(f)[S] = f[x] + SumOf(f)[S \ {x}] /\ SumOf(f)[S \ {x}] \in Int
    <3>1. Step(f, S, x) BY <2>1, SumStep, Zenon
    <3>. QED BY <3>1 DEF Step
  <2>3. f[x] >= 0 /\ f[x] \in Int /\ SumOf(f)[S \ {x}] >= 0 BY <1>2, <2>1 DEF Numbers
  <2>4. SumOf(f)[S] >= 0 BY <2>2, <2>3
  <2>. QED BY <2>4
<1>3. \A S \in SUBSET D : S \in Q
  <2>. HIDE DEF Q
  <2>. QED BY <1>1, <1>2, SetInduction DEF Numbers
<1>4. SumOf(f)[D] = f[y] + SumOf(f)[D \ {y}] /\ SumOf(f)[D \ {y}] \in Int
  <2>1. Step(f, D, y) BY SumStep, Zenon
  <2>. QED BY <2>1 DEF Step
<1>5. SumOf(f)[D \ {y}] >= 0 BY <1>3
<1>. QED BY <1>4, <1>5, SumUnfolds DEF Numbers

-----------------------------------------------------------------------------
(* Min is the least number.                                                   *)
LEMMA Least ==
  ASSUME NEW S \in SUBSET Nat, S # {}
  PROVE  Min(S) \in S /\ \A y \in S : Min(S) <= y
BY LeastNumber DEF Min

(* Whole numbers of alignment units.                                          *)
LEMMA WholeTimes ==
  ASSUME NEW a \in Nat, NEW n \in Nat \ {0}
  PROVE  a % n = 0 <=> \E k \in Nat : a = n * k
<1> DEFINE k == a \div n
           r == a % n
<1>1. a = n * k + r /\ k \in Nat /\ r \in 0..n-1 OBVIOUS
<1>. HIDE DEF k, r
<1>2. ASSUME r = 0 PROVE \E m \in Nat : a = n * m BY <1>1, <1>2
<1>3. ASSUME NEW m \in Nat, a = n * m PROVE r = 0
  <2>1. n * (m - k) = r BY <1>1, <1>3
  <2>2. CASE m - k >= 1
    <3>1. n * (m - k) = n * (m - k - 1) + n /\ n * (m - k - 1) >= 0 BY <1>1, <2>2
    <3>. QED BY <1>1, <2>1, <3>1
  <2>3. CASE m - k <= -1
    <3>1. n * (k - m) = n * (k - m - 1) + n /\ n * (k - m - 1) >= 0 BY <1>1, <2>3
    <3>2. n * (m - k) = -(n * (k - m)) BY <1>1
    <3>. QED BY <1>1, <2>1, <3>1, <3>2
  <2>4. CASE m = k BY <1>1, <2>1, <2>4
  <2>. QED BY <1>1, <2>2, <2>3, <2>4
<1>. QED BY <1>2, <1>3 DEF r

(* Whole units add up to whole units.                                         *)
LEMMA WholeSum ==
  ASSUME NEW a \in Nat, NEW b \in Nat, a % Align = 0, b % Align = 0
  PROVE  (a + b) % Align = 0
<1>1. Align \in Nat \ {0} BY AlignAssumption
<1>2. PICK k \in Nat : a = Align * k BY <1>1, WholeTimes
<1>3. PICK m \in Nat : b = Align * m BY <1>1, WholeTimes
<1>4. a + b = Align * (k + m) /\ k + m \in Nat /\ a + b \in Nat BY <1>1, <1>2, <1>3
<1>. QED BY <1>1, <1>4, WholeTimes

(* RoundUp gives whole units, no fewer.                                       *)
LEMMA RoundedUp ==
  ASSUME NEW size \in Nat
  PROVE  RoundUp(size) \in Nat /\ RoundUp(size) >= size /\ RoundUp(size) % Align = 0
<1> DEFINE k == size \div Align
           r == size % Align
<1>1. Align \in Nat \ {0} BY AlignAssumption
<1>2. size = Align * k + r /\ k \in Nat /\ r \in 0..Align-1 BY <1>1
<1>3. CASE r = 0 BY <1>3 DEF RoundUp
<1>4. CASE r # 0
  <2>1. RoundUp(size) = size + Align - r BY <1>4 DEF RoundUp
  <2>. HIDE DEF k, r
  <2>2. RoundUp(size) = Align * (k + 1) BY <1>1, <1>2, <2>1
  <2>3. RoundUp(size) \in Nat /\ RoundUp(size) >= size /\ k + 1 \in Nat BY <1>1, <1>2, <2>1
  <2>. QED BY <1>1, <2>2, <2>3, WholeTimes
<1>. QED BY <1>3, <1>4

(* malloc gives a block that is not in use.                                   *)
LEMMA UnusedIs ==
  ASSUME NEW s, IsFiniteSet(DOMAIN s.heap)
  PROVE  Unused(s) \in Nat \ DOMAIN s.heap
<1> DEFINE D == DOMAIN s.heap
           n == Cardinality(D)
           free == (0..n) \ D
<1>1. n \in Nat BY FS_CardinalityType
<1>2. IsFiniteSet(0..n) /\ Cardinality(0..n) = n + 1 BY <1>1, FS_Interval
<1>3. free # {}
  <2>1. SUFFICES ASSUME 0..n \in SUBSET D PROVE FALSE OBVIOUS
  <2>2. Cardinality(0..n) <= n BY <2>1, FS_Subset
  <2>. QED BY <1>1, <1>2, <2>2
<1>4. free \in SUBSET Nat BY <1>1
<1>5. Min(free) \in free
  <2>. HIDE DEF free
  <2>. QED BY <1>3, <1>4, Least
<1>. QED BY <1>4, <1>5 DEF Unused

-----------------------------------------------------------------------------
(* A new object behind all others of its block.                               *)
LEMMA ObjectAdded ==
  ASSUME NEW h, NEW held, NEW objs, Kept(h, held, objs), NEW q \in DOMAIN held, q[2] \in PoolId,
         NEW at \in Nat, NEW size \in Nat, at % Align = 0, at + size <= Header + held[q].used,
         \A p \in objs : p.block = held[q].block => p.at + p.size <= at,
         NEW o, o = [pool |-> q[2], block |-> held[q].block, at |-> at, size |-> size]
  PROVE  Kept(h, held, objs \cup {o})
<1>1. held[q] \in Block /\ held[q].block \in Nat BY DEF Kept, HeldOnce, Block
<1>2. o \in Object /\ o.pool = q[2] /\ o.block = held[q].block /\ o.at = at /\ o.size = size
  BY <1>1 DEF Object
<1>3. Within(o, held) BY <1>2 DEF Within
<1>4. \A p \in objs : p \in Object /\ p.at % Align = 0 /\ Within(p, held)
  BY DEF Kept, ObjectsApart
<1>5. \A p, r \in objs : p # r /\ p.block = r.block => Apart(p, r) BY DEF Kept, ObjectsApart
<1>6. \A p \in objs : p.block = o.block => Apart(p, o) /\ Apart(o, p) BY <1>2 DEF Apart
<1>7. ObjectsApart(objs \cup {o}, held)
  <2>1. \A p \in objs \cup {o} : p \in Object /\ p.at % Align = 0 /\ Within(p, held)
    BY <1>2, <1>3, <1>4
  <2>2. \A p, r \in objs \cup {o} : p # r /\ p.block = r.block => Apart(p, r)
    <3>1. ASSUME NEW p \in objs \cup {o}, NEW r \in objs \cup {o}, p # r, p.block = r.block
          PROVE  Apart(p, r)
      <4>1. CASE p \in objs /\ r \in objs BY <1>5, <3>1, <4>1
      <4>2. CASE p = o BY <1>6, <3>1, <4>2
      <4>3. CASE r = o BY <1>6, <3>1, <4>3
      <4>. QED BY <4>1, <4>2, <4>3
    <3>. QED BY <3>1
  <2>. QED BY <2>1, <2>2 DEF ObjectsApart
<1>. QED BY <1>7 DEF Kept

(* More of a block is used.                                                   *)
LEMMA BlockUsed ==
  ASSUME NEW h, NEW held, NEW objs, Kept(h, held, objs), NEW q \in DOMAIN held,
         NEW size \in Nat, size % Align = 0, size <= held[q].left,
         NEW held2, DOMAIN held2 = DOMAIN held, \A r \in DOMAIN held \ {q} : held2[r] = held[r],
         held2[q] = [block |-> held[q].block, used |-> held[q].used + size, left |-> held[q].left - size]
  PROVE  Kept(h, held2, objs)
<1> DEFINE b == held[q]
<1>1. b \in Block /\ b.block \in DOMAIN h /\ b.block # 0 /\ h[b.block] = Header + b.used + b.left
      /\ b.used % Align = 0
  BY DEF Kept, HeldOnce
<1>2. b.used \in Nat /\ b.left \in Nat /\ b.block \in Nat BY <1>1 DEF Block
<1>3. held2[q] \in Block /\ held2[q].block = b.block /\ held2[q].used = b.used + size
      /\ held2[q].left = b.left - size
  BY <1>2 DEF Block
<1>4. held2[q].used % Align = 0
  <2>1. (b.used + size) % Align = 0 BY <1>1, <1>2, WholeSum
  <2>. QED BY <1>3, <2>1
<1>5. Header + b.used + b.left = Header + (b.used + size) + (b.left - size) BY <1>2, AlignAssumption
<1>. HIDE DEF b
<1>6. \A r \in DOMAIN held : held2[r].block = held[r].block BY <1>3 DEF b
<1>7. HeldOnce(h, held2)
  <2>1. \A r \in DOMAIN held2 :
          /\ held2[r] \in Block /\ held2[r].block \in DOMAIN h /\ held2[r].block # 0
          /\ h[held2[r].block] = Header + held2[r].used + held2[r].left
          /\ held2[r].used % Align = 0
    <3>1. ASSUME NEW r \in DOMAIN held, r # q
          PROVE  /\ held2[r] \in Block /\ held2[r].block \in DOMAIN h /\ held2[r].block # 0
                 /\ h[held2[r].block] = Header + held2[r].used + held2[r].left
                 /\ held2[r].used % Align = 0
      <4>1. held2[r] = held[r] BY <3>1
      <4>. QED BY <4>1 DEF Kept, HeldOnce
    <3>2. h[held2[q].block] = Header + held2[q].used + held2[q].left BY <1>1, <1>3, <1>5
    <3>. QED BY <1>1, <1>3, <1>4, <3>1, <3>2
  <2>2. \A p, r \in DOMAIN held2 : held2[p].block = held2[r].block => p = r
    BY <1>6 DEF Kept, HeldOnce
  <2>3. \A n \in DOMAIN h : n # 0 => \E r \in DOMAIN held2 : held2[r].block = n
    BY <1>6 DEF Kept, HeldOnce
  <2>. QED BY <2>1, <2>2, <2>3 DEF HeldOnce
<1>8. \A o \in objs : Within(o, held2)
  <2>1. ASSUME NEW o \in objs PROVE Within(o, held2)
    <3>1. o \in Object BY DEF Kept, ObjectsApart
    <3>2. PICK r \in DOMAIN held : r[2] = o.pool /\ held[r].block = o.block /\ o.at + o.size <= Header + held[r].used
      BY DEF Kept, ObjectsApart, Within
    <3>3. held2[r].used >= held[r].used /\ held2[r].used \in Nat /\ held[r].used \in Nat
      <4>1. CASE r = q BY <1>2, <1>3, <4>1 DEF b
      <4>2. CASE r # q
        <5>1. held2[r] = held[r] /\ held[r] \in Block BY <4>2 DEF Kept, HeldOnce
        <5>. QED BY <5>1 DEF Block
      <4>. QED BY <4>1, <4>2
    <3>4. o.at + o.size <= Header + held2[r].used BY <3>1, <3>2, <3>3, AlignAssumption DEF Object
    <3>. QED BY <1>6, <3>2, <3>4 DEF Within
  <2>. QED BY <2>1
<1>9. ObjectsApart(objs, held2) BY <1>8 DEF Kept, ObjectsApart
<1>. QED BY <1>7, <1>9 DEF Kept

(* A new block, not used yet or used at once for one object; the others are      *)
(* where they were or, as m says, were at another place of the same pool.      *)
HeapGrown(h, h2, n, size) ==
  /\ n \in Nat /\ n \notin DOMAIN h /\ DOMAIN h2 = DOMAIN h \cup {n} /\ h2[n] = size
  /\ \A b \in DOMAIN h : h2[b] = h[b]
Moved(held, held2, q0, m) ==
  /\ m \in [DOMAIN held2 \ {q0} -> DOMAIN held]
  /\ \A q, r \in DOMAIN held2 \ {q0} : m[q] = m[r] => q = r
  /\ \A r \in DOMAIN held : \E q \in DOMAIN held2 \ {q0} : m[q] = r
  /\ \A q \in DOMAIN held2 \ {q0} : held2[q] = held[m[q]] /\ q[2] = m[q][2]

(* A new block; the others keep their contents and move in the lists.         *)
LEMMA BlockAdded ==
  ASSUME NEW h, NEW held, NEW objs, Kept(h, held, objs), NEW n,
         NEW used \in Nat, NEW left \in Nat, used % Align = 0,
         NEW h2, HeapGrown(h, h2, n, Header + used + left),
         NEW held2, NEW q0 \in DOMAIN held2, held2[q0] = [block |-> n, used |-> used, left |-> left],
         NEW m, Moved(held, held2, q0, m)
  PROVE  Kept(h2, held2, objs)
<1>a. /\ n \in Nat /\ n \notin DOMAIN h /\ DOMAIN h2 = DOMAIN h \cup {n} /\ h2[n] = Header + used + left
      /\ \A b \in DOMAIN h : h2[b] = h[b]
  BY DEF HeapGrown
<1>b. /\ m \in [DOMAIN held2 \ {q0} -> DOMAIN held]
      /\ \A q, r \in DOMAIN held2 \ {q0} : m[q] = m[r] => q = r
      /\ \A r \in DOMAIN held : \E q \in DOMAIN held2 \ {q0} : m[q] = r
      /\ \A q \in DOMAIN held2 \ {q0} : held2[q] = held[m[q]] /\ q[2] = m[q][2]
  BY DEF Moved
<1>. USE <1>a, <1>b
<1>1. HeapType(h2)
  <2>1. IsFiniteSet(DOMAIN h2) BY FS_AddElement DEF Kept, HeapType
  <2>2. 0 \in DOMAIN h2 /\ h2[0] = Manager BY DEF Kept, HeapType
  <2>3. h2[n] \in Nat BY AlignAssumption
  <2>4. \A b \in DOMAIN h2 : b \in Nat /\ h2[b] \in Nat BY <2>3 DEF Kept, HeapType
  <2>. QED BY <2>1, <2>2, <2>4 DEF HeapType
<1>2. n # 0 BY DEF Kept, HeapType
<1>3. held2[q0] \in Block /\ held2[q0].block = n /\ held2[q0].used = used /\ held2[q0].left = left
  BY DEF Block
<1>4. \A q \in DOMAIN held2 \ {q0} : m[q] \in DOMAIN held /\ held2[q] = held[m[q]] OBVIOUS
<1>5. \A q \in DOMAIN held :
        /\ held[q] \in Block /\ held[q].block \in DOMAIN h /\ held[q].block # 0
        /\ h[held[q].block] = Header + held[q].used + held[q].left
        /\ held[q].used % Align = 0
  BY DEF Kept, HeldOnce
<1>6. HeldOnce(h2, held2)
  <2>1. ASSUME NEW q \in DOMAIN held2
        PROVE  /\ held2[q] \in Block /\ held2[q].block \in DOMAIN h2 /\ held2[q].block # 0
               /\ h2[held2[q].block] = Header + held2[q].used + held2[q].left
               /\ held2[q].used % Align = 0
    <3>1. CASE q = q0 BY <1>2, <1>3, <3>1
    <3>2. CASE q # q0
      <4>1. m[q] \in DOMAIN held /\ held2[q] = held[m[q]] BY <1>4, <3>2
      <4>. QED BY <1>5, <4>1
    <3>. QED BY <3>1, <3>2
  <2>2. ASSUME NEW q \in DOMAIN held2, NEW r \in DOMAIN held2, held2[q].block = held2[r].block PROVE q = r
    <3>1. CASE q = q0 /\ r = q0 BY <3>1
    <3>2. CASE q = q0 /\ r # q0
      <4>1. m[r] \in DOMAIN held /\ held2[r] = held[m[r]] BY <1>4, <3>2
      <4>2. held2[r].block \in DOMAIN h BY <1>5, <4>1
      <4>. QED BY <1>3, <2>2, <3>2, <4>2
    <3>3. CASE q # q0 /\ r = q0
      <4>1. m[q] \in DOMAIN held /\ held2[q] = held[m[q]] BY <1>4, <3>3
      <4>2. held2[q].block \in DOMAIN h BY <1>5, <4>1
      <4>. QED BY <1>3, <2>2, <3>3, <4>2
    <3>4. CASE q # q0 /\ r # q0
      <4>1. m[q] \in DOMAIN held /\ held2[q] = held[m[q]] BY <1>4, <3>4
      <4>2. m[r] \in DOMAIN held /\ held2[r] = held[m[r]] BY <1>4, <3>4
      <4>3. m[q] = m[r] BY <2>2, <4>1, <4>2 DEF Kept, HeldOnce
      <4>. QED BY <3>4, <4>3
    <3>. QED BY <3>1, <3>2, <3>3, <3>4
  <2>3. ASSUME NEW k \in DOMAIN h2, k # 0 PROVE \E q \in DOMAIN held2 : held2[q].block = k
    <3>1. CASE k = n BY <1>3, <3>1
    <3>2. CASE k # n
      <4>1. PICK r \in DOMAIN held : held[r].block = k BY <2>3, <3>2 DEF Kept, HeldOnce
      <4>2. PICK q \in DOMAIN held2 \ {q0} : m[q] = r OBVIOUS
      <4>. QED BY <1>4, <4>1, <4>2
    <3>. QED BY <3>1, <3>2
  <2>. QED BY <2>1, <2>2, <2>3 DEF HeldOnce
<1>7. \A o \in objs : Within(o, held2)
  <2>1. ASSUME NEW o \in objs PROVE Within(o, held2)
    <3>1. PICK r \in DOMAIN held : r[2] = o.pool /\ held[r].block = o.block /\ o.at + o.size <= Header + held[r].used
      BY DEF Kept, ObjectsApart, Within
    <3>2. PICK q \in DOMAIN held2 \ {q0} : m[q] = r OBVIOUS
    <3>3. held2[q] = held[r] /\ q[2] = r[2] BY <3>2
    <3>. QED BY <3>1, <3>3 DEF Within
  <2>. QED BY <2>1
<1>8. ObjectsApart(objs, held2) BY <1>7 DEF Kept, ObjectsApart
<1>. QED BY <1>1, <1>6, <1>8 DEF Kept

-----------------------------------------------------------------------------
(* The places of the lists.                                                   *)
Lists == [PoolId -> Seq(Block)]

(* What Held is, by list.                                                     *)
LEMMA SlotsAre ==
  ASSUME NEW small \in Lists, NEW large \in Lists
  PROVE  /\ DOMAIN Held(small, large) = Slots(small, large)
         /\ \A q \in Slots(small, large) :
              /\ q = <<q[1], q[2], q[3]>> /\ q[1] \in {"small", "large"} /\ q[2] \in PoolId /\ q[3] \in Nat
              /\ q[3] \in DOMAIN ListOf(small, large, q)
              /\ Held(small, large)[q] = ListOf(small, large, q)[q[3]]
         /\ \A p \in PoolId, i \in Nat : <<"small", p, i>> \in Slots(small, large) <=> i \in DOMAIN small[p]
         /\ \A p \in PoolId, i \in Nat : <<"large", p, i>> \in Slots(small, large) <=> i \in DOMAIN large[p]
<1>1. DOMAIN Held(small, large) = Slots(small, large) BY DEF Held
<1>2. \A q \in Slots(small, large) : Held(small, large)[q] = ListOf(small, large, q)[q[3]] BY DEF Held
<1>3. \A q \in {"small", "large"} \X PoolId \X Nat :
        /\ q = <<q[1], q[2], q[3]>> /\ q[1] \in {"small", "large"} /\ q[2] \in PoolId /\ q[3] \in Nat
  OBVIOUS
<1>4. \A q \in Slots(small, large) :
        q \in {"small", "large"} \X PoolId \X Nat /\ q[3] \in DOMAIN ListOf(small, large, q)
  BY DEF Slots
<1>5. \A p \in PoolId, i \in Nat : <<"small", p, i>> \in {"small", "large"} \X PoolId \X Nat
                                  /\ <<"large", p, i>> \in {"small", "large"} \X PoolId \X Nat
  OBVIOUS
<1>6. \A p \in PoolId, i \in Nat : ListOf(small, large, <<"small", p, i>>) = small[p]
                                  /\ ListOf(small, large, <<"large", p, i>>) = large[p]
  BY DEF ListOf
<1>7. \A p \in PoolId, i \in Nat : <<"small", p, i>> \in Slots(small, large) <=> i \in DOMAIN small[p]
  BY <1>5, <1>6 DEF Slots
<1>8. \A p \in PoolId, i \in Nat : <<"large", p, i>> \in Slots(small, large) <=> i \in DOMAIN large[p]
  BY <1>5, <1>6 DEF Slots
<1>. QED BY <1>1, <1>2, <1>3, <1>4, <1>7, <1>8

(* A block of a list of small ones is held.                                   *)
LEMMA SmallSlot ==
  ASSUME NEW small \in Lists, NEW large \in Lists, NEW p \in PoolId, NEW i \in DOMAIN small[p]
  PROVE  /\ i \in Nat /\ small[p][i] \in Block
         /\ <<"small", p, i>> \in DOMAIN Held(small, large)
         /\ Held(small, large)[<<"small", p, i>>] = small[p][i]
<1>1. small[p] \in Seq(Block) BY DEF Lists
<1>2. i \in Nat /\ small[p][i] \in Block BY <1>1
<1>3. <<"small", p, i>> \in Slots(small, large) BY <1>2, SlotsAre
<1>. QED BY <1>2, <1>3 DEF Held, ListOf

ChangedAt(held, held2, q, e) ==
  /\ DOMAIN held2 = DOMAIN held /\ held2[q] = e
  /\ \A r \in DOMAIN held \ {q} : held2[r] = held[r]
Replaced(lists, lists2, p, i, e) == lists2 = [lists EXCEPT ![p] = [lists[p] EXCEPT ![i] = e]]

(* One small block changes in place.                                          *)
LEMMA SmallUsed ==
  ASSUME NEW small \in Lists, NEW large \in Lists, NEW p \in PoolId, NEW i \in DOMAIN small[p],
         NEW e \in Block, NEW small2, Replaced(small, small2, p, i, e)
  PROVE  /\ small2 \in Lists
         /\ ChangedAt(Held(small, large), Held(small2, large), <<"small", p, i>>, e)
<1>1. small[p] \in Seq(Block) BY DEF Lists
<1>a. small2 = [small EXCEPT ![p] = [small[p] EXCEPT ![i] = e]] BY DEF Replaced
<1>2. small2[p] = [small[p] EXCEPT ![i] = e] BY <1>a DEF Lists
<1>3. small2[p] \in Seq(Block) /\ DOMAIN small2[p] = DOMAIN small[p] /\ small2[p][i] = e
      /\ \A k \in DOMAIN small[p] \ {i} : small2[p][k] = small[p][k]
  BY <1>1, <1>2
<1>4. small2 \in Lists
  <2>1. DOMAIN small2 = PoolId /\ \A r \in PoolId \ {p} : small2[r] = small[r] BY <1>a DEF Lists
  <2>2. \A r \in PoolId : small2[r] \in Seq(Block) BY <1>3, <2>1 DEF Lists
  <2>3. small2 = [r \in PoolId |-> small2[r]] BY <1>a, <2>1
  <2>. QED BY <2>2, <2>3 DEF Lists
<1>5. \A r \in PoolId \ {p} : small2[r] = small[r] BY <1>a DEF Lists
<1>6. Slots(small2, large) = Slots(small, large) BY <1>3, <1>5 DEF Slots, ListOf
<1>7. <<"small", p, i>> \in Slots(small, large) BY SmallSlot, SlotsAre
<1>8. Held(small2, large)[<<"small", p, i>>] = e BY <1>3, <1>6, <1>7 DEF Held, ListOf
<1>9. ASSUME NEW r \in Slots(small, large), r # <<"small", p, i>>
      PROVE  Held(small2, large)[r] = Held(small, large)[r]
  <2>1. r = <<r[1], r[2], r[3]>> /\ r[2] \in PoolId /\ r[3] \in DOMAIN ListOf(small, large, r) BY SlotsAre
  <2>2. ListOf(small2, large, r)[r[3]] = ListOf(small, large, r)[r[3]]
    BY <1>3, <1>5, <1>9, <2>1 DEF ListOf
  <2>. QED BY <1>6, <2>2 DEF Held
<1>. QED BY <1>4, <1>6, <1>8, <1>9 DEF Held, ChangedAt

-----------------------------------------------------------------------------
(* A new block at the end of a list of small ones, or at the head of a list of  *)
(* large ones.                                                                *)
Fresh(n, used, left) == [block |-> n, used |-> used, left |-> left]
Appended(lists, lists2, p, e) == lists2 = [lists EXCEPT ![p] = Append(lists[p], e)]
Prepended(lists, lists2, p, e) == lists2 = [lists EXCEPT ![p] = <<e>> \o lists[p]]

(* A block at the end of a list of small ones (alloc_small).                  *)
LEMMA SmallAdded ==
  ASSUME NEW small \in Lists, NEW large \in Lists, NEW p \in PoolId, NEW h, NEW objs,
         Kept(h, Held(small, large), objs), NEW n,
         NEW used \in Nat, NEW left \in Nat, used % Align = 0,
         NEW h2, HeapGrown(h, h2, n, Header + used + left),
         NEW small2, Appended(small, small2, p, Fresh(n, used, left))
  PROVE  small2 \in Lists /\ Kept(h2, Held(small2, large), objs)
<1> DEFINE e == Fresh(n, used, left)
           k == Len(small[p]) + 1
           q0 == <<"small", p, k>>
           held == Held(small, large)
           held2 == Held(small2, large)
           m == [q \in DOMAIN held2 \ {q0} |-> q]
<1>1. e \in Block /\ e = [block |-> n, used |-> used, left |-> left] BY DEF Block, HeapGrown, Fresh
<1>a. small2 = [small EXCEPT ![p] = Append(small[p], e)] BY DEF Appended
<1>. HIDE DEF e
<1>2. small[p] \in Seq(Block) /\ k \in Nat BY DEF Lists
<1>3. small2[p] = Append(small[p], e) BY <1>a DEF Lists
<1>4. /\ small2[p] \in Seq(Block) /\ DOMAIN small2[p] = DOMAIN small[p] \cup {k} /\ k \notin DOMAIN small[p]
      /\ small2[p][k] = e /\ \A i \in DOMAIN small[p] : small2[p][i] = small[p][i]
  BY <1>1, <1>2, <1>3
<1>. HIDE DEF k
<1>5. DOMAIN small2 = PoolId /\ \A r \in PoolId \ {p} : small2[r] = small[r] BY <1>a DEF Lists
<1>6. small2 \in Lists
  <2>1. \A r \in PoolId : small2[r] \in Seq(Block) BY <1>4, <1>5 DEF Lists
  <2>2. small2 = [r \in PoolId |-> small2[r]] BY <1>a, <1>5
  <2>. QED BY <2>1, <2>2 DEF Lists
<1>7. q0 \in DOMAIN held2 /\ held2[q0] = e
  <2>1. k \in DOMAIN small2[p] BY <1>4
  <2>2. q0 \in Slots(small2, large) BY <1>2, <1>6, <2>1, SlotsAre
  <2>. QED BY <1>4, <2>2 DEF Held, ListOf
<1>8. \A q \in DOMAIN held : q \in DOMAIN held2 /\ q # q0 /\ held2[q] = held[q]
  <2>1. ASSUME NEW q \in Slots(small, large)
        PROVE  q \in Slots(small2, large) /\ q # q0 /\ held2[q] = held[q]
    <3>1. q \in {"small", "large"} \X PoolId \X Nat /\ q[3] \in DOMAIN ListOf(small, large, q) BY DEF Slots
    <3>2. q = <<q[1], q[2], q[3]>> BY <3>1
    <3>3. q[3] \in DOMAIN ListOf(small2, large, q)
          /\ ListOf(small2, large, q)[q[3]] = ListOf(small, large, q)[q[3]]
      BY <1>4, <1>5, <3>1 DEF ListOf
    <3>4. q # q0 BY <1>4, <3>1, <3>2 DEF ListOf
    <3>5. q \in Slots(small2, large) BY <3>1, <3>3 DEF Slots
    <3>. QED BY <3>3, <3>4, <3>5 DEF Held
  <2>2. DOMAIN held = Slots(small, large) /\ DOMAIN held2 = Slots(small2, large) BY DEF Held
  <2>. HIDE DEF held, held2, q0
  <2>. QED BY <2>1, <2>2
<1>9. \A q \in DOMAIN held2 \ {q0} : q \in DOMAIN held
  <2>1. ASSUME NEW q \in Slots(small2, large), q # q0 PROVE q \in Slots(small, large)
    <3>1. q \in {"small", "large"} \X PoolId \X Nat /\ q[3] \in DOMAIN ListOf(small2, large, q) BY DEF Slots
    <3>2. q = <<q[1], q[2], q[3]>> BY <3>1
    <3>3. q[3] \in DOMAIN ListOf(small, large, q) BY <1>4, <1>5, <2>1, <3>1, <3>2 DEF ListOf
    <3>. QED BY <3>1, <3>3 DEF Slots
  <2>2. DOMAIN held = Slots(small, large) /\ DOMAIN held2 = Slots(small2, large) BY DEF Held
  <2>. HIDE DEF held, held2, q0
  <2>. QED BY <2>1, <2>2
<1>. HIDE DEF held, held2, q0
<1>10. Moved(held, held2, q0, m)
  BY <1>8, <1>9 DEF Moved
<1>. HIDE DEF m
<1>11. Kept(h, held, objs) BY DEF held
<1>12. held2[q0] = [block |-> n, used |-> used, left |-> left] BY <1>1, <1>7
<1>13. Kept(h2, held2, objs) BY <1>7, <1>10, <1>11, <1>12, BlockAdded, Zenon
<1>. QED BY <1>6, <1>13 DEF held2

(* A block at the head of a list of large ones (alloc_large).                 *)
LEMMA LargeAdded ==
  ASSUME NEW small \in Lists, NEW large \in Lists, NEW p \in PoolId, NEW h, NEW objs,
         Kept(h, Held(small, large), objs), NEW n,
         NEW used \in Nat, NEW left \in Nat, used % Align = 0,
         NEW h2, HeapGrown(h, h2, n, Header + used + left),
         NEW large2, Prepended(large, large2, p, Fresh(n, used, left))
  PROVE  /\ large2 \in Lists /\ Kept(h2, Held(small, large2), objs)
         /\ <<"large", p, 1>> \in DOMAIN Held(small, large2)
         /\ Held(small, large2)[<<"large", p, 1>>] = Fresh(n, used, left)
<1> DEFINE e == Fresh(n, used, left)
           q0 == <<"large", p, 1>>
           held == Held(small, large)
           held2 == Held(small, large2)
           Before(q) == IF q[1] = "large" /\ q[2] = p THEN <<"large", p, q[3] - 1>> ELSE q
           m == [q \in DOMAIN held2 \ {q0} |-> Before(q)]
<1>1. e \in Block /\ e = [block |-> n, used |-> used, left |-> left] BY DEF Block, HeapGrown, Fresh
<1>a. large2 = [large EXCEPT ![p] = <<e>> \o large[p]] BY DEF Prepended
<1>. HIDE DEF e
<1>2. large[p] \in Seq(Block) BY DEF Lists
<1>3. large2[p] = <<e>> \o large[p] BY <1>a DEF Lists
<1>4. /\ large2[p] \in Seq(Block)
      /\ \A i \in Nat : i \in DOMAIN large2[p] <=> i = 1 \/ i - 1 \in DOMAIN large[p]
      /\ 1 \in DOMAIN large2[p] /\ large2[p][1] = e
      /\ \A i \in DOMAIN large[p] : i + 1 \in DOMAIN large2[p] /\ large2[p][i + 1] = large[p][i]
      /\ \A i \in DOMAIN large2[p] \ {1} : i - 1 \in DOMAIN large[p] /\ large2[p][i] = large[p][i - 1]
      /\ \A i \in DOMAIN large[p] : i \in Nat \ {0}
  <2> DEFINE l == large[p]
             l2 == large2[p]
  <2>1. l \in Seq(Block) /\ l2 = <<e>> \o l /\ l2 \in Seq(Block) BY <1>1, <1>2, <1>3
  <2>. HIDE DEF l, l2
  <2>2. Len(l) \in Nat /\ Len(l2) = Len(l) + 1 /\ DOMAIN l = 1..Len(l) /\ DOMAIN l2 = 1..Len(l2)
        /\ l2[1] = e /\ \A i \in 2..Len(l2) : l2[i] = l[i-1]
    BY <2>1
  <2>3. \A i \in Nat : i \in DOMAIN l2 <=> i = 1 \/ i - 1 \in DOMAIN l BY <2>2
  <2>4. \A i \in DOMAIN l : i + 1 \in DOMAIN l2 /\ l2[i + 1] = l[i] /\ i \in Nat \ {0} BY <2>2
  <2>5. \A i \in DOMAIN l2 \ {1} : i - 1 \in DOMAIN l /\ l2[i] = l[i - 1] BY <2>2
  <2>6. 1 \in DOMAIN l2 BY <2>2
  <2>. QED BY <2>1, <2>2, <2>3, <2>4, <2>5, <2>6 DEF l, l2
<1>5. DOMAIN large2 = PoolId /\ \A r \in PoolId \ {p} : large2[r] = large[r] BY <1>a DEF Lists
<1>6. large2 \in Lists
  <2>1. \A r \in PoolId : large2[r] \in Seq(Block) BY <1>4, <1>5 DEF Lists
  <2>2. large2 = [r \in PoolId |-> large2[r]] BY <1>a, <1>5
  <2>. QED BY <2>1, <2>2 DEF Lists
<1>7. q0 \in DOMAIN held2 /\ held2[q0] = e
  <2>1. q0 \in Slots(small, large2) BY <1>4, <1>6, SlotsAre
  <2>. QED BY <1>4, <2>1 DEF Held, ListOf
<1>8. DOMAIN held = Slots(small, large) /\ DOMAIN held2 = Slots(small, large2) BY DEF Held
<1>9. ASSUME NEW q \in Slots(small, large2), q # q0
      PROVE  Before(q) \in Slots(small, large) /\ held2[q] = held[Before(q)] /\ q[2] = Before(q)[2]
  <2>1. q \in {"small", "large"} \X PoolId \X Nat /\ q[3] \in DOMAIN ListOf(small, large2, q) BY DEF Slots
  <2>2. q = <<q[1], q[2], q[3]>> /\ q[2] \in PoolId /\ q[3] \in Nat /\ q[1] \in {"small", "large"} BY <2>1
  <2>3. CASE q[1] = "large" /\ q[2] = p
    <3>1. q[3] \in DOMAIN large2[p] /\ q[3] # 1 BY <1>9, <2>1, <2>2, <2>3 DEF ListOf
    <3>2. q[3] - 1 \in DOMAIN large[p] /\ large2[p][q[3]] = large[p][q[3] - 1] BY <1>4, <3>1
    <3>3. q[3] - 1 \in Nat BY <1>4, <3>2
    <3>4. Before(q) = <<"large", p, q[3] - 1>> BY <2>3
    <3>5. Before(q) \in Slots(small, large) BY <3>2, <3>3, <3>4, SlotsAre
    <3>6. held[Before(q)] = large[p][q[3] - 1] BY <3>4, <3>5 DEF Held, ListOf
    <3>7. held2[q] = large2[p][q[3]] BY <2>3 DEF Held, ListOf
    <3>. QED BY <2>3, <3>2, <3>4, <3>5, <3>6, <3>7
  <2>4. CASE ~(q[1] = "large" /\ q[2] = p)
    <3>1. Before(q) = q BY <2>4
    <3>2. ListOf(small, large2, q) = ListOf(small, large, q) BY <1>5, <2>2, <2>4 DEF ListOf
    <3>3. q \in Slots(small, large) BY <2>1, <3>2 DEF Slots
    <3>. QED BY <3>1, <3>2, <3>3 DEF Held
  <2>. QED BY <2>3, <2>4
<1>10. ASSUME NEW q \in Slots(small, large2), q # q0, NEW r \in Slots(small, large2), r # q0,
              Before(q) = Before(r)
       PROVE  q = r
  <2>1. q = <<q[1], q[2], q[3]>> /\ q[3] \in Nat /\ r = <<r[1], r[2], r[3]>> /\ r[3] \in Nat BY <1>6, SlotsAre
  <2>2. CASE q[1] = "large" /\ q[2] = p /\ r[1] = "large" /\ r[2] = p
    <3>1. <<"large", p, q[3] - 1>> = <<"large", p, r[3] - 1>> BY <1>10, <2>2
    <3>2. q[3] - 1 = r[3] - 1 BY <3>1
    <3>. QED BY <2>1, <2>2, <3>2
  <2>3. CASE ~(q[1] = "large" /\ q[2] = p) /\ ~(r[1] = "large" /\ r[2] = p) BY <1>10, <2>3
  <2>4. CASE (q[1] = "large" /\ q[2] = p) /\ ~(r[1] = "large" /\ r[2] = p)
    <3>1. r = <<"large", p, q[3] - 1>> BY <1>10, <2>4
    <3>. QED BY <2>4, <3>1
  <2>5. CASE ~(q[1] = "large" /\ q[2] = p) /\ (r[1] = "large" /\ r[2] = p)
    <3>1. q = <<"large", p, r[3] - 1>> BY <1>10, <2>5
    <3>. QED BY <2>5, <3>1
  <2>. QED BY <2>2, <2>3, <2>4, <2>5
<1>11. ASSUME NEW r \in Slots(small, large)
       PROVE  \E q \in Slots(small, large2) : q # q0 /\ Before(q) = r
  <2>1. r \in {"small", "large"} \X PoolId \X Nat /\ r[3] \in DOMAIN ListOf(small, large, r) BY DEF Slots
  <2>2. r = <<r[1], r[2], r[3]>> /\ r[2] \in PoolId /\ r[3] \in Nat /\ r[1] \in {"small", "large"} BY <2>1
  <2>3. CASE r[1] = "large" /\ r[2] = p
    <3> DEFINE i == r[3] + 1
               q == <<"large", p, i>>
    <3>1. r[3] \in DOMAIN large[p] /\ r[3] # 0 BY <1>4, <2>1, <2>3 DEF ListOf
    <3>2. i \in DOMAIN large2[p] /\ i \in Nat /\ i - 1 = r[3] /\ i # 1
      <4>1. r[3] \in Nat \ {0} BY <1>4, <3>1
      <4>2. i \in DOMAIN large2[p] BY <1>4, <3>1
      <4>. QED BY <4>1, <4>2
    <3>. HIDE DEF i
    <3>3. q \in Slots(small, large2) BY <1>6, <3>2, SlotsAre
    <3>4. q # q0 BY <3>2
    <3>5. Before(q) = <<"large", p, i - 1>> OBVIOUS
    <3>6. Before(q) = r BY <2>2, <2>3, <3>2, <3>5
    <3>. QED BY <3>3, <3>4, <3>6
  <2>4. CASE ~(r[1] = "large" /\ r[2] = p)
    <3>1. Before(r) = r /\ r # q0 BY <2>4
    <3>2. ListOf(small, large2, r) = ListOf(small, large, r) BY <1>5, <2>2, <2>4 DEF ListOf
    <3>3. r \in Slots(small, large2) BY <2>1, <3>2 DEF Slots
    <3>. QED BY <3>1, <3>3
  <2>. QED BY <2>3, <2>4
<1>12. Kept(h, held, objs) OBVIOUS
<1>. HIDE DEF held, held2, q0, Before
<1>13. Moved(held, held2, q0, m)
  BY <1>8, <1>9, <1>10, <1>11 DEF Moved
<1>. HIDE DEF m
<1>14. held2[q0] = [block |-> n, used |-> used, left |-> left] BY <1>1, <1>7
<1>15. Kept(h2, held2, objs) BY <1>7, <1>12, <1>13, <1>14, BlockAdded, Zenon
<1>. QED BY <1>6, <1>7, <1>15 DEF held2, q0, e

-----------------------------------------------------------------------------
Result(h, small, large, total, objs, error) ==
  [heap |-> h, small |-> small, large |-> large, total |-> total, objects |-> objs, error |-> error]

(* Sound, of a record given by its fields.                                    *)
LEMMA SoundIs ==
  ASSUME NEW h, NEW small, NEW large, NEW total, NEW objs, NEW error
  PROVE  Sound(Result(h, small, large, total, objs, error)) <=>
           /\ small \in Lists /\ large \in Lists
           /\ total = SumFunction(h) /\ Kept(h, Held(small, large), objs)
BY DEF Result, Sound, Lists

(* Placed, by its fields.                                                     *)
LEMMA PlacedIs ==
  ASSUME NEW h, NEW small \in Lists, NEW large, NEW total, NEW objs, NEW error,
         NEW p \in PoolId, NEW i \in DOMAIN small[p], NEW size \in Nat
  PROVE  Placed(Result(h, small, large, total, objs, error), p, i, size) =
           Result(h, [small EXCEPT ![p] = [small[p] EXCEPT ![i] =
                        [block |-> small[p][i].block, used |-> small[p][i].used + size,
                         left |-> small[p][i].left - size]]],
                  large, total,
                  objs \cup {[pool |-> p, block |-> small[p][i].block,
                              at |-> Header + small[p][i].used, size |-> size]}, error)
<1> DEFINE b == small[p][i]
           e == [b EXCEPT !.used = @ + size, !.left = @ - size]
           s == Result(h, small, large, total, objs, error)
           o == [pool |-> p, block |-> b.block, at |-> Header + b.used, size |-> size]
<1>1. small[p] \in Seq(Block) /\ b \in Block BY DEF Lists
<1>2. e = [block |-> b.block, used |-> b.used + size, left |-> b.left - size]
  <2>1. b = [block |-> b.block, used |-> b.used, left |-> b.left] BY <1>1 DEF Block
  <2> DEFINE x == b.block
             y == b.used
             z == b.left
  <2>2. b = [block |-> x, used |-> y, left |-> z] BY <2>1
  <2>. HIDE DEF x, y, z, b
  <2>3. PICK c : c = [b EXCEPT !.used = @ + size, !.left = @ - size] OBVIOUS
  <2>4. c = [block |-> x, used |-> y + size, left |-> z - size] BY <2>2, <2>3
  <2>. QED BY <2>3, <2>4 DEF x, y, z
<1>3. s.small = small /\ s.objects = objs BY DEF Result
<1>4. Placed(s, p, i, size) = [s EXCEPT !.small[p][i] = e, !.objects = @ \cup {o}]
  BY <1>3 DEF Placed
<1>. HIDE DEF e, o, b
<1>5. [s EXCEPT !.small[p][i] = e, !.objects = @ \cup {o}] =
        Result(h, [small EXCEPT ![p] = [small[p] EXCEPT ![i] = e]], large, total, objs \cup {o}, error)
  <2> DEFINE f == [s.small EXCEPT ![p] = [s.small[p] EXCEPT ![i] = e]]
             g == s.objects \cup {o}
  <2>1. f = [small EXCEPT ![p] = [small[p] EXCEPT ![i] = e]] /\ g = objs \cup {o} BY <1>3
  <2>2. s = [heap |-> h, small |-> small, large |-> large, total |-> total, objects |-> objs, error |-> error]
    BY DEF Result
  <2>. HIDE DEF s
  <2>3. [s EXCEPT !.small[p][i] = e, !.objects = @ \cup {o}] = [s EXCEPT !.small = f, !.objects = g]
    OBVIOUS
  <2>. HIDE DEF f, g
  <2>4. PICK t : t = [s EXCEPT !.small = f, !.objects = g] OBVIOUS
  <2>5. t = [heap |-> h, small |-> f, large |-> large, total |-> total, objects |-> g, error |-> error]
    BY <2>2, <2>4
  <2>. QED BY <2>1, <2>3, <2>4, <2>5 DEF Result
<1>. HIDE DEF s
<1>. QED BY <1>2, <1>4, <1>5 DEF o, b, s

-----------------------------------------------------------------------------
(* A sound record is given by its fields.                                     *)
LEMMA ResultOf ==
  ASSUME NEW s, Sound(s)
  PROVE  /\ s = Result(s.heap, s.small, s.large, s.total, s.objects, s.error)
         /\ s.small \in Lists /\ s.large \in Lists
         /\ s.total = SumFunction(s.heap) /\ Kept(s.heap, Held(s.small, s.large), s.objects)
BY DEF Result, Sound, Lists

(* The objects of a block end where its free part begins.                     *)
LEMMA ObjectsEnd ==
  ASSUME NEW h, NEW held, NEW objs, Kept(h, held, objs), NEW q \in DOMAIN held
  PROVE  \A o \in objs : o.block = held[q].block => o.at + o.size <= Header + held[q].used
<1>1. ASSUME NEW o \in objs, o.block = held[q].block PROVE o.at + o.size <= Header + held[q].used
  <2>1. PICK r \in DOMAIN held : held[r].block = o.block /\ o.at + o.size <= Header + held[r].used
    BY DEF Kept, ObjectsApart, Within
  <2>2. r = q BY <1>1, <2>1 DEF Kept, HeldOnce
  <2>. QED BY <2>1, <2>2
<1>. QED BY <1>1

(* An object put where there is room keeps everything sound.                  *)
LEMMA PlacedSound ==
  ASSUME NEW s, Sound(s), NEW p \in PoolId, NEW i \in DOMAIN s.small[p],
         NEW size \in Nat, size % Align = 0, size <= s.small[p][i].left
  PROVE  Sound(Placed(s, p, i, size)) /\ Placed(s, p, i, size).error = s.error
<1> DEFINE h == s.heap
           small == s.small
           large == s.large
           objs == s.objects
           b == small[p][i]
           e == [block |-> b.block, used |-> b.used + size, left |-> b.left - size]
           small2 == [small EXCEPT ![p] = [small[p] EXCEPT ![i] = e]]
           o == [pool |-> p, block |-> b.block, at |-> Header + b.used, size |-> size]
           q == <<"small", p, i>>
           held == Held(small, large)
           held2 == Held(small2, large)
<1>1. /\ s = Result(h, small, large, s.total, objs, s.error)
      /\ small \in Lists /\ large \in Lists /\ s.total = SumFunction(h) /\ Kept(h, held, objs)
  BY ResultOf
<1>2. Placed(s, p, i, size) = Result(h, small2, large, s.total, objs \cup {o}, s.error)
  <2>1. i \in DOMAIN small[p] OBVIOUS
  <2>. HIDE DEF h, small, large, objs
  <2>2. Placed(Result(h, small, large, s.total, objs, s.error), p, i, size)
          = Result(h, small2, large, s.total, objs \cup {o}, s.error)
    BY <1>1, <2>1, PlacedIs
  <2>3. PICK r : r = Result(h, small, large, s.total, objs, s.error) OBVIOUS
  <2>. QED BY <1>1, <2>2
<1>3. b \in Block /\ i \in Nat /\ q \in DOMAIN held /\ held[q] = b
  <2>1. i \in DOMAIN small[p] OBVIOUS
  <2>. HIDE DEF small, large
  <2>. QED BY <1>1, <2>1, SmallSlot
<1>4. size <= b.left OBVIOUS
<1>5. i \in DOMAIN small[p] OBVIOUS
<1>. HIDE DEF h, small, large, objs, b
<1>6. b.block \in Nat /\ b.used \in Nat /\ b.left \in Nat BY <1>3 DEF Block
<1>7. e \in Block /\ e.block = b.block /\ e.used = b.used + size BY <1>4, <1>6 DEF Block
<1>8. /\ small2 \in Lists /\ DOMAIN held2 = DOMAIN held /\ held2[q] = e
      /\ \A r \in DOMAIN held \ {q} : held2[r] = held[r]
  <2>. HIDE DEF e
  <2>1. Replaced(small, small2, p, i, e) BY DEF Replaced
  <2>. HIDE DEF small2, held, held2, q
  <2>2. small2 \in Lists /\ ChangedAt(held, held2, q, e) BY <1>1, <1>5, <1>7, <2>1, SmallUsed DEF held, held2, q
  <2>. QED BY <2>2 DEF ChangedAt
<1>9. \A r \in objs : r.block = b.block => r.at + r.size <= Header + b.used
  BY <1>1, <1>3, ObjectsEnd
<1>10. Kept(h, held2, objs)
  <2>1. held2[q] = [block |-> held[q].block, used |-> held[q].used + size, left |-> held[q].left - size]
    BY <1>3, <1>8
  <2>2. size <= held[q].left BY <1>3, <1>4
  <2>. HIDE DEF held, held2, q
  <2>. QED BY <1>1, <1>3, <1>8, <2>1, <2>2, BlockUsed
<1>11. Kept(h, held2, objs \cup {o})
  <2>1. (Header + b.used) % Align = 0 /\ Header + b.used \in Nat
    <3>1. b.used % Align = 0 BY <1>1, <1>3 DEF Kept, HeldOnce
    <3>2. Header \in Nat /\ Header % Align = 0 BY AlignAssumption
    <3>3. (Header + b.used) % Align = 0 BY <1>6, <3>1, <3>2, WholeSum
    <3>. QED BY <1>6, <3>2, <3>3
  <2> DEFINE at == Header + b.used
  <2>2. at + size <= Header + held2[q].used BY <1>6, <1>7, <1>8, AlignAssumption
  <2>3. \A r \in objs : r.block = held2[q].block => r.at + r.size <= at BY <1>7, <1>8, <1>9
  <2>4. q \in DOMAIN held2 /\ q[2] = p BY <1>3, <1>8
  <2>5. at \in Nat /\ at % Align = 0 BY <2>1
  <2>6. o = [pool |-> q[2], block |-> held2[q].block, at |-> at, size |-> size] BY <1>7, <1>8
  <2>7. q[2] \in PoolId BY <2>4
  <2>. HIDE DEF held2, q, at, o
  <2>. QED BY <1>10, <2>2, <2>3, <2>4, <2>5, <2>6, <2>7, ObjectAdded, Zenon
<1>12. Sound(Placed(s, p, i, size))
  <2>. HIDE DEF held2, o, small2
  <2>1. Kept(h, Held(small2, large), objs \cup {o}) BY <1>11 DEF held2
  <2>. QED BY <1>1, <1>2, <1>8, <2>1, SoundIs
<1>13. Placed(s, p, i, size).error = s.error BY <1>2 DEF Result
<1>. QED BY <1>12, <1>13

-----------------------------------------------------------------------------
(* malloc gives a block.                                                      *)
LEMMA GotBlock ==
  ASSUME NEW s, Sound(s), NEW size \in Nat
  PROVE  LET h2 == Got(s, size).heap
         IN /\ Got(s, size) = Result(h2, s.small, s.large, s.total, s.objects, s.error)
            /\ HeapGrown(s.heap, h2, Unused(s), size)
            /\ SumFunction(h2) = s.total + size
            /\ s.total \in Int
<1> DEFINE h == s.heap
           n == Unused(s)
           h2 == [b \in DOMAIN h \cup {n} |-> IF b \in DOMAIN h THEN h[b] ELSE size]
<1>1. /\ s = Result(h, s.small, s.large, s.total, s.objects, s.error)
      /\ s.total = SumFunction(h) /\ HeapType(h)
  BY ResultOf DEF Kept
<1>2. n \in Nat /\ n \notin DOMAIN h BY <1>1, UnusedIs DEF HeapType
<1>3. Numbers(h) BY <1>1 DEF HeapType, Numbers
<1>4. Got(s, size) = [s EXCEPT !.heap = h2] BY DEF Got
<1>. HIDE DEF h, n
<1>5. /\ DOMAIN h2 = DOMAIN h \cup {n} /\ h2[n] = size
      /\ \A b \in DOMAIN h : h2[b] = h[b]
      /\ SumFunction(h2) = SumFunction(h) + size
  <2>1. PICK g : g = h2 OBVIOUS
  <2>. QED BY <1>2, <1>3, <2>1, SumAdded
<1>6. SumFunction(h) \in Int BY <1>3, SumType
<1>. HIDE DEF h2
<1>7. Got(s, size) = Result(h2, s.small, s.large, s.total, s.objects, s.error)
  <2> DEFINE a == s.small
             b == s.large
             c == s.total
             d == s.objects
             e == s.error
  <2>1. s = [heap |-> h, small |-> a, large |-> b, total |-> c, objects |-> d, error |-> e] BY <1>1 DEF Result
  <2>. HIDE DEF a, b, c, d, e
  <2>2. PICK t : t = [s EXCEPT !.heap = h2] OBVIOUS
  <2>3. t = [heap |-> h2, small |-> a, large |-> b, total |-> c, objects |-> d, error |-> e] BY <2>1, <2>2
  <2>. QED BY <1>4, <2>2, <2>3 DEF Result, a, b, c, d, e
<1>8. Got(s, size).heap = h2 BY <1>7 DEF Result
<1>9. HeapGrown(h, h2, n, size) BY <1>2, <1>5 DEF HeapGrown
<1>. QED BY <1>1, <1>5, <1>6, <1>7, <1>8, <1>9 DEF h, n

-----------------------------------------------------------------------------
(* How much malloc lets alloc_small have beside the object.                    *)
TriedAt(f, k, slop) == IF k = 0 THEN slop ELSE f[k-1] \div 2
Tried(slop) == CHOOSE f : f = [k \in 0 .. slop |-> TriedAt(f, k, slop)]

(* The slops tried exist, each half of the one before.                        *)
LEMMA TriedExists ==
  ASSUME NEW slop \in Nat
  PROVE  \A k \in 0 .. slop : Tried(slop)[k] \in Nat
<1> DEFINE P == {k \in 0 .. slop : \E f \in [0 .. k -> Nat] : f = [j \in 0 .. k |-> TriedAt(f, j, slop)]}
<1>1. 0 \in P
  <2> DEFINE f == [j \in 0 .. 0 |-> slop]
  <2>1. f \in [0 .. 0 -> Nat] /\ f = [j \in 0 .. 0 |-> TriedAt(f, j, slop)] BY DEF TriedAt
  <2>2. 0 \in 0 .. slop OBVIOUS
  <2>. QED BY <2>1, <2>2
<1>2. \A k \in 1 .. slop : k - 1 \in P => k \in P
  <2>1. ASSUME NEW k \in 1 .. slop, NEW f \in [0 .. k-1 -> Nat],
               f = [j \in 0 .. k-1 |-> TriedAt(f, j, slop)]
        PROVE  \E g \in [0 .. k -> Nat] : g = [j \in 0 .. k |-> TriedAt(g, j, slop)]
    <3> DEFINE g == [j \in 0 .. k |-> IF j = k THEN f[k-1] \div 2 ELSE f[j]]
    <3>1. k - 1 \in 0 .. k-1 /\ f[k-1] \div 2 \in Nat OBVIOUS
    <3>2. g \in [0 .. k -> Nat] BY <3>1
    <3>3. \A j \in 0 .. k-1 : g[j] = f[j] OBVIOUS
    <3>4. g[k] = f[k-1] \div 2 OBVIOUS
    <3>5. ASSUME NEW j \in 0 .. k PROVE g[j] = TriedAt(g, j, slop)
      <4>1. CASE j = k BY <3>1, <3>3, <3>4, <4>1 DEF TriedAt
      <4>2. CASE j = 0 /\ j # k
        <5>0. 0 \in 0 .. k-1 BY <4>2
        <5>1. f[0] = TriedAt(f, 0, slop) BY <2>1, <5>0, Zenon
        <5>. QED BY <3>3, <4>2, <5>1 DEF TriedAt
      <4>3. CASE j # 0 /\ j # k
        <5>1. j \in 0 .. k-1 /\ j - 1 \in 0 .. k-1 BY <4>3
        <5>2. f[j] = TriedAt(f, j, slop) BY <2>1, <5>1, Zenon
        <5>. QED BY <3>3, <4>3, <5>1, <5>2 DEF TriedAt
      <4>. QED BY <4>1, <4>2, <4>3
    <3>6. g = [j \in 0 .. k |-> g[j]] OBVIOUS
    <3>. HIDE DEF g
    <3>7. g = [j \in 0 .. k |-> TriedAt(g, j, slop)] BY <3>5, <3>6
    <3>. QED BY <3>2, <3>7
  <2>2. \A k \in 1 .. slop : k \in 0 .. slop OBVIOUS
  <2>. QED BY <2>1, <2>2
<1>3. slop \in P
  <2>1. slop \in 0 .. slop OBVIOUS
  <2>. HIDE DEF P
  <2>. QED BY <1>1, <1>2, <2>1, Induction
<1>4. PICK f \in [0 .. slop -> Nat] : f = [j \in 0 .. slop |-> TriedAt(f, j, slop)] BY <1>3
<1>5. Tried(slop) = [j \in 0 .. slop |-> TriedAt(Tried(slop), j, slop)] BY <1>4 DEF Tried
<1> DEFINE t == Tried(slop)
           R == {k \in 0 .. slop : t[k] \in Nat}
<1>6. t[0] = slop BY <1>5 DEF TriedAt
<1>7. \A k \in 1 .. slop : t[k] = t[k-1] \div 2 BY <1>5 DEF TriedAt
<1>. HIDE DEF t
<1>8. 0 \in R BY <1>6
<1>9. \A k \in 1 .. slop : k - 1 \in R => k \in R BY <1>7
<1>10. \A k \in 0 .. slop : k \in R
  <2>. HIDE DEF R
  <2>. QED BY <1>8, <1>9, Induction
<1>. QED BY <1>10 DEF t

(* The slop malloc gives is a number, or -1 for none.                         *)
LEMMA SlopGot ==
  ASSUME NEW slop \in Int, NEW request, NEW room
  PROVE  slop_got(slop, request, room) \in Nat \cup {-1}
<1> DEFINE enough == {k \in 0 .. slop : request + Tried(slop)[k] <= room /\ (k = 0 \/ Tried(slop)[k] >= MIN_SLOP)}
<1>1. slop_got(slop, request, room) = IF enough = {} THEN -1 ELSE Tried(slop)[Min(enough)]
  BY DEF slop_got, Tried, TriedAt
<1>2. CASE enough = {} BY <1>1, <1>2
<1>3. CASE enough # {}
  <2>1. slop \in Nat BY <1>3
  <2>2. enough \in SUBSET Nat /\ enough \in SUBSET (0 .. slop) OBVIOUS
  <2>. HIDE DEF enough
  <2>3. Min(enough) \in enough BY <1>3, <2>2, Least
  <2>4. Tried(slop)[Min(enough)] \in Nat BY <2>1, <2>2, <2>3, TriedExists
  <2>. QED BY <1>1, <1>3, <2>4
<1>. QED BY <1>2, <1>3

-----------------------------------------------------------------------------
(* An error exit changes nothing else.                                        *)
LEMMA ErrorSound ==
  ASSUME NEW s, Sound(s), NEW e
  PROVE  Sound(Error(s, e)) /\ Error(s, e).error = e
<1> DEFINE a == s.heap
           b == s.small
           c == s.large
           d == s.total
           f == s.objects
           g == s.error
<1>1. s = [heap |-> a, small |-> b, large |-> c, total |-> d, objects |-> f, error |-> g]
      /\ b \in Lists /\ c \in Lists /\ d = SumFunction(a) /\ Kept(a, Held(b, c), f)
  BY ResultOf DEF Result
<1>. HIDE DEF a, b, c, d, f, g
<1>2. PICK t : t = [s EXCEPT !.error = e] OBVIOUS
<1>3. t = [heap |-> a, small |-> b, large |-> c, total |-> d, objects |-> f, error |-> e] BY <1>1, <1>2
<1>4. t = Result(a, b, c, d, f, e) /\ t.error = e BY <1>3 DEF Result
<1>5. Sound(t) BY <1>1, <1>4, SoundIs
<1>. QED BY <1>2, <1>4, <1>5 DEF Error

(* A new block for small objects, at the end of the list.                     *)
WithSmall(s, p, request, slop, e) ==
  [Got(s, request + slop) EXCEPT !.total = @ + request + slop, !.small[p] = Append(@, e)]

(* A small block more.                                                        *)
LEMMA SmallBlock ==
  ASSUME NEW s, Sound(s), NEW p \in PoolId, NEW request \in Nat, NEW slop \in Nat, NEW left \in Nat,
         request + slop = Header + left,
         NEW t, t = WithSmall(s, p, request, slop, Fresh(Unused(s), 0, left))
  PROVE  /\ Sound(t) /\ t.error = s.error
         /\ Len(s.small[p]) + 1 \in DOMAIN t.small[p] /\ t.small[p][Len(s.small[p]) + 1] = Fresh(Unused(s), 0, left)
<1> DEFINE e == Fresh(Unused(s), 0, left)
<1>0. t = [Got(s, request + slop) EXCEPT !.total = @ + request + slop, !.small[p] = Append(@, e)]
  BY DEF WithSmall
<1> DEFINE u == Got(s, request + slop)
           h2 == u.heap
           small2 == [s.small EXCEPT ![p] = Append(s.small[p], e)]
           total2 == s.total + (request + slop)
<1>1. request + slop \in Nat /\ request + slop = Header + 0 + left BY AlignAssumption
<1>2. /\ u = Result(h2, s.small, s.large, s.total, s.objects, s.error)
      /\ HeapGrown(s.heap, h2, Unused(s), request + slop)
      /\ SumFunction(h2) = total2 /\ s.total \in Int
  BY <1>1, GotBlock
<1>3. s.small \in Lists /\ s.large \in Lists /\ Kept(s.heap, Held(s.small, s.large), s.objects) BY ResultOf
<1>4. HeapGrown(s.heap, h2, Unused(s), Header + 0 + left) BY <1>1, <1>2
<1>5. small2 \in Lists /\ Kept(h2, Held(small2, s.large), s.objects)
  <2>1. 0 % Align = 0 BY AlignAssumption
  <2>2. Appended(s.small, small2, p, Fresh(Unused(s), 0, left)) BY DEF Appended
  <2>. HIDE DEF h2, small2
  <2>. QED BY <1>3, <1>4, <2>1, <2>2, SmallAdded
<1>6. t = Result(h2, small2, s.large, total2, s.objects, s.error)
  <2> DEFINE a == s.small
             b == s.large
             c == s.total
             d == s.objects
             f == s.error
             g == c + request + slop
             small3 == [u.small EXCEPT ![p] = Append(u.small[p], e)]
  <2>1. u = [heap |-> h2, small |-> a, large |-> b, total |-> c, objects |-> d, error |-> f] BY <1>2 DEF Result
  <2>. HIDE DEF h2, a, b, c, d, f
  <2>2. u.small = a /\ u.total = c BY <2>1
  <2>3. g = total2 BY <1>2 DEF c
  <2>4. small3 = small2 BY <2>2 DEF a
  <2>. HIDE DEF u
  <2>5. t = [u EXCEPT !.total = @ + request + slop, !.small = small3] BY <1>0 DEF u
  <2>. HIDE DEF small3
  <2>6. t = [u EXCEPT !.total = u.total + request + slop, !.small = small3] BY <2>5
  <2>7. t = [u EXCEPT !.total = g, !.small = small3] BY <2>2, <2>6
  <2>. HIDE DEF g
  <2>8. t = [heap |-> h2, small |-> small3, large |-> b, total |-> g, objects |-> d, error |-> f]
    BY <2>1, <2>7
  <2>. HIDE DEF small2, total2
  <2>. QED BY <2>3, <2>4, <2>8 DEF Result, b, d, f
<1>7. t.small = small2 /\ t.error = s.error
  <2>. HIDE DEF h2, small2, total2
  <2>. QED BY ONLY <1>6 DEF Result
<1>8. Sound(t)
  <2>. HIDE DEF h2, small2, total2
  <2>. QED BY <1>2, <1>3, <1>5, <1>6, SoundIs
<1>9. Len(s.small[p]) + 1 \in DOMAIN small2[p] /\ small2[p][Len(s.small[p]) + 1] = e
  <2>1. s.small[p] \in Seq(Block) /\ small2[p] = Append(s.small[p], e) BY <1>3 DEF Lists
  <2>2. e \in Block BY <1>2, ResultOf DEF Block, HeapGrown, Fresh
  <2> DEFINE l == s.small[p]
             l2 == small2[p]
  <2>. HIDE DEF l, l2
  <2>3. l \in Seq(Block) /\ l2 = Append(l, e) BY <2>1 DEF l, l2
  <2>4. Len(l) + 1 \in DOMAIN l2 /\ l2[Len(l) + 1] = e BY <2>2, <2>3
  <2>. QED BY <2>4 DEF l, l2
<1>. QED BY <1>7, <1>8, <1>9

-----------------------------------------------------------------------------
(* alloc_small keeps the manager sound, whatever malloc has left.             *)
LEMMA AllocSmallSound ==
  ASSUME NEW s, Sound(s), NEW pool \in PoolId, NEW sizeofobject \in Nat, NEW room
  PROVE  Sound(alloc_small(s, pool, sizeofobject, room))
<1> DEFINE size == RoundUp(sizeofobject)
           blocks == s.small[pool]
           request == size + Header
           wanted == slop_wanted(blocks, pool, request)
           slop == slop_got(wanted, request, room)
           fresh == [block |-> Unused(s), used |-> 0, left |-> size + slop]
           i == Min(Fitting(blocks, size))
           t == [Got(s, request + slop) EXCEPT !.total = @ + request + slop, !.small[pool] = Append(@, fresh)]
<1>1. alloc_small(s, pool, sizeofobject, room) =
        IF ~Ok(s) THEN s
        ELSE IF sizeofobject > MAX_ALLOC_CHUNK - Header THEN Error(s, "OUT_OF_MEMORY")
        ELSE IF Fitting(blocks, size) # {} THEN Placed(s, pool, i, size)
        ELSE IF slop < 0 THEN Error(s, "OUT_OF_MEMORY")
        ELSE Placed(t, pool, Len(blocks) + 1, size)
  BY DEF alloc_small
<1>2. size \in Nat /\ size % Align = 0 /\ request \in Nat BY RoundedUp, AlignAssumption
<1>3. slop \in Nat \cup {-1}
  <2>1. wanted \in Int BY <1>2, SlopAssumption, ChunkAssumption DEF slop_wanted
  <2>. HIDE DEF wanted
  <2>. QED BY <2>1, SlopGot
<1>4. blocks \in Seq(Block) BY ResultOf DEF Lists
<1>5. ASSUME Fitting(blocks, size) # {} PROVE Sound(Placed(s, pool, i, size))
  <2>1. Fitting(blocks, size) \in SUBSET Nat /\ Fitting(blocks, size) \in SUBSET DOMAIN blocks
    BY <1>4 DEF Fitting
  <2>2. i \in Fitting(blocks, size)
    <3> DEFINE S == Fitting(blocks, size)
    <3>. HIDE DEF S
    <3>1. S \in SUBSET Nat /\ S # {} BY <1>5, <2>1 DEF S
    <3>2. Min(S) \in S BY <3>1, Least
    <3>. QED BY <3>2 DEF S
  <2>3. i \in DOMAIN blocks BY <2>1, <2>2
  <2>4. size <= blocks[i].left
    <3>1. blocks[i].left >= size BY <2>2 DEF Fitting
    <3>2. blocks[i] \in Block BY <1>4, <2>3
    <3>. QED BY <1>2, <3>1, <3>2 DEF Block
  <2>. HIDE DEF i, size
  <2>. QED BY <1>2, <2>3, <2>4, PlacedSound
<1>6. ASSUME slop \in Nat PROVE Sound(Placed(t, pool, Len(blocks) + 1, size))
  <2> DEFINE k == Len(blocks) + 1
             left == size + slop
  <2>1. Sound(t) /\ k \in DOMAIN t.small[pool] /\ t.small[pool][k] = fresh
    <3>1. left \in Nat /\ request + slop = Header + left BY <1>2, <1>6, AlignAssumption
    <3>2. fresh = Fresh(Unused(s), 0, left) BY DEF Fresh
    <3>3. t = WithSmall(s, pool, request, slop, Fresh(Unused(s), 0, left)) BY DEF WithSmall, Fresh
    <3>. HIDE DEF size, slop, left, fresh, request, t
    <3>4. Sound(t) /\ Len(s.small[pool]) + 1 \in DOMAIN t.small[pool]
          /\ t.small[pool][Len(s.small[pool]) + 1] = Fresh(Unused(s), 0, left)
      BY <1>2, <1>6, <3>1, <3>3, SmallBlock, SMTT(30)
    <3>. QED BY <3>2, <3>4
  <2>2. fresh.left = left OBVIOUS
  <2>3. size <= left BY <1>2, <1>6
  <2>. HIDE DEF t, k, size, slop, fresh
  <2>4. size <= t.small[pool][k].left BY <2>1, <2>2, <2>3
  <2>5. Sound(Placed(t, pool, k, size)) BY <1>2, <2>1, <2>4, PlacedSound
  <2>. QED BY <2>5 DEF k
<1>7. Sound(Error(s, "OUT_OF_MEMORY")) BY ErrorSound
<1>8. slop \in Nat \/ slop < 0 BY <1>3
<1>. HIDE DEF slop, i, t, size, blocks
<1>9. CASE ~Ok(s) BY <1>1, <1>9
<1>10. CASE sizeofobject > MAX_ALLOC_CHUNK - Header BY <1>1, <1>7, <1>9, <1>10
<1>11. CASE Ok(s) /\ ~(sizeofobject > MAX_ALLOC_CHUNK - Header)
  BY <1>1, <1>5, <1>6, <1>7, <1>8, <1>11
<1>. QED BY <1>9, <1>10, <1>11

-----------------------------------------------------------------------------
WithLarge(s, p, size) ==
  [Got(s, size + Header) EXCEPT
     !.total = @ + size + Header,
     !.large[p] = <<Fresh(Unused(s), size, 0)>> \o @,
     !.objects = @ \cup {[pool |-> p, block |-> Unused(s), at |-> Header, size |-> size]}]

(* A large block more, with its object.                                       *)
LEMMA LargeBlock ==
  ASSUME NEW s, Sound(s), NEW p \in PoolId, NEW size \in Nat, size % Align = 0,
         NEW t, t = WithLarge(s, p, size)
  PROVE  Sound(t) /\ t.error = s.error
<1> DEFINE u == Got(s, size + Header)
           h2 == u.heap
           n == Unused(s)
           e == Fresh(n, size, 0)
           large2 == [s.large EXCEPT ![p] = <<e>> \o s.large[p]]
           total2 == s.total + (size + Header)
           o == [pool |-> p, block |-> n, at |-> Header, size |-> size]
           objs2 == s.objects \cup {o}
           q0 == <<"large", p, 1>>
           held2 == Held(s.small, large2)
<1>1. size + Header \in Nat /\ size + Header = Header + size + 0 /\ Header \in Nat /\ Header % Align = 0
  BY AlignAssumption
<1>2. /\ u = Result(h2, s.small, s.large, s.total, s.objects, s.error)
      /\ HeapGrown(s.heap, h2, n, size + Header)
      /\ SumFunction(h2) = total2 /\ s.total \in Int
  BY <1>1, GotBlock
<1>3. s.small \in Lists /\ s.large \in Lists /\ Kept(s.heap, Held(s.small, s.large), s.objects) BY ResultOf
<1>4. HeapGrown(s.heap, h2, n, Header + size + 0) BY <1>1, <1>2
<1>5. large2 \in Lists /\ Kept(h2, held2, s.objects) /\ q0 \in DOMAIN held2 /\ held2[q0] = e
  <2>1. Prepended(s.large, large2, p, Fresh(n, size, 0)) BY DEF Prepended
  <2>. HIDE DEF h2, large2, n
  <2>. QED BY <1>3, <1>4, <2>1, LargeAdded
<1>6. Kept(h2, held2, objs2)
  <2>1. n \notin DOMAIN s.heap BY <1>2 DEF HeapGrown
  <2>2. ASSUME NEW r \in s.objects PROVE r.block # n
    <3>1. PICK q \in DOMAIN Held(s.small, s.large) : Held(s.small, s.large)[q].block = r.block
      BY <1>3 DEF Kept, ObjectsApart, Within
    <3>2. r.block \in DOMAIN s.heap BY <1>3, <3>1 DEF Kept, HeldOnce
    <3>. QED BY <2>1, <3>2
  <2>3. held2[q0].block = n /\ held2[q0].used = size BY <1>5 DEF Fresh
  <2>4. \A r \in s.objects : r.block = held2[q0].block => r.at + r.size <= Header BY <2>2, <2>3
  <2>5. q0[2] = p OBVIOUS
  <2>6. q0[2] \in PoolId BY <2>5
  <2>7. Header + size <= Header + held2[q0].used BY <1>1, <2>3
  <2>8. o = [pool |-> q0[2], block |-> held2[q0].block, at |-> Header, size |-> size] BY <2>3, <2>5
  <2>. HIDE DEF h2, held2, n, q0, o
  <2>. QED BY <1>1, <1>5, <2>4, <2>6, <2>7, <2>8, ObjectAdded, Zenon
<1>7. t = Result(h2, s.small, large2, total2, objs2, s.error)
  <2> DEFINE a == s.small
             b == s.large
             c == s.total
             d == s.objects
             f == s.error
             g == u.total + size + Header
             large3 == [u.large EXCEPT ![p] = <<e>> \o u.large[p]]
             objs3 == u.objects \cup {o}
  <2>1. u = [heap |-> h2, small |-> a, large |-> b, total |-> c, objects |-> d, error |-> f] BY <1>2 DEF Result
  <2>. HIDE DEF h2, a, b, c, d, f
  <2>2. u.large = b /\ u.total = c /\ u.objects = d BY <2>1
  <2>3. g = total2 BY <1>1, <1>2, <2>2 DEF c
  <2>4. large3 = large2 /\ objs3 = objs2 BY <2>2 DEF b, d
  <2>. HIDE DEF u
  <2>5. t = [u EXCEPT !.total = g, !.large = large3, !.objects = objs3] BY DEF u, WithLarge
  <2>. HIDE DEF g, large3, objs3
  <2>6. t = [heap |-> h2, small |-> a, large |-> large3, total |-> g, objects |-> objs3, error |-> f]
    BY <2>1, <2>5
  <2>. HIDE DEF large2, total2, objs2
  <2>. QED BY <2>3, <2>4, <2>6 DEF Result, a, f
<1>. HIDE DEF h2, large2, total2, objs2
<1>8. t.error = s.error BY ONLY <1>7 DEF Result
<1>9. Sound(t) BY <1>2, <1>3, <1>5, <1>6, <1>7, SoundIs DEF held2
<1>. QED BY <1>8, <1>9

(* alloc_large, as alloc_small.                                               *)
LEMMA AllocLargeSound ==
  ASSUME NEW s, Sound(s), NEW pool \in PoolId, NEW sizeofobject \in Nat, NEW room
  PROVE  Sound(alloc_large(s, pool, sizeofobject, room))
<1> DEFINE size == RoundUp(sizeofobject)
           t == WithLarge(s, pool, size)
<1>1. alloc_large(s, pool, sizeofobject, room) =
        IF ~Ok(s) THEN s
        ELSE IF sizeofobject > MAX_ALLOC_CHUNK - Header \/ size + Header > room THEN Error(s, "OUT_OF_MEMORY")
        ELSE t
  BY DEF alloc_large, WithLarge, Fresh
<1>2. size \in Nat /\ size % Align = 0 BY RoundedUp
<1>. HIDE DEF size
<1>3. Sound(t)
  <2>1. PICK u : u = t OBVIOUS
  <2>. QED BY <1>2, <2>1, LargeBlock
<1>4. Sound(Error(s, "OUT_OF_MEMORY")) BY ErrorSound
<1>. HIDE DEF t
<1>. QED BY <1>1, <1>3, <1>4

-----------------------------------------------------------------------------
(* alloc_sarray, one strip of rows after the other.                           *)
ChunkAt(f, k, s, pool, width, numrows, room) ==
  IF k = 0 THEN alloc_small(s, pool, numrows * Align, room)
  ELSE alloc_large(f[k-1], pool, RowsOfChunk(k, width, numrows) * width, room)
Chunks(count, s, pool, width, numrows, room) ==
  CHOOSE f : f = [k \in 0 .. count |-> ChunkAt(f, k, s, pool, width, numrows, room)]

(* The strips of alloc_sarray, one after the other.                           *)
LEMMA ChunksExist ==
  ASSUME NEW count \in Nat, NEW s, NEW pool, NEW width, NEW numrows, NEW room
  PROVE  LET c == Chunks(count, s, pool, width, numrows, room)
         IN \A k \in 0 .. count : c[k] = ChunkAt(c, k, s, pool, width, numrows, room)
<1> DEFINE At(f, k) == ChunkAt(f, k, s, pool, width, numrows, room)
           P == {k \in 0 .. count : \E f : f = [j \in 0 .. k |-> At(f, j)]}
<1>1. \A f, g, k : k = 0 \/ f[k-1] = g[k-1] => At(f, k) = At(g, k) BY DEF ChunkAt
<1>. HIDE DEF At
<1>2. 0 \in P
  <2> DEFINE f == [j \in 0 .. 0 |-> At(0, j)]
  <2>1. \A j \in 0 .. 0 : At(0, j) = At(f, j) BY <1>1
  <2>2. f = [j \in 0 .. 0 |-> f[j]] OBVIOUS
  <2>3. \A j \in 0 .. 0 : f[j] = At(f, j)
    <3>1. \A j \in 0 .. 0 : f[j] = At(0, j) OBVIOUS
    <3>. HIDE DEF f
    <3>. QED BY <2>1, <3>1
  <2>. HIDE DEF f
  <2>4. f = [j \in 0 .. 0 |-> At(f, j)] BY <2>2, <2>3
  <2>5. 0 \in 0 .. count OBVIOUS
  <2>. QED BY <2>4, <2>5
<1>3. \A k \in 1 .. count : k - 1 \in P => k \in P
  <2>1. ASSUME NEW k \in 1 .. count, NEW f, f = [j \in 0 .. k-1 |-> At(f, j)]
        PROVE  \E g : g = [j \in 0 .. k |-> At(g, j)]
    <3> DEFINE g == [j \in 0 .. k |-> IF j = k THEN At(f, k) ELSE f[j]]
    <3>1. k - 1 \in 0 .. k-1 /\ k # 0 OBVIOUS
    <3>2. \A j \in 0 .. k-1 : g[j] = f[j] OBVIOUS
    <3>3. g[k] = At(f, k) OBVIOUS
    <3>4. g = [j \in 0 .. k |-> g[j]] OBVIOUS
    <3>. HIDE DEF g
    <3>5. ASSUME NEW j \in 0 .. k PROVE g[j] = At(g, j)
      <4>1. CASE j = k
        <5>1. g[k-1] = f[k-1] BY <3>1, <3>2
        <5>2. At(f, k) = At(g, k) BY <1>1, <5>1
        <5>. QED BY <3>3, <4>1, <5>2
      <4>2. CASE j # k
        <5>1. j \in 0 .. k-1 /\ (j = 0 \/ j - 1 \in 0 .. k-1) BY <4>2
        <5>2. f[j] = At(f, j) BY <2>1, <5>1, Zenon
        <5>3. j = 0 \/ f[j-1] = g[j-1] BY <3>2, <5>1
        <5>4. At(f, j) = At(g, j) BY <1>1, <5>3
        <5>. QED BY <3>2, <5>1, <5>2, <5>4
      <4>. QED BY <4>1, <4>2
    <3>6. g = [j \in 0 .. k |-> At(g, j)] BY <3>4, <3>5
    <3>. QED BY <3>6
  <2>2. \A k \in 1 .. count : k \in 0 .. count OBVIOUS
  <2>. QED BY <2>1, <2>2
<1>4. count \in P
  <2>1. count \in 0 .. count OBVIOUS
  <2>. HIDE DEF P
  <2>. QED BY <1>2, <1>3, <2>1, Induction
<1>5. \E f : f = [k \in 0 .. count |-> At(f, k)] BY <1>4
<1> DEFINE c == Chunks(count, s, pool, width, numrows, room)
<1>6. c = [k \in 0 .. count |-> At(c, k)] BY <1>5 DEF Chunks, At
<1>. HIDE DEF c
<1>7. \A k \in 0 .. count : c[k] = At(c, k) BY <1>6, Zenon
<1>. QED BY <1>7 DEF At, c

(* alloc_sarray, with an error exit at any strip.                             *)
LEMMA AllocRowsSound ==
  ASSUME NEW s, Sound(s), NEW pool \in PoolId, NEW width \in Nat \ {0}, NEW numrows \in Nat \ {0}, NEW room
  PROVE  Sound(alloc_sarray(s, pool, width, numrows, room))
<1> DEFINE per == rowsperchunk(width, numrows)
           count == (numrows + per - 1) \div per
           c == Chunks(count, s, pool, width, numrows, room)
           StripSize(k) == RowsOfChunk(k, width, numrows) * width
<1>1. alloc_sarray(s, pool, width, numrows, room) =
        IF ~Ok(s) THEN s ELSE IF per <= 0 THEN Error(s, "WIDTH_OVERFLOW") ELSE c[count]
  BY DEF alloc_sarray, Chunks, ChunkAt
<1>2. Sound(Error(s, "WIDTH_OVERFLOW")) BY ErrorSound
<1>3. per \in Int BY AlignAssumption, ChunkAssumption DEF rowsperchunk
<1>4. ASSUME per > 0 PROVE Sound(c[count])
  <2>1. per \in Nat \ {0} BY <1>3, <1>4
  <2>2. count \in Nat
    <3>. HIDE DEF per
    <3>1. numrows + per - 1 \in Nat BY <2>1
    <3>. QED BY <2>1, <3>1
  <2>3. \A k \in 0 .. count : StripSize(k) \in Nat
    <3>1. ASSUME NEW k \in 0 .. count PROVE RowsOfChunk(k, width, numrows) \in Nat
      <4>1. RowsOfChunk(k, width, numrows) = IF k * per <= numrows THEN per ELSE numrows % per BY DEF RowsOfChunk
      <4>. HIDE DEF per
      <4>2. numrows % per \in Nat BY <2>1
      <4>. QED BY <2>1, <4>1, <4>2
    <3>2. ASSUME NEW k \in 0 .. count PROVE StripSize(k) \in Nat
      <4> DEFINE r == RowsOfChunk(k, width, numrows)
      <4>1. r \in Nat BY <3>1
      <4>. HIDE DEF r
      <4>2. r * width \in Nat BY <4>1
      <4>. QED BY <4>2 DEF r
    <3>. QED BY <3>2
  <2>4. \A k \in 0 .. count : c[k] = ChunkAt(c, k, s, pool, width, numrows, room)
    <3>. HIDE DEF count
    <3>. QED BY <2>2, ChunksExist
  <2>. HIDE DEF c, count
  <2>5. c[0] = alloc_small(s, pool, numrows * Align, room) BY <2>2, <2>4 DEF ChunkAt
  <2>6. \A k \in 1 .. count : c[k] = alloc_large(c[k-1], pool, StripSize(k), room) BY <2>2, <2>4 DEF ChunkAt
  <2>. HIDE DEF StripSize
  <2> DEFINE P == {k \in 0 .. count : Sound(c[k])}
  <2>7. 0 \in P
    <3>1. numrows * Align \in Nat BY AlignAssumption
    <3>2. Sound(c[0]) BY <2>5, <3>1, AllocSmallSound
    <3>. QED BY <2>2, <3>2
  <2>8. \A k \in 1 .. count : k - 1 \in P => k \in P
    <3>1. ASSUME NEW k \in 1 .. count, Sound(c[k-1]) PROVE Sound(c[k])
      <4>1. StripSize(k) \in Nat BY <2>2, <2>3
      <4>2. Sound(alloc_large(c[k-1], pool, StripSize(k), room)) BY <3>1, <4>1, AllocLargeSound
      <4>. QED BY <2>6, <4>2
    <3>. QED BY <2>2, <3>1
  <2>9. count \in P
    <3>1. count \in 0 .. count BY <2>2
    <3>. HIDE DEF P
    <3>. QED BY <2>2, <2>7, <2>8, <3>1, Induction
  <2>. QED BY <2>9
<1>. HIDE DEF c, per, count
<1>. QED BY <1>1, <1>2, <1>3, <1>4

-----------------------------------------------------------------------------
(* How realize_virt_arrays shares the memory.                                 *)
ShareType == virt_list \in Seq(Virt) /\ max_memory_to_use \in Int /\ total_space_allocated \in Int
Strips == [i \in Unrealized |-> virt_list[i].maxaccess * virt_list[i].width]
Wholes == [i \in Unrealized |-> virt_list[i].rows_in_array * virt_list[i].width]

(* An array not realized yet.                                                 *)
LEMMA ArrayType ==
  ASSUME ShareType, NEW i \in Unrealized
  PROVE  /\ virt_list[i] \in Virt
         /\ virt_list[i].rows_in_array \in Nat \ {0} /\ virt_list[i].maxaccess \in Nat \ {0}
         /\ virt_list[i].width \in Nat \ {0}
<1>1. i \in DOMAIN virt_list BY DEF Unrealized
<1>2. virt_list[i] \in Virt BY <1>1 DEF ShareType
<1>. QED BY <1>2 DEF Virt

(* A product is no less than its factors.                                     *)
LEMMA Product ==
  ASSUME NEW a \in Nat \ {0}, NEW b \in Nat \ {0}
  PROVE  a * b \in Nat \ {0} /\ a * b >= a /\ a * b >= b
<1>1. (a - 1) * b \in Nat /\ a * b = (a - 1) * b + b OBVIOUS
<1>2. a * (b - 1) \in Nat /\ a * b = a * (b - 1) + a OBVIOUS
<1>. QED BY <1>1, <1>2

(* What the arrays ask for, and how many strips each gets.                    *)
LEMMA SharesType ==
  ASSUME ShareType, Unrealized # {}
  PROVE  /\ Numbers(Strips) /\ Numbers(Wholes) /\ IsFiniteSet(Unrealized)
         /\ space_per_minheight \in Nat \ {0} /\ maximum_space \in Nat \ {0}
         /\ jpeg_mem_available \in Int /\ max_minheights \in Nat \ {0}
<1>1. IsFiniteSet(Unrealized)
  <2>1. Len(virt_list) \in Nat /\ DOMAIN virt_list = 1 .. Len(virt_list) BY DEF ShareType
  <2>2. IsFiniteSet(DOMAIN virt_list) BY <2>1, FS_Interval
  <2>3. Unrealized \in SUBSET DOMAIN virt_list BY DEF Unrealized
  <2>. QED BY <2>2, <2>3, FS_Subset
<1>2. DOMAIN Strips = Unrealized /\ \A i \in Unrealized : Strips[i] \in Nat \ {0}
  <2>1. ASSUME NEW i \in Unrealized PROVE virt_list[i].maxaccess * virt_list[i].width \in Nat \ {0}
    <3> DEFINE a == virt_list[i].maxaccess
               b == virt_list[i].width
    <3>1. a \in Nat \ {0} /\ b \in Nat \ {0} BY ArrayType
    <3>. HIDE DEF a, b
    <3>2. a * b \in Nat \ {0} BY <3>1, Product
    <3>. QED BY <3>2 DEF a, b
  <2>. QED BY <2>1 DEF Strips
<1>3. DOMAIN Wholes = Unrealized /\ \A i \in Unrealized : Wholes[i] \in Nat \ {0}
  <2>1. ASSUME NEW i \in Unrealized PROVE virt_list[i].rows_in_array * virt_list[i].width \in Nat \ {0}
    <3> DEFINE a == virt_list[i].rows_in_array
               b == virt_list[i].width
    <3>1. a \in Nat \ {0} /\ b \in Nat \ {0} BY ArrayType
    <3>. HIDE DEF a, b
    <3>2. a * b \in Nat \ {0} BY <3>1, Product
    <3>. QED BY <3>2 DEF a, b
  <2>. QED BY <2>1 DEF Wholes
<1>4. Numbers(Strips) /\ Numbers(Wholes) BY <1>1, <1>2, <1>3 DEF Numbers
<1>5. PICK i \in Unrealized : TRUE OBVIOUS
<1>6. SumFunction(Strips) \in Nat \ {0}
  <2>1. SumFunction(Strips) \in Int BY <1>4, SumType
  <2>2. Strips[i] <= SumFunction(Strips) BY <1>2, <1>4, <1>5, SumPart
  <2>. QED BY <1>2, <1>5, <2>1, <2>2
<1>7. SumFunction(Wholes) \in Nat \ {0}
  <2>1. SumFunction(Wholes) \in Int BY <1>4, SumType
  <2>2. Wholes[i] <= SumFunction(Wholes) BY <1>3, <1>4, <1>5, SumPart
  <2>. QED BY <1>3, <1>5, <2>1, <2>2
<1>8. space_per_minheight = SumFunction(Strips) /\ maximum_space = SumFunction(Wholes)
  BY DEF space_per_minheight, maximum_space, Strips, Wholes
<1>9. jpeg_mem_available \in Int BY <1>7, <1>8 DEF jpeg_mem_available, ShareType
<1>10. max_minheights \in Nat \ {0}
  <2> DEFINE a == jpeg_mem_available
             p == space_per_minheight
  <2>1. p \in Nat \ {0} /\ a \in Int BY <1>6, <1>8, <1>9
  <2>2. CASE a >= maximum_space BY <1>7, <1>8, <2>2 DEF max_minheights
  <2>3. CASE ~(a >= maximum_space) /\ a < p BY <2>3 DEF max_minheights
  <2>4. CASE ~(a >= maximum_space) /\ ~(a < p)
    <3>1. max_minheights = a \div p BY <2>4 DEF max_minheights
    <3>. HIDE DEF a, p
    <3>2. a \div p >= 1 /\ a \div p \in Int
      <4>1. a = p * (a \div p) + (a % p) /\ a \div p \in Int /\ a % p \in 0 .. p-1 BY <2>1
      <4>2. CASE a \div p >= 1 BY <4>1, <4>2
      <4>3. CASE a \div p <= 0
        <5> DEFINE d == a \div p
        <5>. HIDE DEF d
        <5>1. d \in Int /\ d <= 0 BY <4>1, <4>3 DEF d
        <5>2. p * d <= 0 /\ p * d \in Int BY <2>1, <5>1
        <5>3. a = p * d + (a % p) BY <4>1 DEF d
        <5>4. a >= p BY <2>1, <2>4
        <5>. QED BY <2>1, <4>1, <5>2, <5>3, <5>4
      <4>. QED BY <4>1, <4>2, <4>3
    <3>. QED BY <3>1, <3>2
  <2>. QED BY <2>2, <2>3, <2>4
<1>. QED BY <1>1, <1>4, <1>6, <1>7, <1>8, <1>9, <1>10

(* What an array gets: all its rows or whole strips.                           *)
LEMMA RowsGiven ==
  ASSUME ShareType, Unrealized # {}, NEW i \in Unrealized
  PROVE  LET v == virt_list[i]
         IN /\ rows_in_mem(v) \in Nat \ {0}
            /\ rows_in_mem(v) <= max_minheights * v.maxaccess
            /\ rows_in_mem(v) <= v.rows_in_array
            /\ rows_in_mem(v) # v.rows_in_array => rows_in_mem(v) % v.maxaccess = 0
<1> DEFINE v == virt_list[i]
           n == v.rows_in_array
           a == v.maxaccess
           m == max_minheights
           k == (n - 1) \div a
           r == rows_in_mem(v)
<1>1. n \in Nat \ {0} /\ a \in Nat \ {0} /\ m \in Nat \ {0} BY ArrayType, SharesType
<1>2. r = IF k + 1 <= m THEN n ELSE m * a BY DEF rows_in_mem, InMemory, minheights_of
<1>. HIDE DEF n, a, m, r
<1>3. k \in Nat /\ n - 1 = a * k + ((n - 1) % a) /\ (n - 1) % a \in 0 .. a-1 BY <1>1
<1> DEFINE x == (n - 1) % a
<1>. HIDE DEF k, x
<1>4. n - 1 = a * k + x /\ x \in 0 .. a-1 BY <1>3 DEF x
<1>5. m * a \in Nat \ {0} BY <1>1, Product
<1>6. CASE k + 1 <= m
  <2>1. (m - (k + 1)) * a >= 0 BY <1>1, <1>3, <1>6
  <2>2. m * a = (m - (k + 1)) * a + a * k + a BY <1>1, <1>3
  <2>3. n <= m * a BY <1>1, <1>3, <1>4, <1>5, <2>1, <2>2
  <2>. QED BY <1>1, <1>2, <1>6, <2>3 DEF r, n, a, m
<1>7. CASE ~(k + 1 <= m)
  <2>1. k >= m BY <1>1, <1>3, <1>7
  <2>2. (k - m) * a >= 0 BY <1>1, <1>3, <2>1
  <2>3. a * k = (k - m) * a + m * a BY <1>1, <1>3
  <2>4. m * a <= n - 1 BY <1>1, <1>3, <1>4, <1>5, <2>2, <2>3
  <2>5. (m * a) % a = 0
    <3>1. m * a = a * m /\ m \in Nat BY <1>1
    <3>. QED BY <1>1, <1>5, <3>1, WholeTimes
  <2>6. r = m * a BY <1>2, <1>7
  <2>. QED BY <1>1, <1>5, <2>4, <2>5, <2>6 DEF r, n, a, m
<1>. QED BY <1>6, <1>7

-----------------------------------------------------------------------------
(* What is shared fits, when every array can have its smallest.               *)
LEMMA SharesFit ==
  ASSUME ShareType, Unrealized # {}, space_per_minheight <= jpeg_mem_available,
         NEW b, DOMAIN b = Unrealized,
         \A i \in Unrealized : b[i] = rows_in_mem(virt_list[i]) * virt_list[i].width
  PROVE  SumFunction(b) <= jpeg_mem_available
<1> DEFINE m == max_minheights
           available == jpeg_mem_available
           p == space_per_minheight
<1>1. /\ Numbers(Strips) /\ Numbers(Wholes) /\ IsFiniteSet(Unrealized)
      /\ p \in Nat \ {0} /\ maximum_space \in Nat \ {0} /\ available \in Int /\ m \in Nat \ {0}
  BY SharesType
<1>2. ASSUME NEW i \in Unrealized
      PROVE  b[i] \in Int /\ b[i] <= 1 * Wholes[i] /\ b[i] <= m * Strips[i]
  <2> DEFINE v == virt_list[i]
             n == v.rows_in_array
             a == v.maxaccess
             w == v.width
             r == rows_in_mem(v)
  <2>1. n \in Nat \ {0} /\ a \in Nat \ {0} /\ w \in Nat \ {0} BY ArrayType
  <2>2. r \in Nat \ {0} /\ r <= m * a /\ r <= n BY RowsGiven
  <2>3. b[i] = r * w OBVIOUS
  <2>4. Wholes[i] = n * w /\ Strips[i] = a * w BY DEF Wholes, Strips
  <2>. HIDE DEF n, a, w, r, m
  <2>5. r * w \in Int BY <2>1, <2>2
  <2>6. r * w <= n * w
    <3>1. (n - r) * w >= 0 /\ n * w = (n - r) * w + r * w BY <2>1, <2>2
    <3>. QED BY <2>1, <2>2, <3>1
  <2>7. r * w <= m * (a * w)
    <3> DEFINE x == m * a
    <3>1. x \in Nat /\ r <= x BY <1>1, <2>1, <2>2
    <3>2. x * w = m * (a * w) BY <1>1, <2>1
    <3>. HIDE DEF x
    <3>3. (x - r) * w >= 0 /\ x * w = (x - r) * w + r * w BY <2>1, <2>2, <3>1
    <3>4. x * w \in Int BY <2>1, <3>1
    <3>5. r * w <= x * w BY <2>1, <2>2, <2>5, <3>1, <3>3, <3>4
    <3>. QED BY <3>2, <3>5
  <2>8. n * w \in Int BY <2>1
  <2>. QED BY <2>3, <2>4, <2>5, <2>6, <2>7, <2>8
<1>3. Numbers(b) BY <1>1, <1>2 DEF Numbers
<1>4. DOMAIN Wholes = DOMAIN b /\ DOMAIN Strips = DOMAIN b BY DEF Wholes, Strips
<1>5. p = SumFunction(Strips) /\ maximum_space = SumFunction(Wholes)
  BY DEF space_per_minheight, maximum_space, Strips, Wholes
<1>6. SumFunction(b) \in Int BY <1>3, SumType
<1>7. CASE available >= maximum_space
  <2>1. SumFunction(b) <= 1 * SumFunction(Wholes) BY <1>1, <1>2, <1>3, <1>4, SumAtMost
  <2>. QED BY <1>1, <1>5, <1>6, <1>7, <2>1
<1>8. CASE ~(available >= maximum_space)
  <2>1. m = available \div p BY <1>1, <1>8 DEF max_minheights
  <2>. HIDE DEF m, available, p
  <2>2. SumFunction(b) <= m * p
    <3>1. m \in Nat BY <1>1
    <3>2. \A i \in DOMAIN b : b[i] <= m * Strips[i] BY <1>2
    <3>3. SumFunction(b) <= m * SumFunction(Strips) BY <1>1, <1>3, <1>4, <3>1, <3>2, SumAtMost
    <3>. QED BY <1>5, <3>3
  <2>3. available = p * m + (available % p) /\ available % p \in 0 .. p-1 BY <1>1, <2>1
  <2>4. m * p = p * m /\ p * m \in Int BY <1>1
  <2>5. SumFunction(b) <= available BY <1>1, <1>6, <2>2, <2>3, <2>4
  <2>. QED BY <2>5 DEF available
<1>. QED BY <1>7, <1>8

-----------------------------------------------------------------------------
(* realize_virt_arrays up to the array i.                                     *)
Realizing(t, i) ==
  /\ t = [s |-> t.s, virt |-> t.virt, files |-> t.files]
  /\ Sound(t.s)
  /\ t.virt \in Seq(Virt) /\ DOMAIN t.virt = DOMAIN virt_list
  /\ t.files = Cardinality(Open(t.virt))
  /\ \A j \in DOMAIN virt_list :
       /\ t.virt[j].rows_in_array = virt_list[j].rows_in_array
       /\ t.virt[j].maxaccess = virt_list[j].maxaccess
       /\ t.virt[j].width = virt_list[j].width
       /\ j > i => t.virt[j] = virt_list[j]
       /\ Ok(t.s) => /\ t.virt[j].b_s_open => t.virt[j].realized
                     /\ j <= i /\ j \in Unrealized => t.virt[j].rows_in_mem = rows_in_mem(virt_list[j])

(* One array's fields, changed at one place.                                  *)
LEMMA OneRealized ==
  ASSUME NEW virt \in Seq(Virt), NEW i \in DOMAIN virt, NEW open \in BOOLEAN, NEW done \in BOOLEAN,
         NEW r \in Nat, NEW virt2,
         virt2 = [virt EXCEPT ![i] = [rows_in_array |-> virt[i].rows_in_array, maxaccess |-> virt[i].maxaccess,
                                      width |-> virt[i].width, realized |-> done, rows_in_mem |-> r, b_s_open |-> open]]
  PROVE  /\ virt2 \in Seq(Virt) /\ DOMAIN virt2 = DOMAIN virt
         /\ \A j \in DOMAIN virt \ {i} : virt2[j] = virt[j]
         /\ virt2[i].rows_in_array = virt[i].rows_in_array /\ virt2[i].maxaccess = virt[i].maxaccess
         /\ virt2[i].width = virt[i].width /\ virt2[i].realized = done /\ virt2[i].rows_in_mem = r
         /\ virt2[i].b_s_open = open
<1> DEFINE e == [rows_in_array |-> virt[i].rows_in_array, maxaccess |-> virt[i].maxaccess,
                 width |-> virt[i].width, realized |-> done, rows_in_mem |-> r, b_s_open |-> open]
<1>1. virt[i] \in Virt OBVIOUS
<1>2. e \in Virt BY <1>1 DEF Virt
<1>3. /\ e.rows_in_array = virt[i].rows_in_array /\ e.maxaccess = virt[i].maxaccess
      /\ e.width = virt[i].width /\ e.realized = done /\ e.rows_in_mem = r /\ e.b_s_open = open
  OBVIOUS
<1>. HIDE DEF e
<1>4. virt2 = [virt EXCEPT ![i] = e] BY DEF e
<1>5. virt2 \in Seq(Virt) /\ DOMAIN virt2 = DOMAIN virt /\ virt2[i] = e
      /\ \A j \in DOMAIN virt \ {i} : virt2[j] = virt[j]
  BY <1>2, <1>4
<1>. QED BY <1>3, <1>5

-----------------------------------------------------------------------------
(* One array opens its file, or none does.                                    *)
LEMMA OpenMore ==
  ASSUME NEW virt \in Seq(Virt), NEW virt2 \in Seq(Virt), DOMAIN virt2 = DOMAIN virt, NEW i \in DOMAIN virt,
         ~virt[i].b_s_open, \A j \in DOMAIN virt \ {i} : virt2[j].b_s_open = virt[j].b_s_open
  PROVE  /\ Cardinality(Open(virt)) \in Nat
         /\ Cardinality(Open(virt2)) = IF virt2[i].b_s_open THEN Cardinality(Open(virt)) + 1
                                       ELSE Cardinality(Open(virt))
<1>1. IsFiniteSet(Open(virt))
  <2>1. Len(virt) \in Nat /\ DOMAIN virt = 1 .. Len(virt) OBVIOUS
  <2>2. IsFiniteSet(DOMAIN virt) BY <2>1, FS_Interval
  <2>3. Open(virt) \in SUBSET DOMAIN virt BY DEF Open
  <2>. QED BY <2>2, <2>3, FS_Subset
<1>2. i \notin Open(virt) BY DEF Open
<1>3. CASE virt2[i].b_s_open
  <2>1. Open(virt2) = Open(virt) \cup {i} BY <1>3 DEF Open
  <2>. QED BY <1>1, <1>2, <1>3, <2>1, FS_AddElement, FS_CardinalityType
<1>4. CASE ~virt2[i].b_s_open
  <2>1. Open(virt2) = Open(virt) BY <1>4 DEF Open
  <2>. QED BY <1>1, <1>4, <2>1, FS_CardinalityType
<1>. QED BY <1>3, <1>4

(* One array realized, or an error exit half way.                             *)
LEMMA RealizeOne ==
  ASSUME ShareType, Unrealized # {}, NEW i \in DOMAIN virt_list, NEW t, Realizing(t, i - 1), NEW room
  PROVE  Realizing(realize_one(t, i, room), i)
<1> DEFINE v == virt_list[i]
           opens == ~InMemory(v) /\ t.files < MaxFiles
           filed == IF InMemory(v) \/ opens THEN t.s ELSE Error(t.s, "TFILE_CREATE")
           given == alloc_sarray(filed, "IMAGE", v.width, rows_in_mem(v), room)
           open == v.b_s_open \/ opens
           r == rows_in_mem(v)
           e == [v EXCEPT !.realized = Ok(given), !.rows_in_mem = r, !.b_s_open = @ \/ opens]
           virt2 == [t.virt EXCEPT ![i] = e]
           files2 == IF opens THEN t.files + 1 ELSE t.files
           u == [s |-> given, files |-> files2, virt |-> virt2]
<1>1. realize_one(t, i, room) = IF ~Ok(t.s) \/ v.realized THEN t ELSE u BY DEF realize_one
<1>2. /\ t = [s |-> t.s, virt |-> t.virt, files |-> t.files]
      /\ Sound(t.s)
      /\ t.virt \in Seq(Virt) /\ DOMAIN t.virt = DOMAIN virt_list
      /\ t.files = Cardinality(Open(t.virt))
  BY DEF Realizing
<1>3. i \in Nat \ {0} /\ DOMAIN virt_list \in SUBSET Nat BY DEF ShareType
<1>4. \A j \in DOMAIN virt_list :
        /\ t.virt[j].rows_in_array = virt_list[j].rows_in_array
        /\ t.virt[j].maxaccess = virt_list[j].maxaccess
        /\ t.virt[j].width = virt_list[j].width
        /\ j > i - 1 => t.virt[j] = virt_list[j]
        /\ Ok(t.s) => /\ t.virt[j].b_s_open => t.virt[j].realized
                      /\ j <= i - 1 /\ j \in Unrealized => t.virt[j].rows_in_mem = rows_in_mem(virt_list[j])
  BY DEF Realizing
<1>5. t.virt[i] = v BY <1>3, <1>4
<1>6. CASE ~Ok(t.s)
  <2>1. Realizing(t, i) BY <1>2, <1>3, <1>4, <1>6 DEF Realizing
  <2>. QED BY <1>1, <1>6, <2>1
<1>7. CASE Ok(t.s) /\ v.realized
  <2>1. i \notin Unrealized BY <1>7 DEF Unrealized
  <2>2. \A j \in DOMAIN virt_list : j <= i /\ j \in Unrealized => j <= i - 1 BY <1>3, <2>1
  <2>3. \A j \in DOMAIN virt_list : j > i => j > i - 1 BY <1>3
  <2>4. Realizing(t, i) BY <1>2, <1>4, <2>2, <2>3 DEF Realizing
  <2>. QED BY <1>1, <1>7, <2>4
<1>8. CASE Ok(t.s) /\ ~v.realized
  <2>1. i \in Unrealized BY <1>8 DEF Unrealized
  <2>2. v \in Virt /\ v.width \in Nat \ {0} /\ r \in Nat \ {0} BY <2>1, ArrayType, RowsGiven
  <2>3. v.b_s_open \in BOOLEAN /\ ~v.b_s_open
    <3>1. v.b_s_open \in BOOLEAN BY <2>2 DEF Virt
    <3>2. v.b_s_open => v.realized BY <1>4, <1>5, <1>8
    <3>. QED BY <1>8, <3>1, <3>2
  <2>4. Sound(filed)
    <3>1. Sound(Error(t.s, "TFILE_CREATE")) BY <1>2, ErrorSound
    <3>. QED BY <1>2, <3>1
  <2>5. Sound(given)
    <3>1. "IMAGE" \in PoolId BY DEF PoolId
    <3>. HIDE DEF filed, r, v
    <3>. QED BY <2>2, <2>4, <3>1, AllocRowsSound DEF r
  <2>6. opens \in BOOLEAN /\ Ok(given) \in BOOLEAN BY DEF Ok
  <2>. HIDE DEF given, filed, r, opens
  <2>7. e = [rows_in_array |-> v.rows_in_array, maxaccess |-> v.maxaccess, width |-> v.width,
             realized |-> Ok(given), rows_in_mem |-> r, b_s_open |-> opens]
    <3> DEFINE a == v.rows_in_array
               b == v.maxaccess
               c == v.width
               d == v.realized
               f == v.rows_in_mem
               g == v.b_s_open
    <3>1. v = [rows_in_array |-> a, maxaccess |-> b, width |-> c, realized |-> d, rows_in_mem |-> f, b_s_open |-> g]
      BY <2>2 DEF Virt
    <3>2. (g \/ opens) = opens BY <2>3, <2>6
    <3>. HIDE DEF a, b, c, d, f, g, v
    <3>3. v.b_s_open = g BY <3>1
    <3>4. PICK x : x = [v EXCEPT !.realized = Ok(given), !.rows_in_mem = r, !.b_s_open = @ \/ opens] OBVIOUS
    <3>5. x = [v EXCEPT !.realized = Ok(given), !.rows_in_mem = r, !.b_s_open = opens] BY <3>2, <3>3, <3>4
    <3>6. x = [rows_in_array |-> a, maxaccess |-> b, width |-> c, realized |-> Ok(given), rows_in_mem |-> r,
               b_s_open |-> opens]
      BY <3>1, <3>5
    <3>. QED BY <3>4, <3>6 DEF a, b, c
  <2>8. /\ virt2 \in Seq(Virt) /\ DOMAIN virt2 = DOMAIN t.virt
        /\ \A j \in DOMAIN t.virt \ {i} : virt2[j] = t.virt[j]
        /\ virt2[i].rows_in_array = v.rows_in_array /\ virt2[i].maxaccess = v.maxaccess
        /\ virt2[i].width = v.width /\ virt2[i].realized = Ok(given) /\ virt2[i].rows_in_mem = r
        /\ virt2[i].b_s_open = opens
    <3>1. PICK l : l = virt2 OBVIOUS
    <3>2. i \in DOMAIN t.virt /\ t.virt \in Seq(Virt) /\ r \in Nat BY <1>2, <2>2
    <3> DEFINE w == t.virt
    <3>3. l = [w EXCEPT ![i] = [rows_in_array |-> w[i].rows_in_array, maxaccess |-> w[i].maxaccess,
                                width |-> w[i].width, realized |-> Ok(given), rows_in_mem |-> r,
                                b_s_open |-> opens]]
      BY <1>5, <2>7, <3>1
    <3>. HIDE DEF virt2
    <3>4. /\ l \in Seq(Virt) /\ DOMAIN l = DOMAIN w
          /\ \A j \in DOMAIN w \ {i} : l[j] = w[j]
          /\ l[i].rows_in_array = w[i].rows_in_array /\ l[i].maxaccess = w[i].maxaccess
          /\ l[i].width = w[i].width /\ l[i].realized = Ok(given) /\ l[i].rows_in_mem = r
          /\ l[i].b_s_open = opens
      BY <2>6, <3>2, <3>3, OneRealized
    <3>. QED BY <1>5, <3>1, <3>4
  <2>. HIDE DEF virt2, e
  <2>9. files2 = Cardinality(Open(virt2))
    <3>1. ~t.virt[i].b_s_open BY <1>5, <2>3
    <3>2. \A j \in DOMAIN t.virt \ {i} : virt2[j].b_s_open = t.virt[j].b_s_open BY <2>8
    <3>3. Cardinality(Open(virt2)) = IF virt2[i].b_s_open THEN Cardinality(Open(t.virt)) + 1
                                     ELSE Cardinality(Open(t.virt))
      BY <1>2, <2>8, <3>1, <3>2, OpenMore
    <3>. QED BY <1>2, <2>8, <3>3
  <2>10. ASSUME NEW j \in DOMAIN virt_list
         PROVE  /\ virt2[j].rows_in_array = virt_list[j].rows_in_array
                /\ virt2[j].maxaccess = virt_list[j].maxaccess
                /\ virt2[j].width = virt_list[j].width
                /\ j > i => virt2[j] = virt_list[j]
                /\ Ok(given) => /\ virt2[j].b_s_open => virt2[j].realized
                                /\ j <= i /\ j \in Unrealized => virt2[j].rows_in_mem = rows_in_mem(virt_list[j])
    <3>1. CASE j = i BY <1>3, <2>8, <3>1 DEF r
    <3>2. CASE j # i
      <4>1. virt2[j] = t.virt[j] BY <1>2, <2>8, <3>2
      <4>2. j > i => j > i - 1 BY <1>3
      <4>3. j <= i => j <= i - 1 BY <1>3, <3>2
      <4>. QED BY <1>4, <1>8, <4>1, <4>2, <4>3
    <3>. QED BY <3>1, <3>2
  <2>11. u.s = given /\ u.virt = virt2 /\ u.files = files2 /\ u = [s |-> u.s, virt |-> u.virt, files |-> u.files]
    OBVIOUS
  <2>. HIDE DEF u, files2
  <2>12. Realizing(u, i) BY <1>2, <2>5, <2>8, <2>9, <2>10, <2>11 DEF Realizing
  <2>. QED BY <1>1, <1>8, <2>12
<1>. QED BY <1>6, <1>7, <1>8

-----------------------------------------------------------------------------
RealizedAt(f, i, room) ==
  IF i = 0 THEN [s |-> Now, virt |-> virt_list, files |-> files] ELSE realize_one(f[i-1], i, room)
RealizedUpto(room) ==
  CHOOSE f : f = [i \in 0 .. Len(virt_list) |-> RealizedAt(f, i, room)]

(* realize_virt_arrays, array by array.                                       *)
LEMMA RealizedExists ==
  ASSUME virt_list \in Seq(Virt), NEW room
  PROVE  LET c == RealizedUpto(room)
         IN \A k \in 0 .. Len(virt_list) : c[k] = RealizedAt(c, k, room)
<1> DEFINE count == Len(virt_list)
           At(f, k) == RealizedAt(f, k, room)
           P == {k \in 0 .. count : \E f : f = [j \in 0 .. k |-> At(f, j)]}
<1>0. count \in Nat OBVIOUS
<1>1. \A f, g, k : k = 0 \/ f[k-1] = g[k-1] => At(f, k) = At(g, k) BY DEF RealizedAt
<1>. HIDE DEF At, count
<1>2. 0 \in P
  <2> DEFINE f == [j \in 0 .. 0 |-> At(0, j)]
  <2>1. \A j \in 0 .. 0 : At(0, j) = At(f, j) BY <1>1
  <2>2. f = [j \in 0 .. 0 |-> f[j]] OBVIOUS
  <2>3. \A j \in 0 .. 0 : f[j] = At(f, j)
    <3>1. \A j \in 0 .. 0 : f[j] = At(0, j) OBVIOUS
    <3>. HIDE DEF f
    <3>. QED BY <2>1, <3>1
  <2>. HIDE DEF f
  <2>4. f = [j \in 0 .. 0 |-> At(f, j)] BY <2>2, <2>3
  <2>5. 0 \in 0 .. count BY <1>0
  <2>. QED BY <2>4, <2>5
<1>3. \A k \in 1 .. count : k - 1 \in P => k \in P
  <2>1. ASSUME NEW k \in 1 .. count, NEW f, f = [j \in 0 .. k-1 |-> At(f, j)]
        PROVE  \E g : g = [j \in 0 .. k |-> At(g, j)]
    <3> DEFINE g == [j \in 0 .. k |-> IF j = k THEN At(f, k) ELSE f[j]]
    <3>1. k - 1 \in 0 .. k-1 /\ k # 0 BY <1>0
    <3>2. \A j \in 0 .. k-1 : g[j] = f[j] BY <1>0
    <3>3. g[k] = At(f, k) BY <1>0
    <3>4. g = [j \in 0 .. k |-> g[j]] OBVIOUS
    <3>. HIDE DEF g
    <3>5. ASSUME NEW j \in 0 .. k PROVE g[j] = At(g, j)
      <4>1. CASE j = k
        <5>1. g[k-1] = f[k-1] BY <3>1, <3>2
        <5>2. At(f, k) = At(g, k) BY <1>1, <5>1
        <5>. QED BY <3>3, <4>1, <5>2
      <4>2. CASE j # k
        <5>1. j \in 0 .. k-1 /\ (j = 0 \/ j - 1 \in 0 .. k-1) BY <1>0, <4>2
        <5>2. f[j] = At(f, j) BY <2>1, <5>1, Zenon
        <5>3. j = 0 \/ f[j-1] = g[j-1] BY <3>2, <5>1
        <5>4. At(f, j) = At(g, j) BY <1>1, <5>3
        <5>. QED BY <3>2, <5>1, <5>2, <5>4
      <4>. QED BY <4>1, <4>2
    <3>6. g = [j \in 0 .. k |-> At(g, j)] BY <3>4, <3>5
    <3>. QED BY <3>6
  <2>2. \A k \in 1 .. count : k \in 0 .. count BY <1>0
  <2>. QED BY <2>1, <2>2
<1>4. count \in P
  <2>1. count \in 0 .. count BY <1>0
  <2>. HIDE DEF P
  <2>. QED BY <1>0, <1>2, <1>3, <2>1, Induction
<1>5. \E f : f = [k \in 0 .. count |-> At(f, k)] BY <1>4
<1> DEFINE c == RealizedUpto(room)
<1>6. c = [k \in 0 .. count |-> At(c, k)] BY <1>5 DEF RealizedUpto, At, count
<1>. HIDE DEF c
<1>7. \A k \in 0 .. count : c[k] = At(c, k) BY <1>6, Zenon
<1>. QED BY <1>7 DEF At, c, count

(* What realize_virt_arrays has done when it returns.                          *)
LEMMA AllRealized ==
  ASSUME ShareType, Unrealized # {}, Sound(Now), files = Cardinality(Open(virt_list)),
         \A i \in DOMAIN virt_list : virt_list[i].b_s_open => virt_list[i].realized, NEW room
  PROVE  Realizing(RealizedUpto(room)[Len(virt_list)], Len(virt_list))
<1> DEFINE n == Len(virt_list)
           c == RealizedUpto(room)
           P == {k \in 0 .. n : Realizing(c[k], k)}
           start == [s |-> Now, virt |-> virt_list, files |-> files]
<1>1. n \in Nat /\ DOMAIN virt_list = 1 .. n /\ virt_list \in Seq(Virt) BY DEF ShareType
<1>2. \A k \in 0 .. n : c[k] = RealizedAt(c, k, room) BY <1>1, RealizedExists
<1>. HIDE DEF c
<1>3. c[0] = start /\ \A k \in 1 .. n : c[k] = realize_one(c[k-1], k, room)
  <2>1. 0 \in 0 .. n /\ \A k \in 1 .. n : k \in 0 .. n /\ k # 0 BY <1>1
  <2>. QED BY <1>2, <2>1 DEF RealizedAt
<1>4. Realizing(start, 0)
  <2>1. start.s = Now /\ start.virt = virt_list /\ start.files = files
        /\ start = [s |-> start.s, virt |-> start.virt, files |-> start.files]
    OBVIOUS
  <2>2. \A j \in DOMAIN virt_list : ~(j <= 0) BY <1>1
  <2>. HIDE DEF start
  <2>. QED BY <1>1, <2>1, <2>2 DEF Realizing
<1>. HIDE DEF start
<1>5. 0 \in P BY <1>1, <1>3, <1>4
<1>6. \A k \in 1 .. n : k - 1 \in P => k \in P
  <2>1. ASSUME NEW k \in 1 .. n, Realizing(c[k-1], k-1) PROVE Realizing(c[k], k)
    <3>1. Realizing(realize_one(c[k-1], k, room), k) BY <1>1, <2>1, RealizeOne
    <3>. QED BY <1>3, <3>1
  <2>. QED BY <1>1, <2>1
<1>7. n \in P
  <2>1. n \in 0 .. n BY <1>1
  <2>. HIDE DEF P, n
  <2>. QED BY <1>1, <1>5, <1>6, <2>1, Induction
<1>. QED BY <1>7 DEF c

-----------------------------------------------------------------------------
(* What free_pool gives back is what malloc gave.                             *)
Gone(pools) == UNION {PoolBlocks(p) : p \in pools}
Numbered(gone) == {b.block : b \in gone}

(* The blocks of some pools are those held there.                             *)
LEMMA GoneIs ==
  ASSUME small_list \in Lists, large_list \in Lists, NEW pools \in SUBSET PoolId, NEW held,
         held = Held(small_list, large_list)
  PROVE  /\ \A b \in Gone(pools) : \E q \in DOMAIN held : q[2] \in pools /\ held[q] = b
         /\ \A q \in DOMAIN held : q[2] \in pools => held[q] \in Gone(pools)
         /\ \A q \in DOMAIN held : q[2] \in PoolId
<1>1. ASSUME NEW p \in pools, NEW b \in PoolBlocks(p) PROVE \E q \in DOMAIN held : q[2] \in pools /\ held[q] = b
  <2>1. p \in PoolId /\ small_list[p] \in Seq(Block) /\ large_list[p] \in Seq(Block) BY DEF Lists
  <2>2. CASE b \in ToSet(small_list[p])
    <3>1. PICK i \in DOMAIN small_list[p] : small_list[p][i] = b BY <2>2 DEF ToSet
    <3>2. i \in Nat BY <2>1, <3>1
    <3>3. <<"small", p, i>> \in Slots(small_list, large_list) BY <2>1, <3>1, <3>2, SlotsAre
    <3>4. held[<<"small", p, i>>] = b BY <3>1, <3>3 DEF Held, ListOf
    <3>5. <<"small", p, i>> \in DOMAIN held BY <3>3, SlotsAre
    <3>6. <<"small", p, i>>[2] = p OBVIOUS
    <3>. QED BY <3>4, <3>5, <3>6
  <2>3. CASE b \in ToSet(large_list[p])
    <3>1. PICK i \in DOMAIN large_list[p] : large_list[p][i] = b BY <2>3 DEF ToSet
    <3>2. i \in Nat BY <2>1, <3>1
    <3>3. <<"large", p, i>> \in Slots(small_list, large_list) BY <2>1, <3>1, <3>2, SlotsAre
    <3>4. held[<<"large", p, i>>] = b BY <3>1, <3>3 DEF Held, ListOf
    <3>5. <<"large", p, i>> \in DOMAIN held BY <3>3, SlotsAre
    <3>6. <<"large", p, i>>[2] = p OBVIOUS
    <3>. QED BY <3>4, <3>5, <3>6
  <2>. QED BY <1>1, <2>2, <2>3 DEF PoolBlocks
<1>2. ASSUME NEW q \in DOMAIN held PROVE q[2] \in PoolId /\ (q[2] \in pools => held[q] \in Gone(pools))
  <2>1. q \in Slots(small_list, large_list) BY SlotsAre
  <2>2. /\ q = <<q[1], q[2], q[3]>> /\ q[1] \in {"small", "large"} /\ q[2] \in PoolId
        /\ q[3] \in DOMAIN ListOf(small_list, large_list, q)
        /\ held[q] = ListOf(small_list, large_list, q)[q[3]]
    BY <2>1, SlotsAre
  <2>3. held[q] \in PoolBlocks(q[2]) BY <2>2 DEF PoolBlocks, ListOf, ToSet
  <2>. QED BY <2>2, <2>3 DEF Gone
<1>. QED BY <1>1, <1>2 DEF Gone

(* What their headers say of them is what malloc gave.                        *)
LEMMA FreedSum ==
  ASSUME small_list \in Lists, large_list \in Lists, NEW pools \in SUBSET PoolId,
         Kept(heap, Held(small_list, large_list), objects),
         NEW rest, rest = [n \in DOMAIN heap \ Numbered(Gone(pools)) |-> heap[n]]
  PROVE  /\ IsFiniteSet(DOMAIN rest) /\ 0 \in DOMAIN rest
         /\ SumFunction(heap) \in Int
         /\ SumFunction([b \in Gone(pools) |-> space_freed(b)]) \in Int
         /\ SumFunction(rest) \in Int
         /\ SumFunction(heap) = SumFunction([b \in Gone(pools) |-> space_freed(b)]) + SumFunction(rest)
<1> DEFINE held == Held(small_list, large_list)
           gone == Gone(pools)
           j == [b \in gone |-> b.block]
           g == [b \in gone |-> space_freed(b)]
<1>1. Numbers(heap) /\ IsFiniteSet(DOMAIN heap) /\ 0 \in DOMAIN heap BY DEF Kept, HeapType, Numbers
<1>2. \A b \in gone : \E q \in DOMAIN held : q[2] \in pools /\ held[q] = b BY GoneIs
<1>. HIDE DEF held, gone
<1>3. \A b \in gone : b \in Block /\ b.block \in DOMAIN heap /\ b.block # 0
                      /\ heap[b.block] = Header + b.used + b.left
  BY <1>2 DEF Kept, HeldOnce, held
<1>4. \A b, c \in gone : b.block = c.block => b = c
  <2>1. ASSUME NEW b \in gone, NEW c \in gone, b.block = c.block PROVE b = c
    <3>1. PICK q \in DOMAIN held : held[q] = b BY <1>2
    <3>2. PICK r \in DOMAIN held : held[r] = c BY <1>2
    <3>3. q = r BY <2>1, <3>1, <3>2 DEF Kept, HeldOnce, held
    <3>. QED BY <3>1, <3>2, <3>3
  <2>. QED BY <2>1
<1>5. j \in [gone -> DOMAIN heap] /\ \A b, c \in gone : j[b] = j[c] => b = c BY <1>3, <1>4
<1>6. IsFiniteSet(gone)
  <2>1. j \in Injection(gone, DOMAIN heap) BY <1>5 DEF Injection, IsInjective
  <2>. HIDE DEF j
  <2>. QED BY <1>1, <2>1, FS_Injection
<1>7. \A b \in gone : g[b] = heap[j[b]]
  <2>1. ASSUME NEW b \in gone PROVE space_freed(b) = heap[b.block]
    <3>1. b.used \in Nat /\ b.left \in Nat BY <1>3 DEF Block
    <3>2. space_freed(b) = Header + b.used + b.left BY <3>1, AlignAssumption DEF space_freed
    <3>. QED BY <1>3, <3>2
  <2>. QED BY <2>1
<1>8. DOMAIN g = gone OBVIOUS
<1>9. rest = [n \in DOMAIN heap \ {j[b] : b \in gone} |-> heap[n]]
  <2>1. {j[b] : b \in gone} = Numbered(gone) BY DEF Numbered
  <2>. HIDE DEF j
  <2>. QED BY <2>1 DEF gone
<1>10. 0 \in DOMAIN rest BY <1>1, <1>3 DEF Numbered, gone
<1>. HIDE DEF j, g
<1>11. Numbers(rest) /\ Numbers(g) /\ SumFunction(heap) = SumFunction(g) + SumFunction(rest)
  <2>. QED BY <1>1, <1>5, <1>6, <1>7, <1>8, <1>9, SumGone
<1>12. SumFunction(heap) \in Int /\ SumFunction(g) \in Int /\ SumFunction(rest) \in Int BY <1>1, <1>11, SumType
<1>. QED BY <1>10, <1>11, <1>12 DEF Numbers, g, gone

(* What is left after some pools are freed.                                   *)
Emptied(lists, pools) == [p \in PoolId |-> IF p \in pools THEN <<>> ELSE lists[p]]

(* The other pools hold what they held.                                       *)
LEMMA EmptiedHeld ==
  ASSUME NEW small \in Lists, NEW large \in Lists, NEW pools \in SUBSET PoolId
  PROVE  /\ Emptied(small, pools) \in Lists /\ Emptied(large, pools) \in Lists
         /\ LET held == Held(small, large)
                held2 == Held(Emptied(small, pools), Emptied(large, pools))
            IN /\ \A q \in DOMAIN held2 : q \in DOMAIN held /\ q[2] \notin pools /\ held2[q] = held[q]
               /\ \A q \in DOMAIN held : q[2] \notin pools => q \in DOMAIN held2
<1> DEFINE small2 == Emptied(small, pools)
           large2 == Emptied(large, pools)
<1>1. small2 \in Lists /\ large2 \in Lists
  <2>1. \A p \in PoolId : small[p] \in Seq(Block) /\ large[p] \in Seq(Block) /\ <<>> \in Seq(Block) BY DEF Lists
  <2>. QED BY <2>1 DEF Emptied, Lists
<1>2. \A p \in PoolId : /\ p \in pools => small2[p] = <<>> /\ large2[p] = <<>>
                        /\ p \notin pools => small2[p] = small[p] /\ large2[p] = large[p]
  BY DEF Emptied
<1>. HIDE DEF small2, large2
<1>3. ASSUME NEW q \in Slots(small2, large2)
      PROVE  q \in Slots(small, large) /\ q[2] \notin pools /\ ListOf(small2, large2, q) = ListOf(small, large, q)
  <2>1. q \in {"small", "large"} \X PoolId \X Nat /\ q[3] \in DOMAIN ListOf(small2, large2, q) BY DEF Slots
  <2>2. q[2] \in PoolId BY <2>1
  <2>3. q[2] \notin pools
    <3>1. SUFFICES ASSUME q[2] \in pools PROVE FALSE OBVIOUS
    <3>2. small2[q[2]] = <<>> /\ large2[q[2]] = <<>> BY <1>2, <2>2, <3>1
    <3>3. ListOf(small2, large2, q) = <<>> BY <3>2 DEF ListOf
    <3>4. DOMAIN ListOf(small2, large2, q) = {} BY <3>3
    <3>. QED BY <2>1, <3>4
  <2>4. ListOf(small2, large2, q) = ListOf(small, large, q) BY <1>2, <2>2, <2>3 DEF ListOf
  <2>. QED BY <2>1, <2>3, <2>4 DEF Slots
<1>4. ASSUME NEW q \in Slots(small, large), q[2] \notin pools PROVE q \in Slots(small2, large2)
  <2>1. q \in {"small", "large"} \X PoolId \X Nat /\ q[3] \in DOMAIN ListOf(small, large, q) BY DEF Slots
  <2>2. q[2] \in PoolId BY <2>1
  <2>3. ListOf(small2, large2, q) = ListOf(small, large, q) BY <1>2, <1>4, <2>2 DEF ListOf
  <2>. QED BY <2>1, <2>3 DEF Slots
<1>. QED BY <1>1, <1>3, <1>4 DEF Held, small2, large2

Remain(h, held, pools, h2, held2) ==
  /\ IsFiniteSet(DOMAIN h2) /\ 0 \in DOMAIN h2
  /\ \A n \in DOMAIN h2 : n \in DOMAIN h /\ h2[n] = h[n]
  /\ \A n \in DOMAIN h : n \in DOMAIN h2 <=> \A q \in DOMAIN held : held[q].block = n => q[2] \notin pools
  /\ \A q \in DOMAIN held2 : q \in DOMAIN held /\ q[2] \notin pools /\ held2[q] = held[q]
  /\ \A q \in DOMAIN held : q[2] \notin pools => q \in DOMAIN held2
ObjectsLeft(objs, pools) == {o \in objs : o.pool \notin pools}

(* What is left is sound.                                                     *)
LEMMA KeptFreed ==
  ASSUME NEW h, NEW held, NEW objs, Kept(h, held, objs), NEW pools, NEW h2, NEW held2,
         Remain(h, held, pools, h2, held2)
  PROVE  Kept(h2, held2, ObjectsLeft(objs, pools))
<1>0. /\ IsFiniteSet(DOMAIN h2) /\ 0 \in DOMAIN h2
      /\ \A n \in DOMAIN h2 : n \in DOMAIN h /\ h2[n] = h[n]
      /\ \A n \in DOMAIN h : n \in DOMAIN h2 <=> \A q \in DOMAIN held : held[q].block = n => q[2] \notin pools
      /\ \A q \in DOMAIN held2 : q \in DOMAIN held /\ q[2] \notin pools /\ held2[q] = held[q]
      /\ \A q \in DOMAIN held : q[2] \notin pools => q \in DOMAIN held2
  BY DEF Remain
<1>1. HeapType(h2) BY <1>0 DEF Kept, HeapType
<1>2. HeldOnce(h2, held2)
  <2>1. ASSUME NEW q \in DOMAIN held2
        PROVE  /\ held2[q] \in Block /\ held2[q].block \in DOMAIN h2 /\ held2[q].block # 0
               /\ h2[held2[q].block] = Header + held2[q].used + held2[q].left
               /\ held2[q].used % Align = 0
    <3>1. q \in DOMAIN held /\ q[2] \notin pools /\ held2[q] = held[q] BY <1>0
    <3>2. /\ held[q] \in Block /\ held[q].block \in DOMAIN h /\ held[q].block # 0
          /\ h[held[q].block] = Header + held[q].used + held[q].left
          /\ held[q].used % Align = 0
          /\ \A r \in DOMAIN held : held[r].block = held[q].block => r = q
      BY <3>1 DEF Kept, HeldOnce
    <3>3. held[q].block \in DOMAIN h2 /\ h2[held[q].block] = h[held[q].block] BY <1>0, <3>1, <3>2
    <3>. QED BY <3>1, <3>2, <3>3
  <2>2. \A q, r \in DOMAIN held2 : held2[q].block = held2[r].block => q = r BY <1>0 DEF Kept, HeldOnce
  <2>3. ASSUME NEW n \in DOMAIN h2, n # 0 PROVE \E q \in DOMAIN held2 : held2[q].block = n
    <3>1. PICK q \in DOMAIN held : held[q].block = n BY <1>0, <2>3 DEF Kept, HeldOnce
    <3>2. q[2] \notin pools BY <1>0, <2>3, <3>1
    <3>3. q \in DOMAIN held2 /\ held2[q] = held[q] BY <1>0, <3>2
    <3>. QED BY <3>1, <3>3
  <2>. QED BY <2>1, <2>2, <2>3 DEF HeldOnce
<1>3. ASSUME NEW o \in objs, o.pool \notin pools PROVE Within(o, held2)
  <2>1. PICK q \in DOMAIN held : q[2] = o.pool /\ held[q].block = o.block /\ o.at + o.size <= Header + held[q].used
    BY DEF Kept, ObjectsApart, Within
  <2>2. q \in DOMAIN held2 /\ held2[q] = held[q] BY <1>0, <1>3, <2>1
  <2>. QED BY <2>1, <2>2 DEF Within
<1>4. ObjectsApart(ObjectsLeft(objs, pools), held2) BY <1>3 DEF Kept, ObjectsApart, ObjectsLeft
<1>. QED BY <1>1, <1>2, <1>4 DEF Kept

-----------------------------------------------------------------------------
(* A sum of one term.                                                         *)
LEMMA SumSingle ==
  ASSUME NEW f, Numbers(f), NEW x, DOMAIN f = {x}
  PROVE  SumFunction(f) = f[x]
<1>1. Step(f, DOMAIN f, x) BY SumStep
<1>2. SumOf(f)[{}] = 0 BY SumOrder DEF Numbers
<1>3. DOMAIN f \ {x} = {} /\ f[x] \in Int BY DEF Numbers
<1>. QED BY <1>1, <1>2, <1>3, SumUnfolds DEF Step

(* What an operation made becomes the state.                                  *)
LEMMA BecomesSound ==
  ASSUME NEW s, Sound(s), Becomes(s)
  PROVE  Sound(Now)' /\ error_exit' \in BOOLEAN /\ (error_exit' <=> ~Ok(s))
<1>1. PICK t : t = Result(heap', small_list', large_list', total_space_allocated', objects', "none") OBVIOUS
<1>2. Sound(t)
  <2>1. Sound(Result(s.heap, s.small, s.large, s.total, s.objects, "none")) BY ResultOf, SoundIs
  <2>2. t = Result(s.heap, s.small, s.large, s.total, s.objects, "none") BY <1>1 DEF Becomes
  <2>. QED BY <2>1, <2>2
<1>3. Now' = t BY <1>1 DEF Now, Result
<1>4. Sound(Now)' BY <1>2, <1>3
<1>5. Ok(s) \in BOOLEAN BY DEF Ok
<1>. QED BY <1>4, <1>5 DEF Becomes

(* The list of the virtual arrays gets one more, which has no file.           *)
LEMMA OpenRequested ==
  ASSUME NEW virt \in Seq(Virt), NEW v \in Virt, ~v.b_s_open
  PROVE  /\ <<v>> \o virt \in Seq(Virt)
         /\ Cardinality(Open(<<v>> \o virt)) = Cardinality(Open(virt))
         /\ \A i \in DOMAIN (<<v>> \o virt) :
              (<<v>> \o virt)[i] = v \/ \E j \in DOMAIN virt : (<<v>> \o virt)[i] = virt[j]
<1>1. PICK w : w = <<v>> \o virt OBVIOUS
<1>2. /\ w \in Seq(Virt) /\ Len(virt) \in Nat /\ Len(w) = Len(virt) + 1
      /\ DOMAIN virt = 1 .. Len(virt) /\ DOMAIN w = 1 .. Len(w)
      /\ w[1] = v /\ \A i \in 2 .. Len(w) : w[i] = virt[i - 1]
  BY <1>1
<1>3. IsFiniteSet(Open(virt))
  <2>1. IsFiniteSet(DOMAIN virt) BY <1>2, FS_Interval
  <2>2. Open(virt) \in SUBSET DOMAIN virt BY DEF Open
  <2>. QED BY <2>1, <2>2, FS_Subset
<1>4. ASSUME NEW i \in DOMAIN w PROVE i = 1 \/ (i - 1 \in DOMAIN virt /\ w[i] = virt[i - 1] /\ i \in 2 .. Len(w)) BY <1>2
<1>5. ExistsBijection(Open(virt), Open(w))
  <2> DEFINE m == [i \in Open(virt) |-> i + 1]
  <2>1. ASSUME NEW i \in Open(virt) PROVE i \in Nat /\ i + 1 \in Open(w)
    <3>1. i \in 1 .. Len(virt) /\ virt[i].b_s_open BY <1>2 DEF Open
    <3>2. i + 1 \in 2 .. Len(w) /\ i + 1 \in DOMAIN w /\ (i + 1) - 1 = i BY <1>2, <3>1
    <3>3. w[i + 1] = virt[i] BY <1>2, <3>2
    <3>. QED BY <3>1, <3>2, <3>3 DEF Open
  <2>2. ASSUME NEW k \in Open(w) PROVE \E i \in Open(virt) : i + 1 = k
    <3>1. k \in DOMAIN w /\ w[k].b_s_open BY DEF Open
    <3>2. k # 1 BY <1>2, <3>1
    <3>3. k - 1 \in DOMAIN virt /\ virt[k - 1].b_s_open /\ k \in 2 .. Len(w) BY <1>4, <3>1, <3>2
    <3>4. k - 1 \in Open(virt) /\ (k - 1) + 1 = k BY <1>2, <3>3 DEF Open
    <3>. QED BY <3>4
  <2>3. m \in [Open(virt) -> Open(w)] BY <2>1
  <2>4. \A i, j \in Open(virt) : m[i] = m[j] => i = j BY <2>1
  <2>5. \A k \in Open(w) : \E i \in Open(virt) : m[i] = k BY <2>2
  <2>. HIDE DEF m
  <2>6. m \in Bijection(Open(virt), Open(w)) BY <2>3, <2>4, <2>5 DEF Bijection, Injection, Surjection, IsInjective
  <2>. QED BY <2>6 DEF ExistsBijection
<1>6. Cardinality(Open(w)) = Cardinality(Open(virt)) BY <1>3, <1>5, FS_Bijection
<1>7. \A i \in DOMAIN w : w[i] = v \/ \E j \in DOMAIN virt : w[i] = virt[j] BY <1>2, <1>4
<1>. QED BY <1>1, <1>2, <1>6, <1>7

-----------------------------------------------------------------------------
(* Freeing pools leaves the others as they were, and the count right.         *)
LEMMA FreedSound ==
  ASSUME Sound(Now), NEW pools \in SUBSET PoolId, freed(pools)
  PROVE  Sound(Now)'
<1>1. /\ small_list \in Lists /\ large_list \in Lists /\ total_space_allocated = SumFunction(heap)
      /\ Kept(heap, Held(small_list, large_list), objects)
  BY ResultOf DEF Now
<1> DEFINE held == Held(small_list, large_list)
           gone == Gone(pools)
           rest == [n \in DOMAIN heap \ Numbered(gone) |-> heap[n]]
           small2 == Emptied(small_list, pools)
           large2 == Emptied(large_list, pools)
           left == {o \in objects : o.pool \notin pools}
<1>2. /\ heap' = rest /\ small_list' = small2 /\ large_list' = large2 /\ objects' = left
      /\ total_space_allocated' = total_space_allocated - SumFunction([b \in gone |-> space_freed(b)])
  BY DEF freed, Gone, Numbered, Emptied
<1>3. PICK h2 : h2 = rest OBVIOUS
<1>4. /\ IsFiniteSet(DOMAIN h2) /\ 0 \in DOMAIN h2 /\ SumFunction(heap) \in Int
      /\ SumFunction([b \in gone |-> space_freed(b)]) \in Int /\ SumFunction(h2) \in Int
      /\ SumFunction(heap) = SumFunction([b \in gone |-> space_freed(b)]) + SumFunction(h2)
  BY <1>1, <1>3, FreedSum
<1>5. DOMAIN h2 = DOMAIN heap \ Numbered(gone) /\ \A n \in DOMAIN h2 : h2[n] = heap[n] BY <1>3
<1>6. /\ \A b \in gone : \E q \in DOMAIN held : q[2] \in pools /\ held[q] = b
      /\ \A q \in DOMAIN held : q[2] \in pools => held[q] \in gone
  BY <1>1, GoneIs
<1>7. /\ small2 \in Lists /\ large2 \in Lists
      /\ \A q \in DOMAIN Held(small2, large2) :
           q \in DOMAIN held /\ q[2] \notin pools /\ Held(small2, large2)[q] = held[q]
      /\ \A q \in DOMAIN held : q[2] \notin pools => q \in DOMAIN Held(small2, large2)
  BY <1>1, EmptiedHeld
<1>. HIDE DEF held, gone, small2, large2
<1>8. ASSUME NEW n \in DOMAIN heap
      PROVE  n \in Numbered(gone) <=> \E q \in DOMAIN held : held[q].block = n /\ q[2] \in pools
  <2>1. ASSUME n \in Numbered(gone) PROVE \E q \in DOMAIN held : held[q].block = n /\ q[2] \in pools
    <3>1. PICK b \in gone : b.block = n BY <2>1 DEF Numbered
    <3>. QED BY <1>6, <3>1
  <2>2. ASSUME NEW q \in DOMAIN held, held[q].block = n, q[2] \in pools PROVE n \in Numbered(gone)
    <3>1. held[q] \in gone BY <1>6, <2>2
    <3>. QED BY <2>2, <3>1 DEF Numbered
  <2>. QED BY <2>1, <2>2
<1>9. Remain(heap, held, pools, h2, Held(small2, large2)) BY <1>4, <1>5, <1>7, <1>8 DEF Remain
<1>10. Kept(h2, Held(small2, large2), left) BY <1>1, <1>9, KeptFreed DEF held, ObjectsLeft
<1>11. PICK t : t = Result(h2, small2, large2, total_space_allocated', left, "none") OBVIOUS
<1>12. total_space_allocated' = SumFunction(h2) BY <1>1, <1>2, <1>4
<1>13. Sound(t) BY <1>7, <1>10, <1>11, <1>12, SoundIs
<1>14. Now' = t BY <1>2, <1>3, <1>11 DEF Now, Result
<1>. QED BY <1>13, <1>14

(* When every pool is freed, the manager alone is left.                       *)
LEMMA AllFreed ==
  ASSUME Sound(Now)
  PROVE  /\ DOMAIN heap \ (Numbered(Gone(PoolId)) \cup {0}) = {}
         /\ total_space_allocated - SumFunction([b \in Gone(PoolId) |-> space_freed(b)]) - Manager = 0
<1>1. /\ small_list \in Lists /\ large_list \in Lists /\ total_space_allocated = SumFunction(heap)
      /\ Kept(heap, Held(small_list, large_list), objects)
  BY ResultOf DEF Now
<1> DEFINE held == Held(small_list, large_list)
           gone == Gone(PoolId)
<1>2. \A q \in DOMAIN held : held[q] \in gone
  <2>1. \A q \in DOMAIN held : q[2] \in PoolId /\ (q[2] \in PoolId => held[q] \in gone) BY <1>1, GoneIs
  <2>. QED BY <2>1
<1>. HIDE DEF held, gone
<1>3. ASSUME NEW n \in DOMAIN heap, n # 0 PROVE n \in Numbered(gone)
  <2>1. PICK q \in DOMAIN held : held[q].block = n BY <1>1, <1>3 DEF Kept, HeldOnce, held
  <2>. QED BY <1>2, <2>1 DEF Numbered
<1>4. PICK h2 : h2 = [n \in DOMAIN heap \ Numbered(gone) |-> heap[n]] OBVIOUS
<1>5. /\ IsFiniteSet(DOMAIN h2) /\ 0 \in DOMAIN h2 /\ SumFunction(heap) \in Int
      /\ SumFunction([b \in gone |-> space_freed(b)]) \in Int /\ SumFunction(h2) \in Int
      /\ SumFunction(heap) = SumFunction([b \in gone |-> space_freed(b)]) + SumFunction(h2)
  BY <1>1, <1>4, FreedSum DEF gone
<1>6. DOMAIN h2 = {0} /\ h2[0] = Manager /\ Manager \in Int
  <2>1. heap[0] = Manager BY <1>1 DEF Kept, HeapType
  <2>2. DOMAIN h2 = DOMAIN heap \ Numbered(gone) /\ \A n \in DOMAIN h2 : h2[n] = heap[n] BY <1>4
  <2>. QED BY <1>3, <1>5, <2>1, <2>2, RequestAssumption
<1>7. SumFunction(h2) = Manager
  <2>1. Numbers(h2) BY <1>5, <1>6 DEF Numbers
  <2>. QED BY <1>6, <2>1, SumSingle
<1>8. DOMAIN heap \ (Numbered(gone) \cup {0}) = {} BY <1>3
<1>9. total_space_allocated - SumFunction([b \in gone |-> space_freed(b)]) - Manager = 0
  BY <1>1, <1>5, <1>6, <1>7
<1>. QED BY <1>8, <1>9 DEF gone

-----------------------------------------------------------------------------
(* PoolsInv holds in every state.                                             *)
LEMMA PoolsInvInit == PoolsInit => PoolsInv
<1>. SUFFICES ASSUME PoolsInit PROVE PoolsInv OBVIOUS
<1>1. /\ heap = [b \in {0} |-> Manager] /\ virt_list = <<>> /\ total_space_allocated = Manager
      /\ small_list = [p \in PoolId |-> <<>>] /\ large_list = [p \in PoolId |-> <<>>]
      /\ objects = {} /\ files = 0 /\ error_exit = FALSE /\ alive = TRUE
      /\ max_memory_to_use \in Int /\ Manager \in Nat
  BY RequestAssumption DEF PoolsInit
<1>2. Open(<<>>) = {} /\ <<>> \in Seq(Virt) /\ DOMAIN virt_list = {} BY <1>1 DEF Open
<1>3. small_list \in Lists /\ large_list \in Lists
  <2>1. <<>> \in Seq(Block) OBVIOUS
  <2>. QED BY <1>1, <2>1 DEF Lists
<1> DEFINE held == Held(small_list, large_list)
<1>4. DOMAIN held = {}
  <2>1. \A q \in Slots(small_list, large_list) : q[3] \in DOMAIN ListOf(small_list, large_list, q) /\ q[2] \in PoolId
    BY <1>3, SlotsAre
  <2>2. \A p \in PoolId : small_list[p] = <<>> /\ large_list[p] = <<>> BY <1>1
  <2>3. ASSUME NEW q \in Slots(small_list, large_list) PROVE FALSE
    <3>1. ListOf(small_list, large_list, q) = <<>> BY <2>1, <2>2 DEF ListOf
    <3>2. DOMAIN ListOf(small_list, large_list, q) = {} BY <3>1
    <3>. QED BY <2>1, <3>2
  <2>4. DOMAIN Held(small_list, large_list) = Slots(small_list, large_list) BY <1>3, SlotsAre
  <2>. QED BY <2>3, <2>4
<1>5. DOMAIN heap = {0} /\ heap[0] = Manager BY <1>1
<1>6. HeapType(heap)
  <2>1. IsFiniteSet({0}) BY FS_Singleton
  <2>. QED BY <1>1, <1>5, <2>1 DEF HeapType
<1>7. HeldOnce(heap, held) BY <1>4, <1>5 DEF HeldOnce
<1>8. ObjectsApart(objects, held) BY <1>1 DEF ObjectsApart
<1>9. total_space_allocated = SumFunction(heap)
  <2>1. Numbers(heap) BY <1>6 DEF HeapType, Numbers
  <2>. QED BY <1>1, <1>5, <2>1, SumSingle
<1>10. Sound(Now) BY <1>3, <1>6, <1>7, <1>8, <1>9, SoundIs DEF Now, Result, Kept
<1>11. files = Cardinality(Open(virt_list)) BY <1>1, <1>2, FS_EmptySet
<1>. QED BY <1>1, <1>2, <1>10, <1>11 DEF PoolsInv

(* The parts of PoolsInv an allocation leaves alone.                          *)
LEMMA AllocationKeeps ==
  ASSUME PoolsInv, Working, NEW s, Sound(s), Becomes(s), UNCHANGED <<virt_list, max_memory_to_use, files, alive>>
  PROVE  PoolsInv'
<1>1. Sound(Now)' /\ error_exit' \in BOOLEAN BY BecomesSound
<1>2. Open(virt_list') = Open(virt_list) OBVIOUS
<1>3. Cardinality(Open(virt_list))' = Cardinality(Open(virt_list)) BY DEF Open
<1>. QED BY <1>1, <1>3 DEF PoolsInv, Working

(* Files are finitely many.                                                   *)
LEMMA OpenFinite ==
  ASSUME NEW virt \in Seq(Virt)
  PROVE  Cardinality(Open(virt)) - Cardinality(Open(virt)) = 0
<1>1. Len(virt) \in Nat /\ DOMAIN virt = 1 .. Len(virt) OBVIOUS
<1>2. IsFiniteSet(DOMAIN virt) BY <1>1, FS_Interval
<1>3. Open(virt) \in SUBSET DOMAIN virt BY DEF Open
<1>4. Cardinality(Open(virt)) \in Nat BY <1>2, <1>3, FS_Subset, FS_CardinalityType
<1>. QED BY <1>4

(* What realize_virt_arrays does, by the array.                               *)
LEMMA SharesRealized ==
  ASSUME PoolsInv, realize_virt_arrays
  PROVE  /\ ShareType /\ Unrealized # {}
         /\ \E t : /\ Realizing(t, Len(virt_list)) /\ Becomes(t.s)
                  /\ virt_list' = t.virt /\ files' = t.files
<1>1. PICK room \in Rooms :
        LET end == RealizedUpto(room)[Len(virt_list)]
        IN Becomes(end.s) /\ virt_list' = end.virt /\ files' = end.files
  BY DEF realize_virt_arrays, RealizedUpto, RealizedAt
<1>2. /\ Unrealized # {} /\ Sound(Now) /\ virt_list \in Seq(Virt) /\ max_memory_to_use \in Int
      /\ files = Cardinality(Open(virt_list))
      /\ \A i \in DOMAIN virt_list : virt_list[i].b_s_open => virt_list[i].realized
  BY DEF realize_virt_arrays, PoolsInv, Working
<1>3. ShareType
  <2>1. total_space_allocated = SumFunction(heap) /\ Kept(heap, Held(small_list, large_list), objects)
    BY <1>2, ResultOf DEF Now
  <2>2. Numbers(heap) BY <2>1 DEF Kept, HeapType, Numbers
  <2>3. SumFunction(heap) \in Int BY <2>2, SumType
  <2>. QED BY <1>2, <2>1, <2>3 DEF ShareType
<1>4. PICK t : t = RealizedUpto(room)[Len(virt_list)] OBVIOUS
<1>5. Realizing(t, Len(virt_list)) BY <1>2, <1>3, <1>4, AllRealized
<1>6. Becomes(t.s) /\ virt_list' = t.virt /\ files' = t.files BY <1>1, <1>4
<1>. QED BY <1>2, <1>3, <1>5, <1>6

LEMMA PoolsInvNext == PoolsInv /\ [PoolsNext]_poolvars => PoolsInv'
<1>. SUFFICES ASSUME PoolsInv, [PoolsNext]_poolvars PROVE PoolsInv' OBVIOUS
<1>1. ASSUME AllocSmall PROVE PoolsInv'
  <2>1. PICK p \in PoolId, size \in Sizes, room \in Rooms : Becomes(alloc_small(Now, p, size, room))
    BY <1>1 DEF AllocSmall
  <2>2. Working /\ UNCHANGED <<virt_list, max_memory_to_use, files, alive>> BY <1>1 DEF AllocSmall
  <2>3. size \in Nat BY RequestAssumption
  <2>4. Sound(Now) BY <2>2 DEF PoolsInv, Working
  <2>5. Sound(alloc_small(Now, p, size, room)) BY <2>3, <2>4, AllocSmallSound
  <2>. QED BY <2>1, <2>2, <2>5, AllocationKeeps
<1>2. ASSUME AllocRows PROVE PoolsInv'
  <2>1. PICK p \in PoolId, width, rows \in Sizes, room \in Rooms : Becomes(alloc_sarray(Now, p, width, rows, room))
    BY <1>2 DEF AllocRows
  <2>2. Working /\ UNCHANGED <<virt_list, max_memory_to_use, files, alive>> BY <1>2 DEF AllocRows
  <2>3. width \in Nat \ {0} /\ rows \in Nat \ {0} BY RequestAssumption
  <2>4. Sound(Now) BY <2>2 DEF PoolsInv, Working
  <2>5. Sound(alloc_sarray(Now, p, width, rows, room)) BY <2>3, <2>4, AllocRowsSound
  <2>. QED BY <2>1, <2>2, <2>5, AllocationKeeps
<1>3. ASSUME request_virt_sarray PROVE PoolsInv'
  <2>1. PICK v \in Arrays, room \in Rooms :
          LET s == alloc_small(Now, "IMAGE", Control, room)
          IN Becomes(s) /\ virt_list' = IF Ok(s) THEN <<v>> \o virt_list ELSE virt_list
    BY <1>3 DEF request_virt_sarray
  <2>2. Working /\ UNCHANGED <<max_memory_to_use, files, alive>> BY <1>3 DEF request_virt_sarray
  <2>3. v \in Virt /\ ~v.b_s_open /\ Control \in Nat /\ "IMAGE" \in PoolId BY RequestAssumption DEF Virt, PoolId
  <2>4. PICK s : s = alloc_small(Now, "IMAGE", Control, room) OBVIOUS
  <2>5. Sound(s)
    <3>1. Sound(Now) BY <2>2 DEF PoolsInv, Working
    <3>. QED BY <2>3, <2>4, <3>1, AllocSmallSound
  <2>6. Becomes(s) /\ virt_list' = IF Ok(s) THEN <<v>> \o virt_list ELSE virt_list BY <2>1, <2>4
  <2>7. CASE ~Ok(s)
    <3>1. UNCHANGED <<virt_list, max_memory_to_use, files, alive>> BY <2>2, <2>6, <2>7
    <3>. QED BY <2>2, <2>5, <2>6, <3>1, AllocationKeeps
  <2>8. CASE Ok(s)
    <3>1. Sound(Now)' /\ error_exit' = FALSE BY <2>5, <2>6, <2>8, BecomesSound
    <3>2. virt_list \in Seq(Virt) /\ files = Cardinality(Open(virt_list)) /\ ~error_exit
          /\ \A i \in DOMAIN virt_list : virt_list[i].b_s_open => virt_list[i].realized
      BY <2>2 DEF PoolsInv, Working
    <3>3. /\ virt_list' \in Seq(Virt) /\ Cardinality(Open(virt_list')) = Cardinality(Open(virt_list))
          /\ \A i \in DOMAIN virt_list' : virt_list'[i] = v \/ \E j \in DOMAIN virt_list : virt_list'[i] = virt_list[j]
      BY <2>3, <2>6, <2>8, <3>2, OpenRequested
    <3>4. \A i \in DOMAIN virt_list' : virt_list'[i].b_s_open => virt_list'[i].realized BY <2>3, <3>2, <3>3
    <3>. QED BY <2>2, <3>1, <3>2, <3>3, <3>4 DEF PoolsInv, Working
  <2>. QED BY <2>7, <2>8
<1>4. ASSUME realize_virt_arrays PROVE PoolsInv'
  <2>1. PICK t : Realizing(t, Len(virt_list)) /\ Becomes(t.s) /\ virt_list' = t.virt /\ files' = t.files
    BY <1>4, SharesRealized
  <2>2. Working /\ UNCHANGED <<max_memory_to_use, alive>> BY <1>4 DEF realize_virt_arrays
  <2>3. /\ Sound(t.s) /\ t.virt \in Seq(Virt) /\ DOMAIN t.virt = DOMAIN virt_list
        /\ t.files = Cardinality(Open(t.virt))
        /\ \A j \in DOMAIN t.virt : Ok(t.s) /\ t.virt[j].b_s_open => t.virt[j].realized
    BY <2>1 DEF Realizing
  <2>4. Sound(Now)' /\ error_exit' \in BOOLEAN /\ (error_exit' <=> ~Ok(t.s)) BY <2>1, <2>3, BecomesSound
  <2>5. virt_list' \in Seq(Virt) /\ files' = Cardinality(Open(virt_list')) BY <2>1, <2>3
  <2>6. ~error_exit' => \A i \in DOMAIN virt_list' : virt_list'[i].b_s_open => virt_list'[i].realized
    BY <2>1, <2>3, <2>4
  <2>. QED BY <2>2, <2>4, <2>5, <2>6 DEF PoolsInv, Working
<1>5. ASSUME jpeg_abort PROVE PoolsInv'
  <2>1. alive /\ freed({"IMAGE"}) /\ error_exit' = FALSE /\ UNCHANGED <<max_memory_to_use, alive>>
    BY <1>5 DEF jpeg_abort
  <2>2. {"IMAGE"} \in SUBSET PoolId BY DEF PoolId
  <2>3. Sound(Now)' BY <2>1, <2>2, FreedSound DEF PoolsInv
  <2>4. virt_list' = <<>> /\ files' = files - Cardinality(Open(virt_list)) BY <2>1 DEF freed, Open
  <2>5. files' = 0 BY <2>4, OpenFinite DEF PoolsInv
  <2>6. Open(<<>>) = {} /\ <<>> \in Seq(Virt) /\ DOMAIN <<>> = {} BY DEF Open
  <2>7. virt_list' \in Seq(Virt) /\ files' = Cardinality(Open(virt_list')) BY <2>4, <2>5, <2>6, FS_EmptySet
  <2>8. \A i \in DOMAIN virt_list' : virt_list'[i].b_s_open => virt_list'[i].realized BY <2>4, <2>6
  <2>. QED BY <2>1, <2>3, <2>7, <2>8 DEF PoolsInv
<1>6. ASSUME jpeg_destroy PROVE PoolsInv'
  <2>1. /\ alive
        /\ heap' = [b \in DOMAIN heap \ (Numbered(Gone(PoolId)) \cup {0}) |-> heap[b]]
        /\ total_space_allocated'
             = total_space_allocated - SumFunction([b \in Gone(PoolId) |-> space_freed(b)]) - Manager
        /\ small_list' = [p \in PoolId |-> <<>>] /\ large_list' = [p \in PoolId |-> <<>>]
        /\ virt_list' = <<>> /\ objects' = {} /\ alive' = FALSE
        /\ UNCHANGED <<max_memory_to_use, error_exit>>
        /\ files' = files - Cardinality(Open(virt_list))
    BY <1>6 DEF jpeg_destroy, Gone, Numbered, Open
  <2>2. DOMAIN heap' = {} /\ total_space_allocated' = 0 BY <2>1, AllFreed DEF PoolsInv
  <2>3. files' = 0 BY <2>1, OpenFinite DEF PoolsInv
  <2>4. Open(<<>>) = {} /\ <<>> \in Seq(Virt) /\ DOMAIN <<>> = {} BY DEF Open
  <2>5. virt_list' \in Seq(Virt) /\ files' = Cardinality(Open(virt_list')) BY <2>1, <2>3, <2>4, FS_EmptySet
  <2>6. \A i \in DOMAIN virt_list' : virt_list'[i].b_s_open => virt_list'[i].realized BY <2>1, <2>4
  <2>7. \A p \in PoolId : small_list'[p] = <<>> /\ large_list'[p] = <<>> BY <2>1
  <2>. QED BY <2>1, <2>2, <2>5, <2>6, <2>7 DEF PoolsInv
<1>7. ASSUME UNCHANGED poolvars PROVE PoolsInv'
  <2>1. UNCHANGED <<heap, small_list, large_list, virt_list, total_space_allocated,
                    max_memory_to_use, objects, files, error_exit, alive>>
    BY <1>7 DEF poolvars
  <2>2. Sound(Now)' <=> Sound(Now) BY <2>1 DEF Now
  <2>3. Cardinality(Open(virt_list))' = Cardinality(Open(virt_list)) BY <2>1 DEF Open
  <2>. QED BY <2>1, <2>2, <2>3 DEF PoolsInv
<1>. QED BY <1>1, <1>2, <1>3, <1>4, <1>5, <1>6, <1>7 DEF PoolsNext

(* The inductive invariant of the pools: what malloc gave is held once, with its*)
(* size, and the objects lie apart in what is used of it (jmemmgr.c).         *)
THEOREM PoolsInvHolds == PoolsSpec => []PoolsInv
<1>. QED BY PoolsInvInit, PoolsInvNext, PTL DEF PoolsSpec

-----------------------------------------------------------------------------
(* The objects end within their blocks and are apart.                         *)
LEMMA ObjectsLie ==
  ASSUME Sound(Now), NEW o \in objects
  PROVE  /\ o.block \in DOMAIN heap /\ o.at % Align = 0 /\ o.at + o.size <= heap[o.block]
         /\ \A p \in objects \ {o} : o.block = p.block => Extent(o) \cap Extent(p) = {}
<1> DEFINE held == Held(small_list, large_list)
<1>1. Kept(heap, held, objects) BY ResultOf DEF Now
<1>2. /\ o \in Object /\ o.at % Align = 0 /\ Within(o, held)
      /\ \A p \in objects : p \in Object /\ (o # p /\ o.block = p.block => Apart(o, p))
  BY <1>1 DEF Kept, ObjectsApart
<1>. HIDE DEF held
<1>3. PICK q \in DOMAIN held : held[q].block = o.block /\ o.at + o.size <= Header + held[q].used
  BY <1>2 DEF Within
<1>4. /\ held[q] \in Block /\ held[q].block \in DOMAIN heap
      /\ heap[held[q].block] = Header + held[q].used + held[q].left
  BY <1>1 DEF Kept, HeldOnce
<1>5. held[q].used \in Nat /\ held[q].left \in Nat /\ Header \in Nat /\ o.at \in Nat /\ o.size \in Nat
  BY <1>2, <1>4, AlignAssumption DEF Block, Object
<1>6. heap[o.block] = Header + held[q].used + held[q].left BY <1>3, <1>4
<1>7. o.at + o.size <= heap[o.block] BY <1>3, <1>5, <1>6
<1>8. ASSUME NEW p \in objects \ {o}, o.block = p.block PROVE Extent(o) \cap Extent(p) = {}
  <2>1. p.at \in Nat /\ p.size \in Nat BY <1>2 DEF Object
  <2>2. o.at + o.size <= p.at \/ p.at + p.size <= o.at BY <1>2, <1>8 DEF Apart
  <2>3. ASSUME NEW x \in Extent(o), x \in Extent(p) PROVE FALSE
    <3>1. x \in Int /\ o.at <= x /\ x <= o.at + o.size - 1 BY <1>5 DEF Extent
    <3>2. p.at <= x /\ x <= p.at + p.size - 1 BY <2>1, <2>3 DEF Extent
    <3>. QED BY <1>5, <2>1, <2>2, <3>1, <3>2
  <2>. QED BY <2>3
<1>. QED BY <1>2, <1>3, <1>4, <1>7, <1>8

LEMMA PoolsInvSound == PoolsInv => PoolsSound
<1>. SUFFICES ASSUME PoolsInv PROVE PoolsSound OBVIOUS
<1>1. files = Cardinality({i \in DOMAIN virt_list : virt_list[i].b_s_open}) BY DEF PoolsInv, Open
<1>2. Everything = Gone(PoolId) BY DEF Everything, Gone
<1>3. CASE alive
  <2>1. Sound(Now) BY <1>3 DEF PoolsInv
  <2>2. /\ small_list \in Lists /\ large_list \in Lists /\ total_space_allocated = SumFunction(heap)
        /\ Kept(heap, Held(small_list, large_list), objects)
    BY <2>1, ResultOf DEF Now
  <2> DEFINE held == Held(small_list, large_list)
             everything == Gone(PoolId)
  <2>3. /\ \A b \in everything : \E q \in DOMAIN held : held[q] = b
        /\ \A q \in DOMAIN held : held[q] \in everything
    BY <2>2, GoneIs
  <2>. HIDE DEF held, everything
  <2>4. /\ \A q \in DOMAIN held : held[q].block \in DOMAIN heap
        /\ \A n \in DOMAIN heap : n # 0 => \E q \in DOMAIN held : held[q].block = n
        /\ 0 \in DOMAIN heap
    BY <2>2 DEF Kept, HeldOnce, HeapType, held
  <2>5. \A n \in DOMAIN heap : n # 0 => \E b \in everything : b.block = n BY <2>3, <2>4
  <2>6. \A b \in everything : b.block \in DOMAIN heap BY <2>3, <2>4
  <2>7. DOMAIN heap = {b.block : b \in everything} \cup {0} BY <2>4, <2>5, <2>6
  <2>8. DOMAIN heap = {b.block : b \in Everything} \cup IF alive THEN {0} ELSE {}
    BY <1>2, <1>3, <2>7 DEF everything
  <2>. QED BY <1>1, <2>1, <2>2, <2>8, ObjectsLie DEF PoolsSound
<1>4. CASE ~alive
  <2>1. /\ DOMAIN heap = {} /\ total_space_allocated = 0 /\ objects = {}
        /\ \A p \in PoolId : small_list[p] = <<>> /\ large_list[p] = <<>>
    BY <1>4 DEF PoolsInv
  <2>2. Numbers(heap) BY <2>1, FS_EmptySet DEF Numbers
  <2>3. total_space_allocated = SumFunction(heap) BY <2>1, <2>2, SumType
  <2>4. \A p \in PoolId : PoolBlocks(p) = {} BY <2>1 DEF PoolBlocks, ToSet
  <2>5. Everything = {} BY <2>4 DEF Everything
  <2>6. {b.block : b \in Everything} = {} BY <2>5
  <2>7. DOMAIN heap = {b.block : b \in Everything} \cup IF alive THEN {0} ELSE {} BY <1>4, <2>1, <2>6
  <2>. QED BY <1>1, <2>1, <2>3, <2>7 DEF PoolsSound
<1>. QED BY <1>3, <1>4

(* The count of memory is right and no block or file is forgotten, by an error*)
(* exit neither, and no two objects overlap, for every size of block, header and*)
(* slop, every sequence of calls and whatever malloc refuses (alloc_small,    *)
(* alloc_large, alloc_sarray, free_pool, self_destruct).                      *)
THEOREM PoolsSoundHolds == PoolsSpec => []PoolsSound
<1>. QED BY PoolsInvHolds, PoolsInvSound, PTL

LEMMA ShareFitsNext == PoolsInv /\ [PoolsNext]_poolvars => [ShareFitsStep]_poolvars
<1>. SUFFICES ASSUME PoolsInv PROVE ShareFitsStep OBVIOUS
<1> DEFINE buffers == [i \in Unrealized |-> virt_list'[i].rows_in_mem * virt_list'[i].width]
<1>. SUFFICES ASSUME realize_virt_arrays, ~error_exit'
              PROVE  /\ space_per_minheight <= jpeg_mem_available => SumFunction(buffers) <= jpeg_mem_available
                     /\ \A i \in Unrealized :
                          LET v == virt_list'[i]
                          IN v.rows_in_mem # v.rows_in_array =>
                               v.rows_in_mem < v.rows_in_array /\ v.rows_in_mem % v.maxaccess = 0
  BY DEF ShareFitsStep
<1>1. ShareType /\ Unrealized # {} BY SharesRealized
<1>2. PICK t : Realizing(t, Len(virt_list)) /\ Becomes(t.s) /\ virt_list' = t.virt BY SharesRealized
<1>3. Ok(t.s) BY <1>2 DEF Becomes
<1>4. ASSUME NEW i \in Unrealized
      PROVE  /\ virt_list'[i].rows_in_array = virt_list[i].rows_in_array
             /\ virt_list'[i].maxaccess = virt_list[i].maxaccess
             /\ virt_list'[i].width = virt_list[i].width
             /\ virt_list'[i].rows_in_mem = rows_in_mem(virt_list[i])
  <2>1. virt_list \in Seq(Virt) /\ i \in DOMAIN virt_list /\ i <= Len(virt_list) BY <1>1 DEF ShareType, Unrealized
  <2>. QED BY <1>2, <1>3, <2>1 DEF Realizing
<1>5. ASSUME space_per_minheight <= jpeg_mem_available PROVE SumFunction(buffers) <= jpeg_mem_available
  <2>1. \A i \in Unrealized : buffers[i] = rows_in_mem(virt_list[i]) * virt_list[i].width BY <1>4
  <2>2. DOMAIN buffers = Unrealized OBVIOUS
  <2>. HIDE DEF buffers
  <2>. QED BY <1>1, <1>5, <2>1, <2>2, SharesFit
<1>6. ASSUME NEW i \in Unrealized, virt_list'[i].rows_in_mem # virt_list'[i].rows_in_array
      PROVE  virt_list'[i].rows_in_mem < virt_list'[i].rows_in_array
             /\ virt_list'[i].rows_in_mem % virt_list'[i].maxaccess = 0
  <2>1. LET v == virt_list[i]
        IN /\ rows_in_mem(v) \in Nat \ {0} /\ rows_in_mem(v) <= v.rows_in_array
           /\ rows_in_mem(v) # v.rows_in_array => rows_in_mem(v) % v.maxaccess = 0
    BY <1>1, RowsGiven
  <2>2. virt_list[i].rows_in_array \in Nat BY <1>1, ArrayType
  <2>. QED BY <1>4, <1>6, <2>1, <2>2
<1>. QED BY <1>5, <1>6

(* realize_virt_arrays keeps the buffers within the memory left whenever every*)
(* array can have its smallest, and gives whole strips: for any number of arrays of*)
(* any shape.                                                                 *)
THEOREM ShareFitsHolds == PoolsSpec => ShareFits
<1>. QED BY PoolsInvHolds, ShareFitsNext, PTL DEF PoolsSpec, ShareFits
=============================================================================
