------------------------------ MODULE JpegPools -----------------------------
(***************************************************************************)
(* The pools of the JPEG library's memory manager (jmemmgr.c).  Objects of   *)
(* the permanent and the image pool come out of blocks got from malloc:      *)
(* small ones several to a block, large ones and strips of rows in blocks   *)
(* of their own; a pool is freed as a whole.  realize_virt_arrays shares the *)
(* memory the application allows among the virtual arrays requested; their   *)
(* contents are the subject of JpegVirtArray.                               *)
(***************************************************************************)
EXTENDS Integers, Sequences, FiniteSets, SequencesExt

CONSTANTS
  Align,             \* sizeof(ALIGN_TYPE)
  Header,            \* sizeof(small_pool_hdr), sizeof(large_pool_hdr)
  Manager,           \* sizeof(my_memory_mgr)
  Control,           \* sizeof(struct jvirt_sarray_control)
  first_pool_slop, extra_pool_slop,
  MIN_SLOP, MAX_ALLOC_CHUNK,
  MaxFiles,          \* temporary files the system gives; none with jmemnobs.c
  Limits,            \* bound: the values of max_memory_to_use
  Sizes,             \* bound: the sizes of objects
  Arrays,            \* bound: the virtual arrays requested
  Rooms,             \* bound: what malloc may have left
  MaxArrays,         \* bound: virtual arrays of an image
  MaxBlocks          \* bound: no call is made with so many blocks

PoolId == {"PERMANENT", "IMAGE"}

ASSUME AlignAssumption == Align \in Nat \ {0} /\ Header \in Nat /\ Header % Align = 0
ASSUME ChunkAssumption == MAX_ALLOC_CHUNK \in Nat /\ MAX_ALLOC_CHUNK % Align = 0
ASSUME SlopAssumption ==
  MIN_SLOP \in Nat \ {0} /\ first_pool_slop \in [PoolId -> Nat] /\ extra_pool_slop \in [PoolId -> Nat]
ASSUME RequestAssumption ==
  /\ Manager \in Nat /\ Control \in Nat /\ MaxFiles \in Nat /\ Limits \subseteq Int
  /\ Sizes \subseteq Nat \ {0} /\ Rooms \subseteq Nat
  /\ Arrays \subseteq [rows_in_array : Nat \ {0}, maxaccess : Nat \ {0}, width : Nat \ {0},
                      realized : {FALSE}, rows_in_mem : Nat, b_s_open : {FALSE}]

VARIABLES
  heap,              \* the blocks malloc gave and nobody freed: number -> size
  small_list,        \* small blocks of each pool, the first first
  large_list,        \* large blocks of each pool
  virt_list,         \* the virtual arrays requested, the last first
  total_space_allocated,
  max_memory_to_use,
  objects,           \* the objects handed out and not freed
  files,             \* temporary files open
  error_exit,        \* the last call took one; the application aborts or destroys
  alive
poolvars == <<heap, small_list, large_list, virt_list, total_space_allocated,
              max_memory_to_use, objects, files, error_exit, alive>>

-----------------------------------------------------------------------------
(* An operation works on this: what it has changed so far, and whether it      *)
(* took an error exit; malloc fails for requests above the size it still has.  *)
Now == [heap |-> heap, small |-> small_list, large |-> large_list,
        total |-> total_space_allocated, objects |-> objects, error |-> "none"]
Error(s, e) == [s EXCEPT !.error = e]
Ok(s) == s.error = "none"

RoundUp(size) == IF size % Align = 0 THEN size ELSE size + Align - (size % Align)

(* malloc                                                                     *)
Unused(s) == Min((0 .. Cardinality(DOMAIN s.heap)) \ DOMAIN s.heap)
Got(s, size) ==
  [s EXCEPT !.heap = [b \in DOMAIN s.heap \cup {Unused(s)} |-> IF b \in DOMAIN s.heap THEN s.heap[b] ELSE size]]

(* alloc_small uses the first block with room enough; a new one goes to the    *)
(* end of the list, with spare room, less of it when malloc refuses.           *)
Fitting(blocks, size) == {i \in DOMAIN blocks : blocks[i].left >= size}
slop_wanted(blocks, pool, request) ==
  LET slop == IF blocks = <<>> THEN first_pool_slop[pool] ELSE extra_pool_slop[pool]
  IN IF slop > MAX_ALLOC_CHUNK - request THEN MAX_ALLOC_CHUNK - request ELSE slop
(* The spare room malloc lets it have: halved until there is enough.           *)
slop_got(slop, request, room) ==
  LET tried[k \in 0 .. slop] == IF k = 0 THEN slop ELSE tried[k-1] \div 2
      enough == {k \in 0 .. slop : request + tried[k] <= room /\ (k = 0 \/ tried[k] >= MIN_SLOP)}
  IN IF enough = {} THEN -1 ELSE tried[Min(enough)]

Placed(s, pool, i, size) ==
  LET block == s.small[pool][i]
  IN [s EXCEPT !.small[pool][i] = [block EXCEPT !.used = @ + size, !.left = @ - size],
               !.objects = @ \cup {[pool |-> pool, block |-> block.block,
                                    at |-> Header + block.used, size |-> size]}]
alloc_small(s, pool, sizeofobject, room) ==
  LET size == RoundUp(sizeofobject)
      blocks == s.small[pool]
      request == size + Header
      slop == slop_got(slop_wanted(blocks, pool, request), request, room)
      fresh == [block |-> Unused(s), used |-> 0, left |-> size + slop]
  IN IF ~Ok(s) THEN s
     ELSE IF sizeofobject > MAX_ALLOC_CHUNK - Header THEN Error(s, "OUT_OF_MEMORY")
     ELSE IF Fitting(blocks, size) # {} THEN Placed(s, pool, Min(Fitting(blocks, size)), size)
     ELSE IF slop < 0 THEN Error(s, "OUT_OF_MEMORY")
     ELSE Placed([Got(s, request + slop) EXCEPT !.total = @ + request + slop,
                                                !.small[pool] = Append(@, fresh)],
                 pool, Len(blocks) + 1, size)

alloc_large(s, pool, sizeofobject, room) ==
  LET size == RoundUp(sizeofobject)
  IN IF ~Ok(s) THEN s
     ELSE IF sizeofobject > MAX_ALLOC_CHUNK - Header \/ size + Header > room
          THEN Error(s, "OUT_OF_MEMORY")
     ELSE [Got(s, size + Header) EXCEPT
             !.total = @ + size + Header,
             !.large[pool] = <<[block |-> Unused(s), used |-> size, left |-> 0]>> \o @,
             !.objects = @ \cup {[pool |-> pool, block |-> Unused(s), at |-> Header, size |-> size]}]

(* alloc_sarray: the pointers to the rows are a small object, the rows large   *)
(* ones of as many rows as malloc can give at once.                           *)
rowsperchunk(width, numrows) ==
  LET most == (MAX_ALLOC_CHUNK - Header) \div width IN IF most < numrows THEN most ELSE numrows
RowsOfChunk(k, width, numrows) ==
  LET per == rowsperchunk(width, numrows) IN IF k * per <= numrows THEN per ELSE numrows % per
alloc_sarray(s, pool, width, numrows, room) ==
  LET per == rowsperchunk(width, numrows)
      count == (numrows + per - 1) \div per
      chunk[k \in 0 .. count] ==
        IF k = 0 THEN alloc_small(s, pool, numrows * Align, room)
        ELSE alloc_large(chunk[k-1], pool, RowsOfChunk(k, width, numrows) * width, room)
  IN IF ~Ok(s) THEN s ELSE IF per <= 0 THEN Error(s, "WIDTH_OVERFLOW") ELSE chunk[count]

-----------------------------------------------------------------------------
(* realize_virt_arrays, for the arrays requested since the last time: each     *)
(* gets the same multiple of its maximum access, the most there is room for.   *)
Unrealized == {i \in DOMAIN virt_list : ~virt_list[i].realized}
space_per_minheight == SumFunction([i \in Unrealized |-> virt_list[i].maxaccess * virt_list[i].width])
maximum_space == SumFunction([i \in Unrealized |-> virt_list[i].rows_in_array * virt_list[i].width])
jpeg_mem_available == IF MaxFiles > 0 THEN max_memory_to_use - total_space_allocated ELSE maximum_space
max_minheights ==
  IF jpeg_mem_available >= maximum_space THEN maximum_space
  ELSE IF jpeg_mem_available < space_per_minheight THEN 1
  ELSE jpeg_mem_available \div space_per_minheight
minheights_of(v) == (v.rows_in_array - 1) \div v.maxaccess + 1
(* A mutant: the last strip, not full, is not counted.                         *)
InMemoryRoughly(v) == v.rows_in_array \div v.maxaccess <= max_minheights
InMemory(v) == minheights_of(v) <= max_minheights
rows_in_mem(v) == IF InMemory(v) THEN v.rows_in_array ELSE max_minheights * v.maxaccess

(* One array: its file, then its buffer; what was done stays done at an error. *)
realize_one(t, i, room) ==
  LET v == virt_list[i]
      opens == ~InMemory(v) /\ t.files < MaxFiles
      filed == IF InMemory(v) \/ opens THEN t.s ELSE Error(t.s, "TFILE_CREATE")
      given_rows == alloc_sarray(filed, "IMAGE", v.width, rows_in_mem(v), room)
  IN IF ~Ok(t.s) \/ v.realized THEN t
     ELSE [s |-> given_rows, files |-> IF opens THEN t.files + 1 ELSE t.files,
           virt |-> [t.virt EXCEPT ![i] = [v EXCEPT !.realized = Ok(given_rows),
                                                    !.rows_in_mem = rows_in_mem(v),
                                                    !.b_s_open = @ \/ opens]]]

-----------------------------------------------------------------------------
PoolsInit ==
  /\ heap = [b \in {0} |-> Manager]
  /\ small_list = [p \in PoolId |-> <<>>] /\ large_list = [p \in PoolId |-> <<>>]
  /\ virt_list = <<>>
  /\ total_space_allocated = Manager
  /\ max_memory_to_use \in Limits
  /\ objects = {} /\ files = 0 /\ error_exit = FALSE /\ alive = TRUE

Becomes(s) ==
  /\ heap' = s.heap /\ small_list' = s.small /\ large_list' = s.large
  /\ total_space_allocated' = s.total /\ objects' = s.objects
  /\ error_exit' = ~Ok(s)
Working == alive /\ ~error_exit /\ Cardinality(DOMAIN heap) < MaxBlocks

(* The calls the library makes; an error exit leaves what had been done.       *)
AllocSmall ==
  /\ Working
  /\ \E p \in PoolId, size \in Sizes, room \in Rooms : Becomes(alloc_small(Now, p, size, room))
  /\ UNCHANGED <<virt_list, max_memory_to_use, files, alive>>
AllocRows ==
  /\ Working
  /\ \E p \in PoolId, width, rows \in Sizes, room \in Rooms : Becomes(alloc_sarray(Now, p, width, rows, room))
  /\ UNCHANGED <<virt_list, max_memory_to_use, files, alive>>
request_virt_sarray ==
  /\ Working /\ Len(virt_list) < MaxArrays
  /\ \E v \in Arrays, room \in Rooms :
       LET s == alloc_small(Now, "IMAGE", Control, room)
       IN Becomes(s) /\ virt_list' = IF Ok(s) THEN <<v>> \o virt_list ELSE virt_list
  /\ UNCHANGED <<max_memory_to_use, files, alive>>
realize_virt_arrays ==
  /\ Working
  /\ Unrealized # {}
  /\ \E room \in Rooms :
       LET done[i \in 0 .. Len(virt_list)] ==
             IF i = 0 THEN [s |-> Now, virt |-> virt_list, files |-> files]
             ELSE realize_one(done[i-1], i, room)
           end == done[Len(virt_list)]
       IN Becomes(end.s) /\ virt_list' = end.virt /\ files' = end.files
  /\ UNCHANGED <<max_memory_to_use, alive>>

(* free_pool closes the files of the virtual arrays, which are all of the      *)
(* image pool, and gives every block of the pool back, by what its header says.*)
PoolBlocks(p) == ToSet(small_list[p]) \cup ToSet(large_list[p])
(* A mutant: what is left of a block does not count.                           *)
SpaceUsed(b) == b.used + Header
space_freed(b) == b.used + b.left + Header
freed(pools) ==
  LET gone == UNION {PoolBlocks(p) : p \in pools}
      numbers == {b.block : b \in gone}
  IN /\ heap' = [b \in DOMAIN heap \ numbers |-> heap[b]]
     /\ total_space_allocated' = total_space_allocated - SumFunction([b \in gone |-> space_freed(b)])
     /\ small_list' = [p \in PoolId |-> IF p \in pools THEN <<>> ELSE small_list[p]]
     /\ large_list' = [p \in PoolId |-> IF p \in pools THEN <<>> ELSE large_list[p]]
     /\ objects' = {o \in objects : o.pool \notin pools}
     /\ files' = files - Cardinality({i \in DOMAIN virt_list : virt_list[i].b_s_open})
     /\ virt_list' = <<>>

(* jpeg_abort, between images and after an error exit.                        *)
jpeg_abort ==
  /\ alive
  /\ freed({"IMAGE"})
  /\ error_exit' = FALSE
  /\ UNCHANGED <<max_memory_to_use, alive>>

(* jpeg_destroy: the pools, then the manager itself (self_destruct).           *)
jpeg_destroy ==
  /\ alive
  /\ LET gone == UNION {PoolBlocks(p) : p \in PoolId}
     IN /\ heap' = [b \in DOMAIN heap \ ({b.block : b \in gone} \cup {0}) |-> heap[b]]
        /\ total_space_allocated' = total_space_allocated - SumFunction([b \in gone |-> space_freed(b)]) - Manager
  /\ files' = files - Cardinality({i \in DOMAIN virt_list : virt_list[i].b_s_open})
  /\ small_list' = [p \in PoolId |-> <<>>] /\ large_list' = [p \in PoolId |-> <<>>]
  /\ virt_list' = <<>> /\ objects' = {} /\ alive' = FALSE
  /\ UNCHANGED <<max_memory_to_use, error_exit>>

PoolsNext == AllocSmall \/ AllocRows \/ request_virt_sarray \/ realize_virt_arrays \/ jpeg_abort \/ jpeg_destroy
PoolsSpec == PoolsInit /\ [][PoolsNext]_poolvars

-----------------------------------------------------------------------------
(* The count of memory is of what malloc gave and has not got back, no block   *)
(* and no file is forgotten, not by an error exit half way through a strip of  *)
(* rows either, and no two objects overlap (alloc_small, free_pool).           *)
Everything == UNION {PoolBlocks(p) : p \in PoolId}
Extent(o) == o.at .. o.at + o.size - 1
PoolsSound ==
  /\ total_space_allocated = SumFunction(heap)
  /\ DOMAIN heap = {b.block : b \in Everything} \cup IF alive THEN {0} ELSE {}
  /\ files = Cardinality({i \in DOMAIN virt_list : virt_list[i].b_s_open})
  /\ \A o \in objects :
       /\ o.block \in DOMAIN heap /\ o.at % Align = 0 /\ o.at + o.size <= heap[o.block]
       /\ \A p \in objects \ {o} : o.block = p.block => Extent(o) \cap Extent(p) = {}

(* Sharing keeps the buffers within the memory that is left, when every array  *)
(* can have its smallest; and each has all its rows or whole strips of its     *)
(* maximum access (realize_virt_arrays).                                      *)
ShareFitsStep ==
  realize_virt_arrays /\ ~error_exit' =>
    LET buffers == [i \in Unrealized |-> virt_list'[i].rows_in_mem * virt_list'[i].width]
    IN /\ space_per_minheight <= jpeg_mem_available => SumFunction(buffers) <= jpeg_mem_available
       /\ \A i \in Unrealized :
            LET v == virt_list'[i]
            IN v.rows_in_mem # v.rows_in_array =>
                 v.rows_in_mem < v.rows_in_array /\ v.rows_in_mem % v.maxaccess = 0
ShareFits == [][ShareFitsStep]_poolvars
=============================================================================
