------------------------------- MODULE Frames -------------------------------
(***************************************************************************)
(* Physical memory: the heap that init_heap of main.rs reserves, the pool  *)
(* of 4 KiB frames that frames::init makes of the rest (frames.rs), and    *)
(* its two operations.  Addresses are numbers; a frame is the address of   *)
(* its first byte.  FRAMES is a stack, behind a mutex that every operation *)
(* takes once, so each one is a single step.                               *)
(***************************************************************************)
EXTENDS Integers, Sequences, FiniteSetsExt, Functions

CONSTANTS FRAME_SIZE,   \* bytes of a frame
          HEAP_CAP      \* the most that the heap takes

ASSUME FramesAssumption ==
    FRAME_SIZE \in Nat \ {0} /\ HEAP_CAP \in Nat /\ HEAP_CAP % FRAME_SIZE = 0

VARIABLE free           \* FRAMES.free

(* add_region: the frames that lie in [base, base + length).                *)
AddRegion(base, length) ==
    LET lo == ((base + FRAME_SIZE - 1) \div FRAME_SIZE) * FRAME_SIZE
        hi == ((base + length) \div FRAME_SIZE) * FRAME_SIZE
    IN  [i \in 1 .. (IF hi <= lo THEN 0 ELSE (hi - lo) \div FRAME_SIZE)
            |-> lo + (i - 1) * FRAME_SIZE]

Usable(map) == {i \in DOMAIN map : map[i].type = "USABLE"}

(* init_heap: the start of the longest usable region, the last of those     *)
(* that are equally long.                                                   *)
HeapOf(map) ==
    LET r == CHOOSE i \in Usable(map) : \A j \in Usable(map) \ {i} :
                \/ map[j].length < map[i].length
                \/ map[j].length = map[i].length /\ j < i
    IN  [start |-> map[r].base,
         end   |-> map[r].base + Min({map[r].length, HEAP_CAP})]

(* One region in frames::init: what lies before the heap, and after it.     *)
Around(region, heap) ==
    LET end == region.base + region.length
        after == Max({region.base, heap.end})
    IN  (IF region.base < heap.start
         THEN AddRegion(region.base, Min({end, heap.start}) - region.base)
         ELSE <<>>)
        \o (IF end > heap.end THEN AddRegion(after, end - after) ELSE <<>>)

(* frames::init: the pool made of a memory map.  Its trial allocation puts  *)
(* the frame back where it was.                                             *)
PoolOf(map, heap) ==
    LET pool[i \in 0 .. Len(map)] ==
            IF i = 0 THEN <<>>
            ELSE pool[i - 1] \o (IF i \in Usable(map) THEN Around(map[i], heap) ELSE <<>>)
    IN  pool[Len(map)]

(* alloc_frame of frame f, which is None when the pool is empty, and        *)
(* free_frame.                                                              *)
AllocFrame(f) ==
    free # <<>> /\ f = free[Len(free)] /\ free' = SubSeq(free, 1, Len(free) - 1)
FreeFrame(f) == free' = Append(free, f)

(* The frames of the regions of one type.                                   *)
FramesOf(map, type) ==
    UNION {Range(AddRegion(map[i].base, map[i].length)) :
              i \in {j \in DOMAIN map : map[j].type = type}}
=============================================================================
