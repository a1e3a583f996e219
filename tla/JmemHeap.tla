------------------------------ MODULE JmemHeap ------------------------------
(***************************************************************************)
(* The heap allocator of jerry-core/jmem/jmem-heap.c.                      *)
(*                                                                         *)
(* Offsets and sizes are counted in units of JMEM_ALIGNMENT bytes: every   *)
(* function of the file rounds a request up to that unit before it uses    *)
(* it.  The area has HeapUnits units; `first', the list head, is the unit  *)
(* just before the area (offset -1) and has size 0.                        *)
(*                                                                         *)
(* A call is a sequence of steps because a collection can run in the       *)
(* middle of it: jmem_heap_gc_and_alloc_block and jmem_heap_realloc_block  *)
(* call ecma_free_unused_memory, which frees other blocks, and what they   *)
(* know of the free list before that is stale after it.  The iterations of *)
(* the two list loops (first fit, jmem_heap_find_prev) are steps as well.  *)
(***************************************************************************)
EXTENDS Integers, FiniteSets

CONSTANTS HeapUnits,    \* JMEM_HEAP_AREA_SIZE, in units
          GcLimit       \* CONFIG_GC_LIMIT, in units

ASSUME HeapUnitsAssumption == HeapUnits \in Nat \ {0}
ASSUME GcLimitAssumption == GcLimit \in Nat \ {0}

VARIABLES
  next_offset,    \* next_offset field of the region header at an offset
  size,           \* size field of the region header; 0 where no header lives
  skip_p,         \* jmem_heap_list_skip_p
  allocated_size, \* jmem_heap_allocated_size
  limit,          \* jmem_heap_limit
  blocks,         \* units owned by the client from an offset on, 0 if none
  pc,             \* control point of the call in progress
  phase,          \* which call it is
  req,            \* units requested by that call
  pressure,       \* pressure in jmem_heap_gc_and_alloc_block
  max_pressure,   \* its second argument
  rblock,         \* block_p of jmem_heap_realloc_block
  fblock,         \* block_p of jmem_heap_find_prev
  why,            \* for whom jmem_heap_find_prev runs
  prev,           \* prev_p of either loop
  current         \* current_p of the first-fit loop

heapVars == <<next_offset, size, skip_p, allocated_size, limit, blocks>>
callVars == <<phase, req, pressure, max_pressure, rblock>>
loopVars == <<fblock, why, prev, current>>
vars == <<heapVars, pc, callVars, loopVars>>

First == -1               \* &JERRY_HEAP_CONTEXT (first), just before the area
Area == 0..(HeapUnits - 1)
Headers == Area \cup {First}
End == HeapUnits + 1      \* JMEM_HEAP_END_OF_LIST: above every region end

None == 0                 \* jmem_pressure_t
Low == 1
High == 2
Full == 3

\* The free regions: offsets at which a list header lives.
Regions == {o \in Area : size[o] # 0}
Heads == Regions \cup {First}
Blocks == {b \in Area : blocks[b] # 0}

Extent(b, n) == b..(b + n - 1)
\* The units the client owns.
Used == {u \in Area : \E b \in Area : u \in Extent(b, blocks[b])}

-----------------------------------------------------------------------------
\* jmem_heap_init: one region that is the whole area.
Init ==
  /\ next_offset = [o \in Headers |-> IF o = First THEN 0 ELSE End]
  /\ size = [o \in Headers |-> IF o = 0 THEN HeapUnits ELSE 0]
  /\ skip_p = First
  /\ allocated_size = 0
  /\ limit = GcLimit
  /\ blocks = [o \in Area |-> 0]
  /\ pc = "idle"
  /\ phase = "none"
  /\ req = 0
  /\ pressure = None
  /\ max_pressure = None
  /\ rblock = First
  /\ fblock = First
  /\ why = "none"
  /\ prev = First
  /\ current = End

(***************************************************************************)
(* List surgery.                                                           *)
(***************************************************************************)

\* Faulty variants of Carve: every region is unlinked like an exact fit; the
\* remainder keeps the old size.
CarveLosesRest(p, r, n) ==
  /\ next_offset' = [next_offset EXCEPT ![p] = next_offset[r], ![r] = End]
  /\ size' = [size EXCEPT ![r] = 0]

CarveKeepsSize(p, r, n) ==
  IF size[r] = n
    THEN CarveLosesRest(p, r, n)
    ELSE /\ next_offset' = [next_offset EXCEPT ![p] = r + n, ![r] = End,
                                               ![r + n] = next_offset[r]]
         /\ size' = [size EXCEPT ![r] = 0, ![r + n] = size[r]]

\* Takes n units from the front of region r, whose list predecessor is p.  The
\* header at r is gone: its memory belongs to the client from now on.
Carve(p, r, n) ==
  IF size[r] = n
    THEN /\ next_offset' = [next_offset EXCEPT ![p] = next_offset[r], ![r] = End]
         /\ size' = [size EXCEPT ![r] = 0]
    ELSE /\ next_offset' = [next_offset EXCEPT ![p] = r + n, ![r] = End,
                                               ![r + n] = next_offset[r]]
         /\ size' = [size EXCEPT ![r] = 0, ![r + n] = size[r] - n]

\* Faulty variant of InsertBlock: no merge with the next region.
InsertBlockNoMergeNext(b, p, n) ==
  LET mergePrev == p + size[p] = b
  IN /\ next_offset' = IF mergePrev THEN next_offset
                       ELSE [next_offset EXCEPT ![p] = b, ![b] = next_offset[p]]
     /\ size' = IF mergePrev THEN [size EXCEPT ![p] = @ + n]
                             ELSE [size EXCEPT ![b] = n]
     /\ skip_p' = p

\* jmem_heap_insert_block (b, p, n): links the n units at b after p, merged with
\* p when they touch and with the next region when they touch that.
InsertBlock(b, p, n) ==
  LET nxt == next_offset[p]
      mergePrev == p + size[p] = b
      head == IF mergePrev THEN p ELSE b
      headSize == IF mergePrev THEN size[p] + n ELSE n
      linked == IF mergePrev THEN next_offset
                             ELSE [next_offset EXCEPT ![p] = b]
  IN /\ IF head + headSize = nxt
          THEN /\ next_offset' = [linked EXCEPT ![head] = next_offset[nxt],
                                                ![nxt] = End]
               /\ size' = [size EXCEPT ![head] = headSize + size[nxt], ![nxt] = 0]
          ELSE /\ next_offset' = [linked EXCEPT ![head] = nxt]
               /\ size' = [size EXCEPT ![head] = headSize]
     /\ skip_p' = p

(***************************************************************************)
(* The two limit loops: limit moves by the least number of GcLimit steps   *)
(* that makes the loop condition false for the allocated size a.           *)
(***************************************************************************)
LowerLimit(a) ==
  \E k \in 0..limit :
    /\ limit' = limit - k * GcLimit
    /\ a + GcLimit > limit'
    /\ k > 0 => a <= limit'

\* Faulty variant of RaiseLimit: the loop is a single test.
RaiseLimitOnce(a) == limit' = IF a >= limit THEN limit + GcLimit ELSE limit

RaiseLimit(a) ==
  \E k \in 0..(a + 1) :
    /\ limit' = limit + k * GcLimit
    /\ a < limit'
    /\ k > 0 => a >= limit' - GcLimit

(***************************************************************************)
(* Control.                                                                *)
(***************************************************************************)
Idle ==
  /\ pc' = "idle"
  /\ phase' = "none"
  /\ req' = 0
  /\ pressure' = None
  /\ max_pressure' = None
  /\ rblock' = First

LoopsDone ==
  /\ fblock' = First
  /\ why' = "none"
  /\ prev' = First
  /\ current' = End

\* Faulty variant of FindPrev: always starts at the skip pointer.
FindPrevFromSkip(b, skip, w) ==
  /\ pc' = "find"
  /\ fblock' = b
  /\ why' = w
  /\ prev' = skip
  /\ current' = End

\* Entry of jmem_heap_find_prev (b): start at the skip pointer when b is behind it.
FindPrev(b, skip, w) ==
  /\ pc' = "find"
  /\ fblock' = b
  /\ why' = w
  /\ prev' = IF b > skip THEN skip ELSE First
  /\ current' = End

\* Entry of jmem_heap_gc_and_alloc_block with a as the allocated size: reclaim
\* first when the request would reach the limit.  The code compares the request
\* in bytes; where rounding up makes the difference, the collection that this
\* model starts and the code does not may free nothing.
GcAndAlloc(n, a, max) ==
  /\ max_pressure' = max
  /\ req' = n
  /\ IF a + n >= limit
       THEN pc' = "gc" /\ pressure' = Low
       ELSE pc' = "alloc" /\ pressure' = None

\* What follows once the n units at b are the caller's and the list is updated:
\* the caller of jmem_heap_alloc_block* has its block, jmem_heap_realloc_block
\* looks up the predecessor of the old block again.
AllocReturn(b) ==
  /\ blocks' = [blocks EXCEPT ![b] = req]
  /\ IF phase = "move"
       THEN /\ FindPrev(rblock, skip_p', "move")
            /\ UNCHANGED callVars
       ELSE Idle /\ LoopsDone

(***************************************************************************)
(* jmem_heap_alloc_block (max = Full) and                                  *)
(* jmem_heap_alloc_block_null_on_error (max = High).  A request of 0 bytes *)
(* returns NULL at once and is not an action.                              *)
(***************************************************************************)
AllocCall(n, max) ==
  /\ pc = "idle"
  /\ phase' = "alloc"
  /\ GcAndAlloc(n, allocated_size, max)
  /\ UNCHANGED <<heapVars, rblock, loopVars>>

\* ecma_free_unused_memory frees a block nobody needs any more.  The block that
\* is being reallocated is in use.
GcFree(b) ==
  /\ pc = "gc"
  /\ b # rblock
  /\ blocks[b] # 0
  /\ FindPrev(b, skip_p, "free")
  /\ UNCHANGED <<heapVars, callVars>>

\* It returns, to jmem_heap_realloc_block or to jmem_heap_gc_and_alloc_block.
GcEnd ==
  /\ pc = "gc"
  /\ IF phase = "grow"
       THEN FindPrev(rblock, skip_p, "grow")
       ELSE pc' = "alloc" /\ UNCHANGED loopVars
  /\ UNCHANGED <<heapVars, callVars>>

\* Faulty variant of AllocFast: the skip pointer is left alone.
AllocFastKeepsSkip ==
  LET data == next_offset[First]
  IN /\ pc = "alloc"
     /\ req = 1
     /\ data # End
     /\ Carve(First, data, 1)
     /\ allocated_size' = allocated_size + 1
     /\ limit' = IF allocated_size + 1 >= limit THEN limit + GcLimit ELSE limit
     /\ skip_p' = skip_p
     /\ AllocReturn(data)

\* jmem_heap_alloc, fast path: one unit is taken from the first region.
AllocFast ==
  LET data == next_offset[First]
  IN /\ pc = "alloc"
     /\ req = 1
     /\ data # End
     /\ Carve(First, data, 1)
     /\ allocated_size' = allocated_size + 1
     /\ limit' = IF allocated_size + 1 >= limit THEN limit + GcLimit ELSE limit
     /\ skip_p' = IF data = skip_p THEN next_offset'[First] ELSE skip_p
     /\ AllocReturn(data)

\* jmem_heap_alloc, slow path: the first-fit loop starts at the list head.
AllocSlow ==
  /\ pc = "alloc"
  /\ req # 1 \/ next_offset[First] = End
  /\ pc' = "walk"
  /\ prev' = First
  /\ current' = next_offset[First]
  /\ UNCHANGED <<heapVars, callVars, fblock, why>>

\* Faulty variant of WalkNext: a region of exactly the requested size is skipped.
WalkNextSkipsExact ==
  /\ pc = "walk"
  /\ current # End
  /\ size[current] <= req
  /\ prev' = current
  /\ current' = next_offset[current]
  /\ UNCHANGED <<heapVars, pc, callVars, fblock, why>>

WalkNext ==
  /\ pc = "walk"
  /\ current # End
  /\ size[current] < req
  /\ prev' = current
  /\ current' = next_offset[current]
  /\ UNCHANGED <<heapVars, pc, callVars, fblock, why>>

WalkFit ==
  /\ pc = "walk"
  /\ current # End
  /\ size[current] >= req
  /\ Carve(prev, current, req)
  /\ skip_p' = prev
  /\ allocated_size' = allocated_size + req
  /\ RaiseLimit(allocated_size + req)
  /\ AllocReturn(current)

\* Faulty variant of WalkFail: the retry does not raise the pressure.
WalkFailSamePressure ==
  /\ pc = "walk"
  /\ current = End
  /\ LoopsDone
  /\ IF pressure < max_pressure
       THEN /\ pc' = "gc"
            /\ UNCHANGED callVars
       ELSE Idle
  /\ UNCHANGED heapVars

\* No region fits: retry under a higher pressure (Full is jerry_fatal), or give
\* up and return NULL.
WalkFail ==
  /\ pc = "walk"
  /\ current = End
  /\ LoopsDone
  /\ IF pressure < max_pressure
       THEN /\ pressure' = pressure + 1
            /\ pc' = IF pressure + 1 = Full THEN "fatal" ELSE "gc"
            /\ UNCHANGED <<phase, req, max_pressure, rblock>>
       ELSE Idle
  /\ UNCHANGED heapVars

(***************************************************************************)
(* jmem_heap_find_prev and jmem_heap_free_block.                           *)
(***************************************************************************)
FindNext ==
  /\ pc = "find"
  /\ next_offset[prev] < fblock
  /\ prev' = next_offset[prev]
  /\ UNCHANGED <<heapVars, pc, callVars, fblock, why, current>>

\* The predecessor is found, and it was searched for w.
Found(w) ==
  /\ pc = "find"
  /\ why = w
  /\ next_offset[prev] >= fblock

FreeCall(b) ==
  /\ pc = "idle"
  /\ blocks[b] # 0
  /\ FindPrev(b, skip_p, "free")
  /\ UNCHANGED <<heapVars, callVars>>

\* The rest of jmem_heap_free_block_internal; inside a collection, that goes on.
FreeDone ==
  /\ Found("free")
  /\ InsertBlock(fblock, prev, blocks[fblock])
  /\ blocks' = [blocks EXCEPT ![fblock] = 0]
  /\ allocated_size' = allocated_size - blocks[fblock]
  /\ LowerLimit(allocated_size - blocks[fblock])
  /\ pc' = IF phase = "none" THEN "idle" ELSE "gc"
  /\ LoopsDone
  /\ UNCHANGED callVars

(***************************************************************************)
(* jmem_heap_realloc_block.  Equal sizes return at once (no action).       *)
(***************************************************************************)
ShrinkCall(b, n) ==
  /\ pc = "idle"
  /\ n < blocks[b]
  /\ req' = n
  /\ FindPrev(b, skip_p, "shrink")
  /\ UNCHANGED <<heapVars, phase, pressure, max_pressure, rblock>>

ShrinkDone ==
  LET freed == blocks[fblock] - req
  IN /\ Found("shrink")
     /\ InsertBlock(fblock + req, prev, freed)
     /\ blocks' = [blocks EXCEPT ![fblock] = req]
     /\ allocated_size' = allocated_size - freed
     /\ LowerLimit(allocated_size - freed)
     /\ Idle
     /\ LoopsDone

GrowCall(b, n) ==
  /\ pc = "idle"
  /\ blocks[b] # 0
  /\ n > blocks[b]
  /\ phase' = "grow"
  /\ rblock' = b
  /\ req' = n
  /\ IF allocated_size + (n - blocks[b]) >= limit
       THEN pc' = "gc" /\ pressure' = Low /\ UNCHANGED loopVars
       ELSE FindPrev(b, skip_p, "grow") /\ UNCHANGED pressure
  /\ UNCHANGED <<heapVars, max_pressure>>

\* required_size, and the free region after prev at the end of the block, if any.
Required == req - blocks[rblock]
AtEnd == rblock + blocks[rblock] = next_offset[prev]
AtFront == ~AtEnd /\ prev + size[prev] = rblock

\* The block could be extended: the skip pointer and the accounting.
Extended(newStart) ==
  /\ blocks' = [blocks EXCEPT ![rblock] = 0, ![newStart] = req]
  /\ allocated_size' = allocated_size + Required
  /\ RaiseLimit(allocated_size + Required)
  /\ Idle
  /\ LoopsDone

\* Faulty variant of ExtendEnd: a neighbour that is too small is taken, too.
ExtendEndUnchecked ==
  /\ Found("grow")
  /\ AtEnd
  /\ next_offset' = [next_offset EXCEPT ![prev] = next_offset[next_offset[prev]]]
  /\ size' = [size EXCEPT ![next_offset[prev]] = 0]
  /\ skip_p' = prev
  /\ Extended(rblock)

ExtendEnd ==
  /\ Found("grow")
  /\ AtEnd
  /\ Required <= size[next_offset[prev]]
  /\ Carve(prev, next_offset[prev], Required)
  /\ skip_p' = prev
  /\ Extended(rblock)

\* The region before the block is larger than what is needed: it shrinks.
ExtendFront ==
  /\ Found("grow")
  /\ AtFront
  /\ Required < size[prev]
  /\ size' = [size EXCEPT ![prev] = @ - Required]
  /\ skip_p' = prev
  /\ Extended(rblock - Required)
  /\ UNCHANGED next_offset

\* The region before the block is exactly what is needed: it must leave the list,
\* and for that its own predecessor is looked up.
ExtendFrontExact ==
  /\ Found("grow")
  /\ AtFront
  /\ Required = size[prev]
  /\ FindPrev(prev, skip_p, "front")
  /\ UNCHANGED <<heapVars, callVars>>

\* Faulty variant of FrontExactDone: the consumed region stays linked.
FrontExactDoneKeepsLink ==
  /\ Found("front")
  /\ next_offset' = [next_offset EXCEPT ![fblock] = End]
  /\ size' = [size EXCEPT ![fblock] = 0]
  /\ skip_p' = prev
  /\ Extended(fblock)

FrontExactDone ==
  /\ Found("front")
  /\ next_offset' = [next_offset EXCEPT ![prev] = next_offset[fblock],
                                        ![fblock] = End]
  /\ size' = [size EXCEPT ![fblock] = 0]
  /\ skip_p' = prev
  /\ Extended(fblock)

\* Faulty variant of GrowMove: the old size stays accounted for.
GrowMoveKeepsSize ==
  /\ Found("grow")
  /\ ~(AtEnd /\ Required <= size[next_offset[prev]])
  /\ ~(AtFront /\ Required <= size[prev])
  /\ allocated_size' = allocated_size
  /\ phase' = "move"
  /\ GcAndAlloc(req, allocated_size, Full)
  /\ LoopsDone
  /\ UNCHANGED <<next_offset, size, skip_p, limit, blocks, rblock>>

\* Neither neighbour is large enough: allocate a new block (which may collect).
GrowMove ==
  /\ Found("grow")
  /\ ~(AtEnd /\ Required <= size[next_offset[prev]])
  /\ ~(AtFront /\ Required <= size[prev])
  /\ allocated_size' = allocated_size - blocks[rblock]
  /\ phase' = "move"
  /\ GcAndAlloc(req, allocated_size - blocks[rblock], Full)
  /\ LoopsDone
  /\ UNCHANGED <<next_offset, size, skip_p, limit, blocks, rblock>>

\* The data is copied and the old block inserted; its size has been accounted for.
MoveDone ==
  /\ Found("move")
  /\ InsertBlock(rblock, prev, blocks[rblock])
  /\ blocks' = [blocks EXCEPT ![rblock] = 0]
  /\ Idle
  /\ LoopsDone
  /\ UNCHANGED <<allocated_size, limit>>

\* jerry_fatal (ERR_OUT_OF_MEMORY) ends the engine.
Terminated == pc = "fatal" /\ UNCHANGED vars

-----------------------------------------------------------------------------
Sizes == 1..HeapUnits

ClientCall ==
  \/ \E n \in Sizes, max \in {High, Full} : AllocCall(n, max)
  \/ \E b \in Area : FreeCall(b)
  \/ \E b \in Area, n \in Sizes : ShrinkCall(b, n) \/ GrowCall(b, n)

AllocStep == AllocFast \/ AllocSlow \/ WalkNext \/ WalkFit \/ WalkFail
FreeStep == FindNext \/ FreeDone
ReallocStep ==
  \/ ShrinkDone
  \/ ExtendEnd \/ ExtendFront \/ ExtendFrontExact \/ FrontExactDone
  \/ GrowMove \/ MoveDone
GcStep == GcEnd \/ \E b \in Area : GcFree(b)

\* A step of the call in progress.
CallStep == AllocStep \/ FreeStep \/ ReallocStep \/ GcStep

Next == ClientCall \/ CallStep \/ Terminated

Spec == Init /\ [][Next]_vars

\* A call that was made runs: the engine is one thread that does nothing else.
FairSpec == Spec /\ WF_vars(CallStep)

-----------------------------------------------------------------------------
(***************************************************************************)
(* Properties.                                                             *)
(***************************************************************************)

\* Every variable has a value the C declarations allow, and every pointer is the
\* address of a unit of the area, `first', or the end marker.
TypeOK ==
  /\ next_offset \in [Headers -> Area \cup {End}]
  /\ size \in [Headers -> 0..HeapUnits]
  /\ skip_p \in Headers \cup {End}
  /\ allocated_size \in Int
  /\ limit \in Nat
  /\ blocks \in [Area -> 0..HeapUnits]
  /\ pc \in {"idle", "gc", "alloc", "walk", "find", "fatal"}
  /\ phase \in {"none", "alloc", "grow", "move"}
  /\ req \in 0..HeapUnits
  /\ pressure \in None..Full
  /\ max_pressure \in {None, High, Full}
  /\ rblock \in Headers
  /\ fblock \in Headers
  /\ why \in {"none", "free", "shrink", "grow", "front", "move"}
  /\ prev \in Headers
  /\ current \in Area \cup {End}

\* The list that starts at `first' runs through exactly the free regions, in
\* address order, at every control point: jmem_heap_find_prev compares offsets
\* to stop and would run past its block in an unsorted list.
FreeListSorted ==
  \A p \in Heads :
    /\ next_offset[p] \in Regions \cup {End}
    /\ next_offset[p] > p
    /\ \A r \in Regions : r > p => r >= next_offset[p]

\* Two free regions never touch: jmem_heap_insert_block merges on both sides
\* whatever the order of the frees, including those a collection makes between
\* the two lookups of jmem_heap_realloc_block.
Coalesced == \A p \in Regions : p + size[p] # next_offset[p]

\* No unit is owned twice: blocks and free regions are pairwise disjoint and stay
\* inside the area.
NoOverlap ==
  /\ \A b \in Blocks : b + blocks[b] <= HeapUnits
  /\ \A r \in Regions : r + size[r] <= HeapUnits
  /\ \A b, c \in Blocks : b < c => b + blocks[b] <= c
  /\ \A r, s \in Regions : r < s => r + size[r] <= s
  /\ \A b \in Blocks, r \in Regions : b + blocks[b] <= r \/ r + size[r] <= b

\* No unit is lost: what the client does not own is in the free list.
NoLeak ==
  \A u \in Area \ Used : \E r \in Regions : u \in Extent(r, size[r])

\* The skip pointer is the end marker, `first' or a region of the list, never the
\* address of memory that was handed out (the fast path, merges and the realloc
\* of a block at the front of its neighbour all remove regions).
SkipPointerValid == skip_p \in Heads \cup {End}

\* jmem_heap_allocated_size is the number of units the client owns; while
\* jmem_heap_realloc_block moves a block, the old one is already taken off.
AllocatedSizeExact ==
  allocated_size + (IF phase = "move" THEN blocks[rblock] ELSE 0)
    = Cardinality(Used)

\* The limit is at or above the allocated size and at most one step above it;
\* with the assertions of jmem_heap_free_block_internal, also for the frees of a
\* collection that runs inside the moving realloc.
LimitTracksAllocation ==
  /\ pc = "idle" => /\ allocated_size <= limit
                    /\ limit <= allocated_size + GcLimit
  /\ pc = "find" /\ why = "free" => /\ limit >= allocated_size
                                    /\ allocated_size > 0

\* An allocation attempt fails only when the area has no run of that many
\* consecutive units outside the client's blocks.
FailsOnlyWhenFull ==
  pc = "walk" /\ current = End =>
    ~ \E b \in Area : Extent(b, req) \cap Used = {} /\ b + req <= HeapUnits

\* Every call returns or ends the engine: the list loops terminate and the
\* retries are bounded by the pressure.
CallsReturn == pc # "idle" ~> pc \in {"idle", "fatal"}

Promise == INSTANCE HeapPromise WITH Units <- HeapUnits

\* Whatever the free list does, and whatever a collection frees in the middle of
\* a call, the client sees the allocator of HeapPromise.
KeepsPromise == Promise!Spec
=============================================================================
