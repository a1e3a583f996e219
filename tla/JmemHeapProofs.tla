--------------------------- MODULE JmemHeapProofs ---------------------------
(***************************************************************************)
(* Proofs about JmemHeap, for every area size and every collection limit.  *)
(***************************************************************************)
EXTENDS JmemHeap, FiniteSetTheorems, TLAPS

\* The free list as a data structure: headers are typed, `first' is empty, the
\* list is sorted and complete, and no region reaches up to the next one.
ListOK ==
  /\ next_offset \in [Headers -> Area \cup {End}]
  /\ size \in [Headers -> 0..HeapUnits]
  /\ size[First] = 0
  /\ FreeListSorted
  /\ \A r \in Regions : /\ r + size[r] <= HeapUnits
                        /\ r + size[r] < next_offset[r]

\* The units of the free regions.
FreeUnits == {u \in Area : \E r \in Regions : u \in Extent(r, size[r])}

\* The client's blocks lie in the area and are pairwise disjoint.
BlocksOK ==
  /\ blocks \in [Area -> 0..HeapUnits]
  /\ \A b \in Blocks : b + blocks[b] <= HeapUnits
  /\ \A b, c \in Blocks : b < c => b + blocks[b] <= c

\* Every unit is either the client's or free.
Partition == FreeUnits = Area \ Used

\* What jmem_heap_find_prev knows: it stands on a header before its argument, and
\* its argument is what the caller passed, still unchanged by collections.
FindOK ==
  /\ fblock \in Area /\ prev \in Heads /\ prev < fblock
  /\ why # "none"
  /\ why = "free" => fblock \in Blocks /\ fblock # rblock
  /\ why = "shrink" => /\ phase = "none" /\ fblock \in Blocks
                       /\ req \in 1..(blocks[fblock] - 1)
  /\ why = "grow" => phase = "grow" /\ fblock = rblock
  /\ why = "move" => phase = "move" /\ fblock = rblock
  /\ why = "front" => /\ phase = "grow" /\ fblock \in Regions
                      /\ fblock + size[fblock] = rblock
                      /\ size[fblock] = req - blocks[rblock]

\* What the first-fit loop knows: every region it has passed is too small.
WalkOK ==
  /\ prev \in Heads
  /\ current = next_offset[prev]
  /\ \A r \in Regions : r <= prev => size[r] < req

\* The calls in progress.  The allocation of a move never returns NULL.
Control ==
  /\ phase \in {"none", "alloc"} => rblock = First
  /\ phase \in {"grow", "move"} => rblock \in Blocks /\ blocks[rblock] < req
  /\ phase # "none" => req > 0
  /\ phase = "move" /\ pc # "fatal" => max_pressure = Full /\ pressure < Full
  /\ pc = "idle" => phase = "none"
  /\ pc \in {"gc", "alloc", "walk"} => phase # "none"
  /\ pc \in {"alloc", "walk"} => phase # "grow"
  /\ pc = "walk" => WalkOK
  /\ pc = "find" => FindOK

\* While a block is moved its old size is missing from allocated_size, and the
\* limit may be that much further away until the new block is accounted for.
LimitOK ==
  /\ allocated_size <= limit
  /\ limit <= allocated_size + GcLimit
               + (IF phase = "move" /\ ~(pc = "find" /\ why = "move")
                    THEN blocks[rblock] ELSE 0)

\* The inductive invariant.
HeapInv == /\ TypeOK /\ ListOK /\ BlocksOK /\ Partition
           /\ SkipPointerValid /\ Control
           /\ AllocatedSizeExact /\ LimitOK

\* Taking units from the front of a region leaves a well-formed list in which
\* only that region has changed (Carve, the splits of jmem_heap_alloc and of the
\* extension at the end in jmem_heap_realloc_block).
LEMMA CarveList ==
  ASSUME ListOK,
         NEW p \in Heads, NEW r \in Regions, next_offset[p] = r,
         NEW n \in 1..size[r],
         Carve(p, r, n)
  PROVE  /\ ListOK'
         /\ n = size[r] => /\ Regions' = Regions \ {r}
                           /\ size' = [size EXCEPT ![r] = 0]
         /\ n # size[r] => /\ Regions' = (Regions \ {r}) \cup {r + n}
                           /\ size' = [size EXCEPT ![r] = 0, ![r + n] = size[r] - n]
         /\ Extent(r, n) \subseteq FreeUnits
         /\ FreeUnits' = FreeUnits \ Extent(r, n)
<1> USE HeapUnitsAssumption
<1>0. /\ r \in Area /\ size[r] \in 1..HeapUnits /\ r + size[r] <= HeapUnits
      /\ p < r /\ p \in Headers
  BY DEF ListOK, FreeListSorted, Regions, Heads, Headers, Area, First
<1>1. ASSUME n = size[r]
      PROVE  /\ ListOK'
             /\ Regions' = Regions \ {r}
             /\ size' = [size EXCEPT ![r] = 0]
  <2>1. /\ next_offset' = [next_offset EXCEPT ![p] = next_offset[r], ![r] = End]
        /\ size' = [size EXCEPT ![r] = 0]
    BY <1>1 DEF Carve
  <2>2. Regions' = Regions \ {r}
    BY <2>1, <1>0 DEF ListOK, Regions, Headers
  <2>3. ListOK'
    <3>1. /\ next_offset' \in [Headers -> Area \cup {End}]
          /\ size' \in [Headers -> 0..HeapUnits]
          /\ size'[First] = 0
      BY <2>1, <1>0 DEF ListOK, Headers, Area, First, End
    <3>2. FreeListSorted'
      BY <2>1, <2>2, <1>0 DEF ListOK, FreeListSorted, Heads, Headers, Area, First, End, Regions
    <3>3. (\A s \in Regions : s + size[s] <= HeapUnits /\ s + size[s] < next_offset[s])'
      BY <2>1, <2>2, <1>0 DEF ListOK, FreeListSorted, Heads, Headers, Area, First, End, Regions
    <3> QED BY <3>1, <3>2, <3>3 DEF ListOK
  <2> QED BY <2>1, <2>2, <2>3, <1>1
<1>2. ASSUME n # size[r]
      PROVE  /\ ListOK'
             /\ Regions' = (Regions \ {r}) \cup {r + n}
             /\ size' = [size EXCEPT ![r] = 0, ![r + n] = size[r] - n]
  <2>1. /\ next_offset' = [next_offset EXCEPT ![p] = r + n, ![r] = End,
                                              ![r + n] = next_offset[r]]
        /\ size' = [size EXCEPT ![r] = 0, ![r + n] = size[r] - n]
    BY <1>2 DEF Carve
  <2>0. r + n \in Area /\ r + n \notin Regions /\ r + n < next_offset[r]
    BY <1>0, <1>2 DEF ListOK, FreeListSorted, Heads, Headers, Area, First, End, Regions
  <2>2. Regions' = (Regions \ {r}) \cup {r + n}
    BY <2>1, <2>0, <1>0, <1>2 DEF ListOK, Regions, Headers
  <2>3. ListOK'
    <3>1. /\ next_offset' \in [Headers -> Area \cup {End}]
          /\ size' \in [Headers -> 0..HeapUnits]
          /\ size'[First] = 0
      BY <2>1, <1>0, <2>0, <1>2 DEF ListOK, Headers, Area, First, End
    <3>2. FreeListSorted'
      <4> SUFFICES ASSUME NEW q \in (Regions \ {r}) \cup {r + n, First}
                   PROVE  /\ next_offset'[q] \in (Regions \ {r}) \cup {r + n, End}
                          /\ next_offset'[q] > q
                          /\ \A s \in (Regions \ {r}) \cup {r + n} :
                               s > q => s >= next_offset'[q]
        BY <2>2 DEF FreeListSorted, Heads
      <4>1. CASE q = p
        BY <4>1, <2>1, <1>0, <2>0 DEF ListOK, FreeListSorted, Heads, Headers, Area, First, End, Regions
      <4>2. CASE q = r + n
        BY <4>2, <2>1, <1>0, <2>0 DEF ListOK, FreeListSorted, Heads, Headers, Area, First, End, Regions
      <4>3. CASE q # p /\ q # r + n
        <5>1. q \in Heads /\ q # r /\ next_offset'[q] = next_offset[q]
          BY <4>3, <2>1, <1>0, <2>0 DEF ListOK, Heads, Headers, Area, First, Regions
        <5>2. next_offset[q] # r
          BY <5>1, <4>3, <1>0 DEF ListOK, FreeListSorted, Heads, Headers, Area, First, End, Regions
        <5> QED
          BY <5>1, <5>2, <1>0, <2>0 DEF ListOK, FreeListSorted, Heads, Headers, Area, First, End, Regions
      <4> QED BY <4>1, <4>2, <4>3
    <3>3. (\A s \in Regions : s + size[s] <= HeapUnits /\ s + size[s] < next_offset[s])'
      BY <2>1, <2>2, <1>0, <2>0 DEF ListOK, FreeListSorted, Heads, Headers, Area, First, End, Regions
    <3> QED BY <3>1, <3>2, <3>3 DEF ListOK
  <2> QED BY <2>1, <2>2, <2>3, <1>2
<1>3. Extent(r, n) \subseteq FreeUnits
  BY <1>0 DEF Extent, FreeUnits, Area, Regions
<1>4. \A s \in Regions : s # r => s + size[s] <= r \/ s >= r + size[r]
  BY <1>0 DEF ListOK, FreeListSorted, Heads, Headers, Area, First, End, Regions
<1>5. FreeUnits' = FreeUnits \ Extent(r, n)
  <2>1. ASSUME NEW u \in FreeUnits', u \notin FreeUnits \ Extent(r, n) PROVE FALSE
    BY <2>1, <1>0, <1>1, <1>2, <1>4 DEF Extent, FreeUnits, Area, Regions, ListOK, Headers
  <2>2. ASSUME NEW u \in FreeUnits, u \notin Extent(r, n) PROVE u \in FreeUnits'
    BY <2>2, <1>0, <1>1, <1>2, <1>4 DEF Extent, FreeUnits, Area, Regions, ListOK, Headers
  <2> QED BY <2>1, <2>2
<1> QED BY <1>1, <1>2, <1>3, <1>5

\* Inserting units that belong to no region leaves a well-formed list that has
\* exactly these units more; the predecessor stays in it, so the skip pointer that
\* jmem_heap_insert_block leaves is valid.
LEMMA InsertList ==
  ASSUME ListOK,
         NEW p \in Heads, NEW b \in Area, NEW n \in 1..HeapUnits,
         p < b, p + size[p] <= b, b + n <= HeapUnits, b + n <= next_offset[p],
         InsertBlock(b, p, n)
  PROVE  /\ ListOK'
         /\ p \in Heads'
         /\ FreeUnits' = FreeUnits \cup Extent(b, n)
<1> USE HeapUnitsAssumption
<1> DEFINE nxt == next_offset[p]
           Sorted(N, R) == \A q \in R \cup {First} :
                             /\ N[q] \in R \cup {End}
                             /\ N[q] > q
                             /\ \A s \in R : s > q => s >= N[q]
           Apart(N, S, R) == \A r \in R : /\ r + S[r] <= HeapUnits
                                          /\ r + S[r] < N[r]
<1>0. /\ p \in Headers /\ nxt \in Regions \cup {End} /\ b \notin Regions
      /\ nxt # End => nxt + size[nxt] <= HeapUnits /\ size[nxt] \in 1..HeapUnits
      /\ size[p] \in 0..HeapUnits
      /\ b \in Headers /\ nxt \in Int /\ p \in Int
      /\ p = First \/ p \in Regions
  BY DEF ListOK, FreeListSorted, Regions, Heads, Headers, Area, First, End
<1>a. \A q \in Heads : q # p => next_offset[q] # nxt \/ nxt = End
  BY <1>0 DEF ListOK, FreeListSorted, Regions, Heads, Headers, Area, First, End
<1>b. \A s \in Regions : s <= p \/ s >= nxt
  BY <1>0 DEF ListOK, FreeListSorted, Regions, Heads, Headers, Area, First, End
<1>1. CASE p + size[p] = b /\ b + n = nxt
  <2>1. /\ next_offset' = [next_offset EXCEPT ![p] = next_offset[nxt], ![nxt] = End]
        /\ size' = [size EXCEPT ![p] = size[p] + n + size[nxt], ![nxt] = 0]
    BY <1>1, <1>0 DEF InsertBlock, ListOK, Headers, Regions, Area, First, End
  <2>2. nxt \in Regions /\ p \in Regions /\ p # nxt
    BY <1>1, <1>0 DEF ListOK, Heads, End, First, Area, Regions
  <2>3. Regions' = Regions \ {nxt}
    BY <2>1, <2>2, <1>0 DEF ListOK, Regions, Headers, Area
  <2>a. /\ next_offset[nxt] \in Area \cup {End}
        /\ size[p] + n + size[nxt] \in 0..HeapUnits
        /\ nxt \in Headers /\ p # First /\ nxt # First
    BY <2>2, <1>0, <1>1 DEF ListOK, Headers, Area, First, End, Regions
  <2>4. /\ next_offset' \in [Headers -> Area \cup {End}]
        /\ size' \in [Headers -> 0..HeapUnits] /\ size'[First] = 0
    BY <2>1, <2>a, <1>0 DEF ListOK, Headers
  <2>b. /\ next_offset[nxt] \in (Regions \ {nxt}) \cup {End}
        /\ next_offset[nxt] > nxt
        /\ \A s \in Regions : s > nxt => s >= next_offset[nxt]
    BY <2>2 DEF ListOK, FreeListSorted, Heads, Headers, Area, First, End, Regions
  <2>5. Sorted(next_offset', Regions \ {nxt})
    <3> SUFFICES ASSUME NEW q \in (Regions \ {nxt}) \cup {First}
                 PROVE  /\ next_offset'[q] \in (Regions \ {nxt}) \cup {End}
                        /\ next_offset'[q] > q
                        /\ \A s \in Regions \ {nxt} : s > q => s >= next_offset'[q]
      OBVIOUS
    <3>1. CASE q = p
      <4>1. next_offset'[q] = next_offset[nxt]
        BY <3>1, <2>1, <2>2, <1>0 DEF ListOK
      <4> QED
        BY <4>1, <3>1, <2>b, <1>0, <1>b, <2>2 DEF Regions, Area, End
    <3>2. CASE q # p
      <4>1. q \in Heads /\ next_offset'[q] = next_offset[q] /\ next_offset[q] # nxt
        BY <3>2, <2>1, <2>2, <1>0, <1>a DEF ListOK, Heads, Headers, Area, First, End, Regions
      <4> QED
        BY <4>1 DEF ListOK, FreeListSorted, Heads
    <3> QED BY <3>1, <3>2
  <2>6. Apart(next_offset', size', Regions \ {nxt})
    <3> SUFFICES ASSUME NEW q \in Regions \ {nxt}
                 PROVE  q + size'[q] <= HeapUnits /\ q + size'[q] < next_offset'[q]
      OBVIOUS
    <3>1. CASE q = p
      <4>1. next_offset'[q] = next_offset[nxt] /\ size'[q] = size[p] + n + size[nxt]
        BY <3>1, <2>1, <2>2, <1>0 DEF ListOK
      <4>2. nxt + size[nxt] < next_offset[nxt] /\ nxt + size[nxt] <= HeapUnits
        BY <2>2 DEF ListOK
      <4> QED
        BY <4>1, <4>2, <3>1, <1>1, <1>0, <2>a DEF Area, End
    <3>2. CASE q # p
      <4>1. next_offset'[q] = next_offset[q] /\ size'[q] = size[q]
        BY <3>2, <2>1, <2>2, <1>0 DEF ListOK, Headers, Regions
      <4> QED
        BY <4>1 DEF ListOK
    <3> QED BY <3>1, <3>2
  <2>7. FreeUnits' = FreeUnits \cup Extent(b, n)
    <3>1. ASSUME NEW u \in FreeUnits' PROVE u \in FreeUnits \cup Extent(b, n)
      BY <3>1, <2>1, <2>2, <2>3, <1>0, <1>1 DEF Extent, FreeUnits, Area, Regions, ListOK, Headers
    <3>2. ASSUME NEW u \in FreeUnits \cup Extent(b, n) PROVE u \in FreeUnits'
      BY <3>2, <2>1, <2>2, <2>3, <1>0, <1>1 DEF Extent, FreeUnits, Area, Regions, ListOK, Headers
    <3> QED BY <3>1, <3>2
  <2> QED BY <2>2, <2>3, <2>4, <2>5, <2>6, <2>7 DEF ListOK, FreeListSorted, Heads
<1>2. CASE p + size[p] = b /\ b + n # nxt
  <2>0. /\ next_offset' = [next_offset EXCEPT ![p] = nxt]
        /\ size' = [size EXCEPT ![p] = size[p] + n]
    BY <1>2, <1>0 DEF InsertBlock, Area
  <2>1. /\ next_offset' = next_offset
        /\ size' = [size EXCEPT ![p] = size[p] + n]
    BY <2>0 DEF ListOK
  <2>2. p \in Regions
    BY <1>2, <1>0 DEF ListOK, Heads, First, Area
  <2>3. Regions' = Regions
    BY <2>1, <2>2, <1>0 DEF ListOK, Regions, Headers, Area
  <2>4. /\ next_offset' \in [Headers -> Area \cup {End}]
        /\ size' \in [Headers -> 0..HeapUnits] /\ size'[First] = 0
    BY <2>1, <2>2, <1>0, <1>2 DEF ListOK, Headers, Area, First, End, Regions
  <2>5. Sorted(next_offset', Regions)
    BY <2>1 DEF ListOK, FreeListSorted, Heads
  <2>6. Apart(next_offset', size', Regions)
    <3>1. p + size'[p] <= HeapUnits /\ p + size'[p] < next_offset'[p]
      BY <2>1, <1>0, <1>2 DEF ListOK, Area, End
    <3>2. \A q \in Regions : q # p => size'[q] = size[q]
      BY <2>1, <1>0 DEF ListOK, Headers, Regions
    <3> QED BY <3>1, <3>2, <2>1 DEF ListOK
  <2>7. FreeUnits' = FreeUnits \cup Extent(b, n)
    <3>1. ASSUME NEW u \in FreeUnits' PROVE u \in FreeUnits \cup Extent(b, n)
      BY <3>1, <2>1, <2>2, <2>3, <1>0, <1>2 DEF Extent, FreeUnits, Area, Regions, ListOK, Headers
    <3>2. ASSUME NEW u \in FreeUnits \cup Extent(b, n) PROVE u \in FreeUnits'
      BY <3>2, <2>1, <2>2, <2>3, <1>0, <1>2 DEF Extent, FreeUnits, Area, Regions, ListOK, Headers
    <3> QED BY <3>1, <3>2
  <2> QED BY <2>2, <2>3, <2>4, <2>5, <2>6, <2>7 DEF ListOK, FreeListSorted, Heads
<1>3. CASE p + size[p] # b /\ b + n = nxt
  <2>1. /\ next_offset' = [next_offset EXCEPT ![p] = b, ![b] = next_offset[nxt], ![nxt] = End]
        /\ size' = [size EXCEPT ![b] = n + size[nxt], ![nxt] = 0]
    BY <1>3, <1>0 DEF InsertBlock, ListOK, Headers, Regions, Area, First, End
  <2>2. nxt \in Regions /\ p # nxt /\ b # nxt
    BY <1>3, <1>0 DEF ListOK, Heads, End, First, Area, Regions
  <2>3. Regions' = (Regions \ {nxt}) \cup {b}
    BY <2>1, <2>2, <1>0 DEF ListOK, Regions, Headers, Area
  <2>a. /\ next_offset[nxt] \in Area \cup {End}
        /\ n + size[nxt] \in 0..HeapUnits
        /\ nxt \in Headers /\ b # First /\ nxt # First
    BY <2>2, <1>0, <1>3 DEF ListOK, Headers, Area, First, End, Regions
  <2>b. /\ next_offset[nxt] \in (Regions \ {nxt}) \cup {End}
        /\ next_offset[nxt] > nxt
        /\ \A s \in Regions : s > nxt => s >= next_offset[nxt]
    BY <2>2 DEF ListOK, FreeListSorted, Heads, Headers, Area, First, End, Regions
  <2>4. /\ next_offset' \in [Headers -> Area \cup {End}]
        /\ size' \in [Headers -> 0..HeapUnits] /\ size'[First] = 0
    BY <2>1, <2>a, <1>0 DEF ListOK, Headers
  <2>5. Sorted(next_offset', (Regions \ {nxt}) \cup {b})
    <3> SUFFICES ASSUME NEW q \in ((Regions \ {nxt}) \cup {b}) \cup {First}
                 PROVE  /\ next_offset'[q] \in ((Regions \ {nxt}) \cup {b}) \cup {End}
                        /\ next_offset'[q] > q
                        /\ \A s \in (Regions \ {nxt}) \cup {b} : s > q => s >= next_offset'[q]
      OBVIOUS
    <3>1. CASE q = p
      BY <3>1, <2>1, <2>2, <1>0, <1>b, <1>3 DEF ListOK, FreeListSorted, Heads, Headers, Area, First, End, Regions
    <3>2. CASE q = b
      <4>1. next_offset'[q] = next_offset[nxt]
        BY <3>2, <2>1, <2>2, <1>0 DEF ListOK, Area
      <4> QED
        BY <4>1, <3>2, <2>b, <2>2, <1>0, <1>b, <1>3 DEF Regions, Area, End
    <3>3. CASE q # p /\ q # b
      <4>1. q \in Heads /\ next_offset'[q] = next_offset[q] /\ next_offset[q] # nxt
        BY <3>3, <2>1, <2>2, <1>0, <1>a DEF ListOK, Heads, Headers, Area, First, End, Regions
      <4>2. q < p \/ q > nxt
        <5>1. q = First => q < p
          BY <3>3, <1>0 DEF First, Area, Regions
        <5>2. q # First => q \in Regions /\ q # nxt
          BY <3>3
        <5> QED BY <5>1, <5>2, <1>b, <3>3, <1>0 DEF Regions, Area
      <4>3. q < p => next_offset[q] <= p
        BY <4>1, <1>0 DEF ListOK, FreeListSorted, Heads, Headers, Area, First, End, Regions
      <4> QED
        BY <4>1, <4>2, <4>3, <3>3, <1>0, <1>3 DEF ListOK, FreeListSorted, Heads, Headers, Area, First, End, Regions
    <3> QED BY <3>1, <3>2, <3>3
  <2>6. Apart(next_offset', size', (Regions \ {nxt}) \cup {b})
    <3>1. b + size'[b] <= HeapUnits /\ b + size'[b] < next_offset'[b]
      <4>1. next_offset'[b] = next_offset[nxt] /\ size'[b] = n + size[nxt]
        BY <2>1, <2>2, <1>0 DEF ListOK, Area
      <4>2. nxt + size[nxt] < next_offset[nxt] /\ nxt + size[nxt] <= HeapUnits
        BY <2>2 DEF ListOK
      <4> QED
        BY <4>1, <4>2, <1>3, <1>0, <2>a DEF Area, End
    <3>2. p \in Regions => p + size'[p] <= HeapUnits /\ p + size'[p] < next_offset'[p]
      BY <2>1, <2>2, <1>0, <1>3 DEF ListOK, Area, End, Headers
    <3>3. \A q \in Regions \ {nxt} : q # p => /\ size'[q] = size[q]
                                             /\ next_offset'[q] = next_offset[q]
      BY <2>1, <2>2, <1>0 DEF ListOK, Headers, Regions
    <3> QED BY <3>1, <3>2, <3>3 DEF ListOK
  <2>7. FreeUnits' = FreeUnits \cup Extent(b, n)
    <3>1. ASSUME NEW u \in FreeUnits' PROVE u \in FreeUnits \cup Extent(b, n)
      BY <3>1, <2>1, <2>2, <2>3, <1>0, <1>3 DEF Extent, FreeUnits, Area, Regions, ListOK, Headers
    <3>2. ASSUME NEW u \in FreeUnits \cup Extent(b, n) PROVE u \in FreeUnits'
      BY <3>2, <2>1, <2>2, <2>3, <1>0, <1>3 DEF Extent, FreeUnits, Area, Regions, ListOK, Headers
    <3> QED BY <3>1, <3>2
  <2> QED BY <1>0, <2>2, <2>3, <2>4, <2>5, <2>6, <2>7 DEF ListOK, FreeListSorted, Heads
<1>4. CASE p + size[p] # b /\ b + n # nxt
  <2>1. /\ next_offset' = [next_offset EXCEPT ![p] = b, ![b] = nxt]
        /\ size' = [size EXCEPT ![b] = n]
    BY <1>4, <1>0 DEF InsertBlock, ListOK, Headers, Regions, Area, First, End
  <2>3. Regions' = Regions \cup {b}
    BY <2>1, <1>0 DEF ListOK, Regions, Headers, Area
  <2>4. /\ next_offset' \in [Headers -> Area \cup {End}]
        /\ size' \in [Headers -> 0..HeapUnits] /\ size'[First] = 0
    BY <2>1, <1>0, <1>4 DEF ListOK, Headers, Area, First, End, Regions
  <2>5. Sorted(next_offset', Regions \cup {b})
    <3> SUFFICES ASSUME NEW q \in (Regions \cup {b}) \cup {First}
                 PROVE  /\ next_offset'[q] \in (Regions \cup {b}) \cup {End}
                        /\ next_offset'[q] > q
                        /\ \A s \in Regions \cup {b} : s > q => s >= next_offset'[q]
      OBVIOUS
    <3>1. CASE q = p
      BY <3>1, <2>1, <1>0, <1>b, <1>4 DEF ListOK, FreeListSorted, Heads, Headers, Area, First, End, Regions
    <3>2. CASE q = b
      BY <3>2, <2>1, <1>0, <1>b, <1>4 DEF ListOK, FreeListSorted, Heads, Headers, Area, First, End, Regions
    <3>3. CASE q # p /\ q # b
      <4>1. q \in Heads /\ next_offset'[q] = next_offset[q]
        BY <3>3, <2>1, <1>0, <1>a DEF ListOK, Heads, Headers, Area, First, End, Regions
      <4>2. q < p \/ q >= nxt
        BY <4>1, <1>b, <3>3, <1>0 DEF ListOK, Heads, Headers, Area, First, End, Regions
      <4>3. q < p => next_offset[q] <= p
        BY <4>1, <1>0 DEF ListOK, FreeListSorted, Heads, Headers, Area, First, End, Regions
      <4> QED
        BY <4>1, <4>2, <4>3, <3>3, <1>0, <1>4 DEF ListOK, FreeListSorted, Heads, Headers, Area, First, End, Regions
    <3> QED BY <3>1, <3>2, <3>3
  <2>6. Apart(next_offset', size', Regions \cup {b})
    <3>1. b + size'[b] <= HeapUnits /\ b + size'[b] < next_offset'[b]
      BY <2>1, <1>0, <1>4 DEF ListOK, Area, End
    <3>2. p \in Regions => p + size'[p] <= HeapUnits /\ p + size'[p] < next_offset'[p]
      <4>1. next_offset'[p] = b /\ size'[p] = size[p]
        BY <2>1, <1>0 DEF ListOK, Area
      <4> QED BY <4>1, <1>0, <1>4 DEF Area
    <3>3. \A q \in Regions : q # p => /\ size'[q] = size[q]
                                     /\ next_offset'[q] = next_offset[q]
      BY <2>1, <1>0 DEF ListOK, Headers, Regions
    <3> QED BY <3>1, <3>2, <3>3 DEF ListOK
  <2>7. FreeUnits' = FreeUnits \cup Extent(b, n)
    <3>1. ASSUME NEW u \in FreeUnits' PROVE u \in FreeUnits \cup Extent(b, n)
      BY <3>1, <2>1, <2>3, <1>0, <1>4 DEF Extent, FreeUnits, Area, Regions, ListOK, Headers
    <3>2. ASSUME NEW u \in FreeUnits \cup Extent(b, n) PROVE u \in FreeUnits'
      BY <3>2, <2>1, <2>3, <1>0, <1>4 DEF Extent, FreeUnits, Area, Regions, ListOK, Headers
    <3> QED BY <3>1, <3>2
  <2> QED BY <1>0, <2>3, <2>4, <2>5, <2>6, <2>7 DEF ListOK, FreeListSorted, Heads
<1> QED BY <1>1, <1>2, <1>3, <1>4

\* A region that loses its last n units (the partial extension at the front).
LEMMA TrimList ==
  ASSUME ListOK,
         NEW r \in Regions, NEW n \in 1..(size[r] - 1),
         next_offset' = next_offset,
         size' = [size EXCEPT ![r] = size[r] - n]
  PROVE  /\ ListOK'
         /\ Regions' = Regions
         /\ Extent(r + size[r] - n, n) \subseteq FreeUnits
         /\ FreeUnits' = FreeUnits \ Extent(r + size[r] - n, n)
<1> USE HeapUnitsAssumption
<1>0. /\ r \in Area /\ size[r] \in 1..HeapUnits /\ r + size[r] <= HeapUnits
      /\ r \in Headers /\ r # First
  BY DEF ListOK, Regions, Headers, Area, First
<1>1. Regions' = Regions
  BY <1>0 DEF ListOK, Regions, Headers
<1>2. \A s \in Regions : s # r => size'[s] = size[s]
  BY <1>0 DEF ListOK, Regions, Headers
<1>3. size'[r] = size[r] - n
  BY <1>0 DEF ListOK
<1>4. ListOK'
  <2>1. size' \in [Headers -> 0..HeapUnits] /\ size'[First] = 0
    BY <1>0 DEF ListOK, Headers
  <2>2. FreeListSorted'
    BY <1>1 DEF ListOK, FreeListSorted, Heads
  <2>3. \A s \in Regions : s + size'[s] <= HeapUnits /\ s + size'[s] < next_offset[s]
    BY <1>0, <1>2, <1>3 DEF ListOK, Area, End, Headers
  <2> QED BY <2>1, <2>2, <2>3, <1>1 DEF ListOK
<1>5. Extent(r + size[r] - n, n) \subseteq FreeUnits
  BY <1>0 DEF Extent, FreeUnits, Area, Regions
<1>6. \A s \in Regions : s # r => s + size[s] <= r \/ s >= r + size[r]
  BY <1>0 DEF ListOK, FreeListSorted, Heads, Headers, Area, First, End, Regions
<1>7. FreeUnits' = FreeUnits \ Extent(r + size[r] - n, n)
  <2>1. ASSUME NEW u \in FreeUnits', u \notin FreeUnits \ Extent(r + size[r] - n, n)
        PROVE FALSE
    BY <2>1, <1>0, <1>1, <1>2, <1>3, <1>6 DEF Extent, FreeUnits, Area, Regions, ListOK, Headers
  <2>2. ASSUME NEW u \in FreeUnits, u \notin Extent(r + size[r] - n, n)
        PROVE u \in FreeUnits'
    BY <2>2, <1>0, <1>1, <1>2, <1>3, <1>6 DEF Extent, FreeUnits, Area, Regions, ListOK, Headers
  <2> QED BY <2>1, <2>2
<1> QED BY <1>1, <1>4, <1>5, <1>7

(***************************************************************************)
(* What the client owns.                                                   *)
(***************************************************************************)

\* The units of a block are used.
LEMMA BlockUnits ==
  ASSUME BlocksOK, NEW b \in Blocks
  PROVE  /\ b \in Area /\ blocks[b] \in 1..HeapUnits /\ b + blocks[b] <= HeapUnits
         /\ Extent(b, blocks[b]) \subseteq Used
<1>1. b \in Area /\ blocks[b] \in 1..HeapUnits /\ b + blocks[b] <= HeapUnits
  BY HeapUnitsAssumption DEF BlocksOK, Blocks, Area
<1>2. Extent(b, blocks[b]) \subseteq Area
  BY <1>1, HeapUnitsAssumption DEF Extent, Area
<1> QED BY <1>1, <1>2 DEF Used

\* A new block of units nobody owns.
LEMMA GrantBlock ==
  ASSUME BlocksOK, NEW b \in Area, NEW n \in 1..HeapUnits, b + n <= HeapUnits,
         Extent(b, n) \cap Used = {},
         blocks' = [blocks EXCEPT ![b] = n]
  PROVE  /\ BlocksOK'
         /\ Used' = Used \cup Extent(b, n)
         /\ Blocks' = Blocks \cup {b}
         /\ b \notin Blocks
<1> USE HeapUnitsAssumption
<1>0. \A c \in Blocks : /\ c \in Area /\ blocks[c] \in 1..HeapUnits
                       /\ \A u \in Extent(b, n) : u \notin Extent(c, blocks[c])
  BY BlockUnits
<1>1. b \notin Blocks
  BY <1>0 DEF Extent, Area
<1>2. Blocks' = Blocks \cup {b}
  BY DEF BlocksOK, Blocks
<1>3. \A c \in Blocks : c < b => c + blocks[c] <= b
  BY <1>0 DEF Extent, Area
<1>4. \A c \in Blocks : b < c => b + n <= c
  <2> SUFFICES ASSUME NEW c \in Blocks, b < c, c < b + n PROVE FALSE
    BY <1>0 DEF Area
  <2>1. c \in Extent(b, n) /\ c \in Extent(c, blocks[c])
    BY <1>0 DEF Extent, Area
  <2> QED BY <2>1, <1>0
<1>5. BlocksOK'
  BY <1>1, <1>2, <1>3, <1>4 DEF BlocksOK, Blocks, Area
<1>6. Used' = Used \cup Extent(b, n)
  <2>1. ASSUME NEW u \in Used' PROVE u \in Used \cup Extent(b, n)
    BY <2>1 DEF BlocksOK, Used, Extent, Area
  <2>2. ASSUME NEW u \in Used \cup Extent(b, n) PROVE u \in Used'
    BY <2>2, <1>1 DEF BlocksOK, Used, Extent, Area, Blocks
  <2> QED BY <2>1, <2>2
<1> QED BY <1>1, <1>2, <1>5, <1>6

\* A block keeps its first n units, or none (n = 0).
LEMMA CutBlock ==
  ASSUME BlocksOK, NEW b \in Blocks, NEW n \in 0..(blocks[b] - 1),
         blocks' = [blocks EXCEPT ![b] = n]
  PROVE  /\ BlocksOK'
         /\ Used' = Used \ Extent(b + n, blocks[b] - n)
         /\ Extent(b + n, blocks[b] - n) \subseteq Used
         /\ Blocks' = IF n = 0 THEN Blocks \ {b} ELSE Blocks
<1> USE HeapUnitsAssumption
<1>0. b \in Area /\ blocks[b] \in 1..HeapUnits /\ b + blocks[b] <= HeapUnits
  BY DEF BlocksOK, Blocks
<1>1. Blocks' = IF n = 0 THEN Blocks \ {b} ELSE Blocks
  BY <1>0 DEF BlocksOK, Blocks
<1>2. BlocksOK'
  <2>1. blocks' \in [Area -> 0..HeapUnits]
    BY <1>0 DEF BlocksOK
  <2>2. \A c \in Blocks' : c \in Blocks /\ blocks'[c] <= blocks[c]
    BY <1>0, <1>1 DEF BlocksOK, Blocks
  <2> QED BY <2>1, <2>2 DEF BlocksOK, Blocks, Area
<1>3. \A c \in Blocks : c # b => c + blocks[c] <= b \/ b + blocks[b] <= c
  BY <1>0 DEF BlocksOK, Blocks, Area
<1>4. Extent(b + n, blocks[b] - n) \subseteq Used
  BY <1>0 DEF Used, Extent, Area
<1>5. Used' = Used \ Extent(b + n, blocks[b] - n)
  <2>1. ASSUME NEW u \in Used' PROVE u \in Used \ Extent(b + n, blocks[b] - n)
    <3>1. PICK c \in Area : u \in Extent(c, blocks'[c])
      BY DEF Used
    <3>2. CASE c = b
      BY <3>1, <3>2, <2>1, <1>0 DEF BlocksOK, Used, Extent, Area
    <3>3. CASE c # b
      <4>1. blocks'[c] = blocks[c] /\ c \in Blocks
        BY <3>1, <3>3, <1>0 DEF BlocksOK, Blocks, Extent, Area
      <4>2. u \in Used
        BY <4>1, <3>1, <2>1 DEF Used
      <4>3. c + blocks[c] <= b \/ b + blocks[b] <= c
        BY <4>1, <3>3, <1>3
      <4>4. u \notin Extent(b + n, blocks[b] - n)
        <5>1. u \in Int /\ c <= u /\ u < c + blocks[c] /\ blocks[c] \in Int
          BY <4>1, <3>1 DEF BlocksOK, Extent, Area
        <5>2. ~(b + n <= u /\ u < b + blocks[b])
          BY <5>1, <4>3, <1>0 DEF Area
        <5> QED BY <5>1, <5>2, <1>0 DEF Extent, Area
      <4> QED BY <4>2, <4>4
    <3> QED BY <3>2, <3>3
  <2>2. ASSUME NEW u \in Used, u \notin Extent(b + n, blocks[b] - n) PROVE u \in Used'
    <3>1. PICK c \in Area : u \in Extent(c, blocks[c])
      BY DEF Used
    <3>2. u \in Extent(c, blocks'[c])
      BY <3>1, <2>2, <1>0 DEF BlocksOK, Extent, Area
    <3> QED BY <3>1, <3>2, <2>2 DEF Used
  <2> QED BY <2>1, <2>2
<1> QED BY <1>1, <1>2, <1>4, <1>5

\* A block grows by free units at its end (c = b) or at its front.
LEMMA ExtendBlock ==
  ASSUME BlocksOK, NEW b \in Blocks, NEW c \in Area, NEW n \in 1..HeapUnits,
         NEW at \in Area,
         n > blocks[b], c + n <= HeapUnits,
         \/ c = b /\ at = b + blocks[b]
         \/ c + n = b + blocks[b] /\ at = c,
         Extent(at, n - blocks[b]) \cap Used = {},
         blocks' = [blocks EXCEPT ![b] = 0, ![c] = n]
  PROVE  /\ BlocksOK'
         /\ Used' = Used \cup Extent(at, n - blocks[b])
         /\ Extent(c, n) \cap {u \in Area : \E d \in Area \ {b} : u \in Extent(d, blocks[d])} = {}
<1> USE HeapUnitsAssumption
<1>0. b \in Area /\ blocks[b] \in 1..HeapUnits /\ b + blocks[b] <= HeapUnits
  BY DEF BlocksOK, Blocks
<1>1. \A d \in Blocks : d # b => d + blocks[d] <= b \/ b + blocks[b] <= d
  BY <1>0 DEF BlocksOK, Blocks, Area
<1>2. \A d \in Blocks : d # b => d + blocks[d] <= c \/ c + n <= d
  <2> SUFFICES ASSUME NEW d \in Blocks, d # b PROVE d + blocks[d] <= c \/ c + n <= d
    OBVIOUS
  <2>1. \A u \in Extent(at, n - blocks[b]) : u \notin Extent(d, blocks[d])
    BY BlockUnits
  <2>2. d + blocks[d] <= b \/ b + blocks[b] <= d
    BY <1>1
  <2>3. d \in Area /\ blocks[d] \in 1..HeapUnits
    BY DEF Blocks, BlocksOK
  <2>4. CASE c = b /\ at = b + blocks[b]
    <3>1. b + blocks[b] <= d => d \notin Extent(at, n - blocks[b])
      BY <2>1, <2>3 DEF Extent, Area
    <3> QED BY <3>1, <2>2, <2>3, <2>4, <1>0 DEF Extent, Area
  <2>5. CASE c + n = b + blocks[b] /\ at = c
    <3>1. d + blocks[d] - 1 \notin Extent(at, n - blocks[b])
      BY <2>1, <2>3 DEF Extent, Area
    <3> QED BY <3>1, <2>2, <2>3, <2>5, <1>0 DEF Extent, Area
  <2> QED BY <2>4, <2>5
<1>3. c \notin Blocks \/ c = b
  BY <1>2 DEF Blocks, BlocksOK, Area
<1>4. /\ blocks' \in [Area -> 0..HeapUnits] /\ blocks'[c] = n
      /\ \A d \in Area : d # b /\ d # c => blocks'[d] = blocks[d]
      /\ b # c => blocks'[b] = 0
  BY <1>0 DEF BlocksOK
<1>5. Blocks' = (Blocks \ {b}) \cup {c}
  BY <1>3, <1>4, <1>0 DEF Blocks
<1>6. BlocksOK'
  <2>1. \A d \in Blocks \ {b} : /\ d \in Area /\ blocks'[d] = blocks[d]
                                /\ d + blocks[d] <= HeapUnits
    BY <1>3, <1>4, BlockUnits
  <2>2. \A d \in Blocks' : d + blocks'[d] <= HeapUnits
    BY <2>1, <1>4, <1>5
  <2>3. ASSUME NEW d \in Blocks', NEW e \in Blocks', d < e PROVE d + blocks'[d] <= e
    <3>1. CASE d # c /\ e # c
      BY <3>1, <2>1, <2>3, <1>5 DEF BlocksOK
    <3>2. CASE d = c
      BY <3>2, <2>1, <2>3, <1>2, <1>4, <1>5, BlockUnits DEF Area
    <3>3. CASE e = c
      BY <3>3, <2>1, <2>3, <1>2, <1>4, <1>5, BlockUnits DEF Area
    <3> QED BY <3>1, <3>2, <3>3
  <2> QED BY <2>2, <2>3, <1>4 DEF BlocksOK
<1>7. Extent(c, n) = Extent(b, blocks[b]) \cup Extent(at, n - blocks[b])
  BY <1>0 DEF Extent, Area
<1>8. Used' = Used \cup Extent(at, n - blocks[b])
  <2>1. ASSUME NEW u \in Used' PROVE u \in Used \cup Extent(at, n - blocks[b])
    <3>1. PICK d \in Area : u \in Extent(d, blocks'[d])
      BY DEF Used
    <3>2. CASE d = c
      BY <3>1, <3>2, <2>1, <1>0, <1>4, <1>7 DEF Used
    <3>3. CASE d # c
      <4>1. blocks'[d] = blocks[d]
        BY <3>1, <3>3, <1>4, <1>0 DEF Extent, Area
      <4> QED BY <4>1, <3>1, <2>1 DEF Used
    <3> QED BY <3>2, <3>3
  <2>2. ASSUME NEW u \in Used \cup Extent(at, n - blocks[b]) PROVE u \in Used'
    <3>1. u \in Area
      BY <2>2, <1>0 DEF Used, Extent, Area
    <3>2. CASE u \in Extent(c, n)
      BY <3>1, <3>2, <1>4 DEF Used
    <3>3. CASE u \notin Extent(c, n)
      <4>1. PICK d \in Area : u \in Extent(d, blocks[d])
        BY <3>3, <2>2, <1>7 DEF Used
      <4>2. d # b /\ d # c
        BY <4>1, <3>3, <1>7, <1>3 DEF Extent, Blocks, Area
      <4> QED BY <4>1, <4>2, <3>1, <1>4 DEF Used
    <3> QED BY <3>2, <3>3
  <2> QED BY <2>1, <2>2
<1>9. Extent(c, n) \cap {u \in Area : \E d \in Area \ {b} : u \in Extent(d, blocks[d])} = {}
  <2> SUFFICES ASSUME NEW u \in Extent(c, n), NEW d \in Area \ {b},
                      u \in Extent(d, blocks[d])
               PROVE  FALSE
    OBVIOUS
  <2>1. d \in Blocks /\ blocks[d] \in Nat
    BY DEF Blocks, BlocksOK, Extent, Area
  <2>2. d + blocks[d] <= c \/ c + n <= d
    BY <2>1, <1>2
  <2> QED BY <2>1, <2>2 DEF Extent, Area
<1> QED BY <1>6, <1>8, <1>9

\* Counting units: n units that are not in S, and n units that are.
LEMMA CountMore ==
  ASSUME NEW S \in SUBSET Area, NEW b \in Int, NEW n \in Nat, Extent(b, n) \cap S = {}
  PROVE  /\ Cardinality(S \cup Extent(b, n)) = Cardinality(S) + n
         /\ Cardinality(S) \in Nat
<1>1. IsFiniteSet(Area)
  BY FS_Interval, HeapUnitsAssumption DEF Area
<1>2. IsFiniteSet(S)
  BY <1>1, FS_Subset
<1>3. IsFiniteSet(Extent(b, n)) /\ Cardinality(Extent(b, n)) = n
  BY FS_Interval DEF Extent
<1>4. Cardinality(S \cap Extent(b, n)) = 0
  BY FS_EmptySet
<1>5. Cardinality(S) \in Nat
  BY <1>2, FS_CardinalityType
<1>6. Cardinality(S \cup Extent(b, n))
        = Cardinality(S) + Cardinality(Extent(b, n)) - Cardinality(S \cap Extent(b, n))
  BY <1>2, <1>3, FS_Union
<1> QED BY <1>3, <1>4, <1>5, <1>6

LEMMA CountLess ==
  ASSUME NEW S \in SUBSET Area, NEW b \in Int, NEW n \in Nat, Extent(b, n) \subseteq S
  PROVE  /\ Cardinality(S \ Extent(b, n)) = Cardinality(S) - n
         /\ Cardinality(S) \in Nat
         /\ n <= Cardinality(S)
<1>1. IsFiniteSet(Area)
  BY FS_Interval, HeapUnitsAssumption DEF Area
<1>2. IsFiniteSet(S)
  BY <1>1, FS_Subset
<1>3. Cardinality(Extent(b, n)) = n
  BY FS_Interval DEF Extent
<1>4. S \cap Extent(b, n) = Extent(b, n)
  OBVIOUS
<1>5. Cardinality(Extent(b, n)) <= Cardinality(S)
  BY <1>2, FS_Subset
<1>6. Cardinality(S) \in Nat
  BY <1>2, FS_CardinalityType
<1>7. Cardinality(S \ Extent(b, n)) = Cardinality(S) - Cardinality(S \cap Extent(b, n))
  BY <1>2, FS_Difference
<1> QED BY <1>3, <1>4, <1>5, <1>6, <1>7

(***************************************************************************)
(* The list and the blocks together.                                       *)
(***************************************************************************)
Shape == ListOK /\ BlocksOK /\ Partition

\* An allocation that carves its block out of a region.
LEMMA TakeUnits ==
  ASSUME Shape,
         NEW p \in Heads, NEW r \in Regions, next_offset[p] = r,
         NEW n \in 1..size[r],
         Carve(p, r, n),
         blocks' = [blocks EXCEPT ![r] = n]
  PROVE  /\ Shape'
         /\ Cardinality(Used') = Cardinality(Used) + n
         /\ r \notin Blocks /\ Blocks' = Blocks \cup {r}
         /\ \A h \in Heads : h # r => h \in Heads'
         /\ Extent(r, n) \cap Used = {}
<1> USE HeapUnitsAssumption
<1>0. /\ r \in Area /\ size[r] \in 1..HeapUnits /\ r + size[r] <= HeapUnits
      /\ n \in 1..HeapUnits /\ r + n <= HeapUnits
  BY DEF Shape, ListOK, Regions, Headers, Area
<1>1. /\ ListOK' /\ Extent(r, n) \subseteq FreeUnits /\ FreeUnits' = FreeUnits \ Extent(r, n)
      /\ Regions \ {r} \subseteq Regions'
  BY CarveList DEF Shape
<1>2. Extent(r, n) \cap Used = {}
  BY <1>1 DEF Shape, Partition
<1>3. /\ BlocksOK' /\ Used' = Used \cup Extent(r, n)
      /\ Blocks' = Blocks \cup {r} /\ r \notin Blocks
  BY <1>0, <1>2, GrantBlock DEF Shape
<1>4. Partition'
  BY <1>1, <1>3 DEF Shape, Partition, Area
<1>5. Cardinality(Used') = Cardinality(Used) + n
  <2>1. Used \subseteq Area
    BY DEF Used
  <2> QED BY <2>1, <1>0, <1>2, <1>3, CountMore DEF Area
<1>6. \A h \in Heads : h # r => h \in Heads'
  BY <1>1 DEF Heads
<1> QED BY <1>1, <1>2, <1>3, <1>4, <1>5, <1>6 DEF Shape

\* Giving back the units of a block from its n-th on, n = 0 being all of them.
LEMMA GiveBack ==
  ASSUME Shape,
         NEW b \in Blocks, NEW n \in 0..(blocks[b] - 1),
         NEW p \in Heads, p < b, next_offset[p] >= b,
         InsertBlock(b + n, p, blocks[b] - n),
         blocks' = [blocks EXCEPT ![b] = n]
  PROVE  /\ Shape'
         /\ p \in Heads'
         /\ Cardinality(Used') = Cardinality(Used) - (blocks[b] - n)
         /\ Blocks' = IF n = 0 THEN Blocks \ {b} ELSE Blocks
<1> USE HeapUnitsAssumption
<1>0. /\ b \in Area /\ blocks[b] \in 1..HeapUnits /\ b + blocks[b] <= HeapUnits
      /\ Extent(b, blocks[b]) \subseteq Used
  BY BlockUnits DEF Shape
<1>1. /\ BlocksOK' /\ Used' = Used \ Extent(b + n, blocks[b] - n)
      /\ Extent(b + n, blocks[b] - n) \subseteq Used
      /\ Blocks' = IF n = 0 THEN Blocks \ {b} ELSE Blocks
  BY CutBlock DEF Shape
<1>2. \A r \in Regions : /\ r \in Area /\ size[r] \in 1..HeapUnits
                         /\ Extent(r, size[r]) \cap Extent(b, blocks[b]) = {}
  <2> SUFFICES ASSUME NEW r \in Regions
               PROVE  /\ r \in Area /\ size[r] \in 1..HeapUnits
                      /\ Extent(r, size[r]) \cap Extent(b, blocks[b]) = {}
    OBVIOUS
  <2>1. r \in Area /\ size[r] \in 1..HeapUnits /\ r + size[r] <= HeapUnits
    BY DEF Shape, ListOK, Regions, Headers, Area
  <2>2. Extent(r, size[r]) \subseteq FreeUnits
    BY <2>1 DEF FreeUnits, Extent, Area
  <2> QED BY <2>1, <2>2, <1>0 DEF Shape, Partition
<1>3. p + size[p] <= b
  <2>1. CASE p = First
    BY <2>1, <1>0 DEF First, Shape, ListOK, Area
  <2>2. CASE p \in Regions
    <3>1. b \notin Extent(p, size[p])
      BY <2>2, <1>0, <1>2 DEF Extent, Area
    <3> QED BY <3>1, <2>2, <1>0, <1>2 DEF Extent, Area
  <2> QED BY <2>1, <2>2 DEF Heads
<1>4. b + blocks[b] <= next_offset[p]
  <2>1. next_offset[p] \in Regions \cup {End}
    BY DEF Shape, ListOK, FreeListSorted
  <2>2. CASE next_offset[p] = End
    BY <2>2, <1>0 DEF End, Area
  <2>3. CASE next_offset[p] \in Regions
    <3>1. next_offset[p] \notin Extent(b, blocks[b])
      BY <2>3, <1>2 DEF Extent, Area
    <3> QED BY <3>1, <2>3, <1>0, <1>2 DEF Extent, Area
  <2> QED BY <2>1, <2>2, <2>3
<1>5. /\ b + n \in Area /\ blocks[b] - n \in 1..HeapUnits
      /\ p < b + n /\ p + size[p] <= b + n
      /\ (b + n) + (blocks[b] - n) <= HeapUnits
      /\ (b + n) + (blocks[b] - n) <= next_offset[p]
  <2>1. p \in Int /\ size[p] \in Int /\ next_offset[p] \in Int
    BY DEF Shape, ListOK, Heads, Headers, Regions, Area, First, End
  <2> QED BY <2>1, <1>0, <1>3, <1>4 DEF Area
<1>6. /\ ListOK' /\ p \in Heads'
      /\ FreeUnits' = FreeUnits \cup Extent(b + n, blocks[b] - n)
  BY <1>5, InsertList DEF Shape
<1>7. Used \subseteq Area
  BY DEF Used
<1>8. Partition'
  BY <1>6, <1>1, <1>7 DEF Shape, Partition
<1>9. Cardinality(Used') = Cardinality(Used) - (blocks[b] - n)
  BY <1>0, <1>1, <1>5, <1>7, CountLess DEF Area
<1> QED BY <1>1, <1>6, <1>8, <1>9 DEF Shape

\* A block that grows by free units next to it.
LEMMA ExtendUnits ==
  ASSUME Shape, ListOK',
         NEW b \in Blocks, NEW c \in Area, NEW n \in 1..HeapUnits, NEW at \in Area,
         n > blocks[b], c + n <= HeapUnits,
         \/ c = b /\ at = b + blocks[b]
         \/ c + n = b + blocks[b] /\ at = c,
         Extent(at, n - blocks[b]) \subseteq FreeUnits,
         FreeUnits' = FreeUnits \ Extent(at, n - blocks[b]),
         blocks' = [blocks EXCEPT ![b] = 0, ![c] = n]
  PROVE  /\ Shape'
         /\ Cardinality(Used') = Cardinality(Used) + (n - blocks[b])
<1> USE HeapUnitsAssumption
<1>1. Extent(at, n - blocks[b]) \cap Used = {}
  BY DEF Shape, Partition
<1>2. BlocksOK' /\ Used' = Used \cup Extent(at, n - blocks[b])
  BY <1>1, ExtendBlock DEF Shape
<1>3. Used \subseteq Area
  BY DEF Used
<1>4. Partition'
  BY <1>2, <1>3 DEF Shape, Partition, Area
<1>5. blocks[b] \in 1..HeapUnits
  BY BlockUnits DEF Shape
<1>6. Cardinality(Used') = Cardinality(Used) + (n - blocks[b])
  BY <1>1, <1>2, <1>3, <1>5, CountMore DEF Area
<1> QED BY <1>2, <1>4, <1>6 DEF Shape

\* Steps that only move the program counter.
LEMMA HeapUnchanged ==
  ASSUME UNCHANGED heapVars
  PROVE  /\ Shape => Shape'
         /\ SkipPointerValid => SkipPointerValid'
         /\ Used' = Used /\ Regions' = Regions /\ Heads' = Heads /\ Blocks' = Blocks
<1>1. /\ next_offset' = next_offset /\ size' = size /\ skip_p' = skip_p
      /\ blocks' = blocks
  BY DEF heapVars
<1>2. Used' = Used /\ Regions' = Regions /\ Blocks' = Blocks
  BY <1>1 DEF Used, Regions, Blocks
<1>3. Heads' = Heads
  BY <1>2 DEF Heads
<1>4. FreeUnits' = FreeUnits
  BY <1>1, <1>2 DEF FreeUnits
<1>5. ListOK => ListOK'
  BY <1>1, <1>2, <1>3 DEF ListOK, FreeListSorted
<1>6. BlocksOK => BlocksOK'
  BY <1>1, <1>2 DEF BlocksOK
<1>7. Partition => Partition'
  BY <1>2, <1>4 DEF Partition
<1>8. SkipPointerValid => SkipPointerValid'
  BY <1>1, <1>3 DEF SkipPointerValid
<1> QED BY <1>2, <1>3, <1>5, <1>6, <1>7, <1>8 DEF Shape

\* Where jmem_heap_find_prev starts is on the list and before its argument.
LEMMA FindStart ==
  ASSUME NEW b \in Area, NEW s \in Heads \cup {End}
  PROVE  /\ (IF b > s THEN s ELSE First) \in Heads
         /\ (IF b > s THEN s ELSE First) < b
<1>1. First < b /\ ~(b > End) /\ First \in Heads
  BY HeapUnitsAssumption DEF Area, First, End, Heads
<1>2. b \in Int /\ s \in Int
  BY HeapUnitsAssumption DEF Area, Heads, Regions, First, End
<1> QED BY <1>1, <1>2

(***************************************************************************)
(* One lemma per action: the invariant is preserved.                       *)
(***************************************************************************)
LEMMA InitInv == Init => HeapInv
<1> SUFFICES ASSUME Init PROVE HeapInv
  OBVIOUS
<1> USE HeapUnitsAssumption, GcLimitAssumption
<1>1. 0 \in Area /\ 0 \in Headers /\ First \notin Area
  BY DEF Area, Headers, First
<1>2. Regions = {0} /\ Heads = {0, First} /\ Blocks = {} /\ Used = {}
  BY <1>1 DEF Init, Regions, Heads, Blocks, Used, Area, Headers, First, Extent
<1>3. TypeOK
  BY <1>1 DEF Init, TypeOK, Area, Headers, First, End, None, High, Full, Low
<1>4. ListOK
  BY <1>1, <1>2 DEF Init, ListOK, FreeListSorted, Area, Headers, First, End
<1>5. BlocksOK
  BY <1>2 DEF Init, BlocksOK
<1>6. FreeUnits = Area
  BY <1>1, <1>2 DEF Init, FreeUnits, Area, Extent, Headers
<1>7. Partition
  BY <1>6, <1>2 DEF Partition
<1>8. SkipPointerValid
  BY <1>2 DEF Init, SkipPointerValid
<1>9. Control
  BY DEF Init, Control
<1>10. AllocatedSizeExact
  BY <1>2, FS_EmptySet DEF Init, AllocatedSizeExact
<1>11. LimitOK
  BY DEF Init, LimitOK
<1> QED BY <1>3, <1>4, <1>5, <1>7, <1>8, <1>9, <1>10, <1>11 DEF HeapInv

LEMMA AllocCallInv ==
  ASSUME HeapInv, NEW n \in Sizes, NEW max \in {High, Full}, AllocCall(n, max)
  PROVE  HeapInv'
<1> USE HeapUnitsAssumption, GcLimitAssumption
<1>1. /\ Shape' /\ SkipPointerValid'
      /\ Used' = Used /\ Regions' = Regions /\ Heads' = Heads /\ Blocks' = Blocks
  BY HeapUnchanged DEF AllocCall, HeapInv, Shape
<1>2. TypeOK'
  BY DEF HeapInv, TypeOK, AllocCall, GcAndAlloc, heapVars, loopVars, Sizes, None, Low, High, Full
<1>3. Control'
  BY DEF HeapInv, TypeOK, Control, AllocCall, GcAndAlloc, heapVars, Sizes
<1>4. AllocatedSizeExact'
  BY <1>1 DEF HeapInv, Control, AllocatedSizeExact, AllocCall, GcAndAlloc, heapVars
<1>5. LimitOK'
  BY DEF HeapInv, Control, LimitOK, AllocCall, GcAndAlloc, heapVars
<1> QED BY <1>1, <1>2, <1>3, <1>4, <1>5 DEF HeapInv, Shape

LEMMA GcFreeInv ==
  ASSUME HeapInv, NEW b \in Area, GcFree(b)
  PROVE  HeapInv'
<1> USE HeapUnitsAssumption, GcLimitAssumption
<1>1. /\ Shape' /\ SkipPointerValid'
      /\ Used' = Used /\ Regions' = Regions /\ Heads' = Heads /\ Blocks' = Blocks
  BY HeapUnchanged DEF GcFree, HeapInv, Shape
<1>2. prev' \in Heads /\ prev' < b
  BY FindStart DEF HeapInv, SkipPointerValid, GcFree, FindPrev
<1>3. TypeOK'
  BY <1>2 DEF HeapInv, TypeOK, GcFree, FindPrev, heapVars, callVars, Heads, Regions, Headers
<1>4. Control'
  BY <1>1, <1>2 DEF HeapInv, Control, FindOK, GcFree, FindPrev, heapVars, callVars, Blocks
<1>5. AllocatedSizeExact'
  BY <1>1 DEF HeapInv, Control, AllocatedSizeExact, GcFree, heapVars, callVars
<1>6. LimitOK'
  BY DEF HeapInv, Control, LimitOK, GcFree, FindPrev, heapVars, callVars
<1> QED BY <1>1, <1>3, <1>4, <1>5, <1>6 DEF HeapInv, Shape

LEMMA GcEndInv ==
  ASSUME HeapInv, GcEnd
  PROVE  HeapInv'
<1> USE HeapUnitsAssumption, GcLimitAssumption
<1>1. /\ Shape' /\ SkipPointerValid'
      /\ Used' = Used /\ Regions' = Regions /\ Heads' = Heads /\ Blocks' = Blocks
  BY HeapUnchanged DEF GcEnd, HeapInv, Shape
<1>2. phase = "grow" => rblock \in Area /\ prev' \in Heads /\ prev' < rblock
  BY FindStart DEF HeapInv, SkipPointerValid, Control, GcEnd, FindPrev, Blocks
<1>3. TypeOK'
  BY <1>2 DEF HeapInv, TypeOK, GcEnd, FindPrev, heapVars, callVars, loopVars, Heads, Regions, Headers
<1>4. Control'
  BY <1>1, <1>2 DEF HeapInv, Control, FindOK, GcEnd, FindPrev, heapVars, callVars, loopVars
<1>5. AllocatedSizeExact'
  BY <1>1 DEF HeapInv, Control, AllocatedSizeExact, GcEnd, heapVars, callVars
<1>6. LimitOK'
  BY DEF HeapInv, Control, LimitOK, GcEnd, FindPrev, heapVars, callVars
<1> QED BY <1>1, <1>3, <1>4, <1>5, <1>6 DEF HeapInv, Shape

LEMMA AllocSlowInv ==
  ASSUME HeapInv, AllocSlow
  PROVE  HeapInv'
<1> USE HeapUnitsAssumption, GcLimitAssumption
<1>1. /\ Shape' /\ SkipPointerValid'
      /\ Used' = Used /\ Regions' = Regions /\ Heads' = Heads /\ Blocks' = Blocks
  BY HeapUnchanged DEF AllocSlow, HeapInv, Shape
<1>2. First \in Headers /\ First \in Heads /\ \A r \in Regions : ~(r <= First)
  BY DEF Headers, Heads, Regions, Area, First
<1>3. TypeOK'
  BY <1>2 DEF HeapInv, TypeOK, AllocSlow, heapVars, callVars
<1>4. Control'
  BY <1>1, <1>2 DEF HeapInv, Control, WalkOK, AllocSlow, heapVars, callVars
<1>5. AllocatedSizeExact'
  BY <1>1 DEF HeapInv, Control, AllocatedSizeExact, AllocSlow, heapVars, callVars
<1>6. LimitOK'
  BY DEF HeapInv, Control, LimitOK, AllocSlow, heapVars, callVars
<1> QED BY <1>1, <1>3, <1>4, <1>5, <1>6 DEF HeapInv, Shape

LEMMA WalkNextInv ==
  ASSUME HeapInv, WalkNext
  PROVE  HeapInv'
<1> USE HeapUnitsAssumption, GcLimitAssumption
<1>1. /\ Shape' /\ SkipPointerValid'
      /\ Used' = Used /\ Regions' = Regions /\ Heads' = Heads /\ Blocks' = Blocks
  BY HeapUnchanged DEF WalkNext, HeapInv, Shape
<1>2. prev \in Heads /\ current = next_offset[prev] /\ current \in Regions
  BY DEF HeapInv, ListOK, FreeListSorted, Control, WalkOK, WalkNext
<1>3. \A r \in Regions : r <= current => size[r] < req
  <2>1. \A r \in Regions : r > prev => r >= current
    BY <1>2 DEF HeapInv, ListOK, FreeListSorted
  <2>2. \A r \in Regions : r \in Int
    BY DEF Regions, Area
  <2>3. prev \in Int
    BY <1>2 DEF Heads, Regions, Area, First
  <2> QED BY <1>2, <2>1, <2>2, <2>3 DEF HeapInv, Control, WalkOK, WalkNext
<1>4. TypeOK'
  BY <1>2 DEF HeapInv, TypeOK, WalkNext, heapVars, callVars, Regions, Headers
<1>5. Control'
  BY <1>1, <1>2, <1>3 DEF HeapInv, Control, WalkOK, WalkNext, heapVars, callVars, Heads
<1>6. AllocatedSizeExact'
  BY <1>1 DEF HeapInv, Control, AllocatedSizeExact, WalkNext, heapVars, callVars
<1>7. LimitOK'
  BY DEF HeapInv, Control, LimitOK, WalkNext, heapVars, callVars
<1> QED BY <1>1, <1>4, <1>5, <1>6, <1>7 DEF HeapInv, Shape

LEMMA WalkFailInv ==
  ASSUME HeapInv, WalkFail
  PROVE  HeapInv'
<1> USE HeapUnitsAssumption, GcLimitAssumption
<1>1. /\ Shape' /\ SkipPointerValid'
      /\ Used' = Used /\ Regions' = Regions /\ Heads' = Heads /\ Blocks' = Blocks
  BY HeapUnchanged DEF WalkFail, HeapInv, Shape
<1>2. phase = "move" => pressure < max_pressure
  BY DEF HeapInv, Control, WalkFail
<1>3. TypeOK'
  BY DEF HeapInv, TypeOK, WalkFail, Idle, LoopsDone, heapVars, Headers, None, Low, High, Full
<1>4. Control'
  BY <1>1, <1>2 DEF HeapInv, TypeOK, Control, WalkFail, Idle, LoopsDone, heapVars, None, Low, High, Full
<1>5. AllocatedSizeExact'
  BY <1>1, <1>2 DEF HeapInv, Control, AllocatedSizeExact, WalkFail, Idle, heapVars
<1>6. LimitOK'
  BY <1>2 DEF HeapInv, Control, LimitOK, WalkFail, Idle, heapVars
<1> QED BY <1>1, <1>3, <1>4, <1>5, <1>6 DEF HeapInv, Shape

LEMMA FindNextInv ==
  ASSUME HeapInv, FindNext
  PROVE  HeapInv'
<1> USE HeapUnitsAssumption, GcLimitAssumption
<1>1. /\ Shape' /\ SkipPointerValid'
      /\ Used' = Used /\ Regions' = Regions /\ Heads' = Heads /\ Blocks' = Blocks
  BY HeapUnchanged DEF FindNext, HeapInv, Shape
<1>2. prev' \in Heads /\ prev' < fblock
  <2>1. prev \in Heads /\ fblock \in Area
    BY DEF HeapInv, Control, FindOK, FindNext
  <2>2. next_offset[prev] \in Regions \cup {End} /\ next_offset[prev] < fblock
    BY <2>1 DEF HeapInv, ListOK, FreeListSorted, FindNext
  <2>3. next_offset[prev] # End
    BY <2>1, <2>2 DEF End, Area
  <2> QED BY <2>2, <2>3 DEF FindNext, Heads
<1>3. TypeOK'
  BY <1>2 DEF HeapInv, TypeOK, FindNext, heapVars, callVars, Heads, Regions, Headers
<1>4. Control'
  BY <1>1, <1>2 DEF HeapInv, Control, FindOK, FindNext, heapVars, callVars
<1>5. AllocatedSizeExact'
  BY <1>1 DEF HeapInv, AllocatedSizeExact, FindNext, heapVars, callVars
<1>6. LimitOK'
  BY DEF HeapInv, LimitOK, FindNext, heapVars, callVars
<1> QED BY <1>1, <1>3, <1>4, <1>5, <1>6 DEF HeapInv, Shape

LEMMA FreeCallInv ==
  ASSUME HeapInv, NEW b \in Area, FreeCall(b)
  PROVE  HeapInv'
<1> USE HeapUnitsAssumption, GcLimitAssumption
<1>1. /\ Shape' /\ SkipPointerValid'
      /\ Used' = Used /\ Regions' = Regions /\ Heads' = Heads /\ Blocks' = Blocks
  BY HeapUnchanged DEF FreeCall, HeapInv, Shape
<1>2. prev' \in Heads /\ prev' < b
  BY FindStart DEF HeapInv, SkipPointerValid, FreeCall, FindPrev
<1>3. TypeOK'
  BY <1>2 DEF HeapInv, TypeOK, FreeCall, FindPrev, heapVars, callVars, Heads, Regions, Headers
<1>4. b # rblock
  BY DEF HeapInv, Control, FreeCall, First, Area
<1>5. Control'
  BY <1>1, <1>2, <1>4 DEF HeapInv, Control, FindOK, FreeCall, FindPrev, heapVars, callVars, Blocks
<1>6. AllocatedSizeExact'
  BY <1>1 DEF HeapInv, AllocatedSizeExact, FreeCall, heapVars, callVars
<1>7. LimitOK'
  BY DEF HeapInv, Control, LimitOK, FreeCall, FindPrev, heapVars, callVars
<1> QED BY <1>1, <1>3, <1>5, <1>6, <1>7 DEF HeapInv, Shape

LEMMA ShrinkCallInv ==
  ASSUME HeapInv, NEW b \in Area, NEW n \in Sizes, ShrinkCall(b, n)
  PROVE  HeapInv'
<1> USE HeapUnitsAssumption, GcLimitAssumption
<1>1. /\ Shape' /\ SkipPointerValid'
      /\ Used' = Used /\ Regions' = Regions /\ Heads' = Heads /\ Blocks' = Blocks
  BY HeapUnchanged DEF ShrinkCall, HeapInv, Shape
<1>2. prev' \in Heads /\ prev' < b
  BY FindStart DEF HeapInv, SkipPointerValid, ShrinkCall, FindPrev
<1>3. TypeOK'
  BY <1>2 DEF HeapInv, TypeOK, ShrinkCall, FindPrev, heapVars, Sizes, Heads, Regions, Headers
<1>4. blocks[b] \in Int /\ b \in Blocks /\ n \in 1..(blocks[b] - 1)
  BY DEF HeapInv, TypeOK, ShrinkCall, Blocks, Sizes
<1>5. Control'
  BY <1>1, <1>2, <1>4 DEF HeapInv, Control, FindOK, ShrinkCall, FindPrev, heapVars
<1>6. AllocatedSizeExact'
  BY <1>1 DEF HeapInv, AllocatedSizeExact, ShrinkCall, heapVars
<1>7. LimitOK'
  BY DEF HeapInv, Control, LimitOK, ShrinkCall, FindPrev, heapVars
<1> QED BY <1>1, <1>3, <1>5, <1>6, <1>7 DEF HeapInv, Shape

LEMMA GrowCallInv ==
  ASSUME HeapInv, NEW b \in Area, NEW n \in Sizes, GrowCall(b, n)
  PROVE  HeapInv'
<1> USE HeapUnitsAssumption, GcLimitAssumption
<1>1. /\ Shape' /\ SkipPointerValid'
      /\ Used' = Used /\ Regions' = Regions /\ Heads' = Heads /\ Blocks' = Blocks
  BY HeapUnchanged DEF GrowCall, HeapInv, Shape
<1>2. pc' = "find" => prev' \in Heads /\ prev' < b
  BY FindStart DEF HeapInv, SkipPointerValid, GrowCall, FindPrev
<1>3. TypeOK'
  BY <1>2 DEF HeapInv, TypeOK, GrowCall, FindPrev, heapVars, loopVars, Sizes, Heads, Regions, Headers, None, Low, High, Full
<1>4. Control'
  BY <1>1, <1>2 DEF HeapInv, TypeOK, Control, FindOK, GrowCall, FindPrev, heapVars, Sizes, Blocks
<1>5. AllocatedSizeExact'
  BY <1>1 DEF HeapInv, Control, AllocatedSizeExact, GrowCall, heapVars
<1>6. LimitOK'
  BY DEF HeapInv, Control, LimitOK, GrowCall, FindPrev, heapVars
<1> QED BY <1>1, <1>3, <1>4, <1>5, <1>6 DEF HeapInv, Shape

\* The two neighbours that jmem_heap_realloc_block looks at.
LEMMA GrowFacts ==
  ASSUME HeapInv, Found("grow")
  PROVE  /\ phase = "grow" /\ fblock = rblock /\ rblock \in Blocks /\ rblock \in Area
         /\ blocks[rblock] \in 1..HeapUnits /\ rblock + blocks[rblock] <= HeapUnits
         /\ req \in 1..HeapUnits /\ Required \in 1..HeapUnits
         /\ prev \in Heads /\ prev < rblock
         /\ AtEnd => next_offset[prev] \in Regions
         /\ AtFront => prev \in Regions
<1> USE HeapUnitsAssumption
<1>1. /\ phase = "grow" /\ fblock = rblock /\ rblock \in Blocks
      /\ prev \in Heads /\ prev < rblock /\ blocks[rblock] < req
  BY DEF HeapInv, Control, FindOK, Found
<1>2. /\ rblock \in Area /\ blocks[rblock] \in 1..HeapUnits
      /\ rblock + blocks[rblock] <= HeapUnits
  BY <1>1, BlockUnits DEF HeapInv
<1>3. req \in 1..HeapUnits /\ Required \in 1..HeapUnits
  BY <1>1, <1>2 DEF HeapInv, TypeOK, Required
<1>4. AtEnd => next_offset[prev] \in Regions
  BY <1>1, <1>2 DEF HeapInv, ListOK, FreeListSorted, AtEnd, End, Area
<1>5. AtFront => prev \in Regions
  BY <1>1, <1>2 DEF HeapInv, ListOK, AtFront, Heads, First, Area
<1> QED BY <1>1, <1>2, <1>3, <1>4, <1>5

LEMMA ExtendFrontExactInv ==
  ASSUME HeapInv, ExtendFrontExact
  PROVE  HeapInv'
<1> USE HeapUnitsAssumption, GcLimitAssumption
<1>1. /\ Shape' /\ SkipPointerValid'
      /\ Used' = Used /\ Regions' = Regions /\ Heads' = Heads /\ Blocks' = Blocks
  BY HeapUnchanged DEF ExtendFrontExact, HeapInv, Shape
<1>2. prev \in Regions /\ prev \in Area
  BY GrowFacts DEF ExtendFrontExact, Regions
<1>3. prev' \in Heads /\ prev' < prev
  BY <1>2, FindStart DEF HeapInv, SkipPointerValid, ExtendFrontExact, FindPrev
<1>4. TypeOK'
  BY <1>2, <1>3 DEF HeapInv, TypeOK, ExtendFrontExact, FindPrev, heapVars, callVars, Heads, Regions, Headers
<1>5. Control'
  <2>1. phase = "grow" /\ prev + size[prev] = rblock /\ size[prev] = req - blocks[rblock]
    BY GrowFacts DEF ExtendFrontExact, AtFront, Required
  <2> QED BY <2>1, <1>1, <1>2, <1>3 DEF HeapInv, Control, FindOK, ExtendFrontExact, FindPrev, heapVars, callVars
<1>6. AllocatedSizeExact'
  BY <1>1 DEF HeapInv, AllocatedSizeExact, ExtendFrontExact, heapVars, callVars
<1>7. LimitOK'
  BY GrowFacts DEF HeapInv, LimitOK, ExtendFrontExact, FindPrev, heapVars, callVars
<1> QED BY <1>1, <1>4, <1>5, <1>6, <1>7 DEF HeapInv, Shape

LEMMA GrowMoveInv ==
  ASSUME HeapInv, GrowMove
  PROVE  HeapInv'
<1> USE HeapUnitsAssumption, GcLimitAssumption
<1>0. /\ phase = "grow" /\ rblock \in Blocks /\ blocks[rblock] \in 1..HeapUnits
      /\ blocks[rblock] < req /\ req > 0
  BY GrowFacts DEF GrowMove, HeapInv, Control
<1>1. /\ next_offset' = next_offset /\ size' = size /\ skip_p' = skip_p
      /\ blocks' = blocks /\ limit' = limit /\ rblock' = rblock
      /\ phase' = "move" /\ req' = req /\ max_pressure' = Full
      /\ pc' \in {"gc", "alloc"} /\ pressure' \in {None, Low}
      /\ allocated_size' = allocated_size - blocks[rblock]
      /\ LoopsDone
  BY DEF GrowMove, GcAndAlloc
<1>2. /\ Shape' /\ SkipPointerValid' /\ Used' = Used /\ Blocks' = Blocks
  <2>1. Used' = Used /\ Regions' = Regions /\ Blocks' = Blocks
    BY <1>1 DEF Used, Regions, Blocks
  <2>2. Heads' = Heads
    BY <2>1 DEF Heads
  <2>3. FreeUnits' = FreeUnits
    BY <1>1, <2>1 DEF FreeUnits
  <2>4. ListOK'
    BY <1>1, <2>1, <2>2 DEF HeapInv, ListOK, FreeListSorted
  <2>5. BlocksOK'
    BY <1>1, <2>1 DEF HeapInv, BlocksOK
  <2> QED BY <1>1, <2>1, <2>2, <2>3, <2>4, <2>5 DEF HeapInv, Partition, SkipPointerValid, Shape
<1>3. TypeOK'
  BY <1>0, <1>1 DEF HeapInv, TypeOK, LoopsDone, Headers, None, Low, High, Full
<1>4. Control'
  BY <1>0, <1>1, <1>2 DEF HeapInv, Control, None, Low, Full
<1>5. AllocatedSizeExact'
  BY <1>0, <1>1, <1>2 DEF HeapInv, TypeOK, AllocatedSizeExact
<1>6. LimitOK'
  BY <1>0, <1>1 DEF HeapInv, TypeOK, LimitOK
<1> QED BY <1>2, <1>3, <1>4, <1>5, <1>6 DEF HeapInv, Shape

\* After RaiseLimit and LowerLimit the limit is where LimitOK wants it.
LEMMA RaiseLimitOK ==
  ASSUME NEW a \in Nat, limit \in Nat, RaiseLimit(a)
  PROVE  limit' \in Nat /\ a <= limit' /\ (limit' = limit \/ limit' <= a + GcLimit)
<1> USE GcLimitAssumption
<1>1. PICK k \in 0..(a + 1) : /\ limit' = limit + k * GcLimit
                              /\ a < limit'
                              /\ k > 0 => a >= limit' - GcLimit
  BY DEF RaiseLimit
<1>2. k * GcLimit \in Nat
  OBVIOUS
<1>3. CASE k = 0
  <2>1. k * GcLimit = 0
    BY <1>3
  <2> QED BY <1>1, <2>1
<1>4. CASE k > 0
  BY <1>1, <1>2, <1>4
<1> QED BY <1>3, <1>4

LEMMA LowerLimitOK ==
  ASSUME NEW a \in Nat, limit \in Nat, a <= limit, LowerLimit(a)
  PROVE  limit' \in Nat /\ a <= limit' /\ limit' <= a + GcLimit
<1> USE GcLimitAssumption
<1>1. PICK k \in 0..limit : /\ limit' = limit - k * GcLimit
                            /\ a + GcLimit > limit'
                            /\ k > 0 => a <= limit'
  BY DEF LowerLimit
<1>2. k * GcLimit \in Nat
  OBVIOUS
<1>3. CASE k = 0
  <2>1. k * GcLimit = 0
    BY <1>3
  <2> QED BY <1>1, <2>1
<1>4. CASE k > 0
  BY <1>1, <1>2, <1>4
<1> QED BY <1>3, <1>4

\* The number of used units is a number, before and after a step.
LEMMA UsedCount == Cardinality(Used) \in Nat /\ Cardinality(Used') \in Nat
<1>1. Used \in SUBSET Area /\ Used' \in SUBSET Area
  BY DEF Used
<1>2. ASSUME NEW S \in SUBSET Area PROVE Cardinality(S) \in Nat
  <2>1. IsFiniteSet(Area)
    BY FS_Interval, HeapUnitsAssumption DEF Area
  <2>2. IsFiniteSet(S)
    BY <2>1, FS_Subset
  <2> QED BY <2>2, FS_CardinalityType
<1> QED BY <1>1, <1>2

\* allocated_size is never negative, also while a block is moved, and an allocated
\* block that is not the one being moved is accounted for.
LEMMA Accounted ==
  ASSUME HeapInv
  PROVE  /\ allocated_size \in Nat
         /\ \A b \in Blocks : b # rblock => blocks[b] <= allocated_size
         /\ phase # "move" => \A b \in Blocks : blocks[b] <= allocated_size
<1> USE HeapUnitsAssumption
<1>1. Used \in SUBSET Area
  BY DEF Used
<1>2. \A b \in Blocks : /\ b \in Int /\ blocks[b] \in Nat /\ blocks[b] <= Cardinality(Used)
                        /\ Extent(b, blocks[b]) \subseteq Used
                        /\ Cardinality(Used \ Extent(b, blocks[b])) = Cardinality(Used) - blocks[b]
  <2> SUFFICES ASSUME NEW b \in Blocks
               PROVE  /\ b \in Int /\ blocks[b] \in Nat /\ blocks[b] <= Cardinality(Used)
                      /\ Extent(b, blocks[b]) \subseteq Used
                      /\ Cardinality(Used \ Extent(b, blocks[b])) = Cardinality(Used) - blocks[b]
    OBVIOUS
  <2>1. b \in Int /\ blocks[b] \in Nat /\ Extent(b, blocks[b]) \subseteq Used
    BY BlockUnits DEF HeapInv, Area
  <2> QED BY <2>1, <1>1, CountLess
<1>3. Cardinality(Used) \in Nat
  BY UsedCount
<1>4. CASE phase # "move"
  <2>1. allocated_size = Cardinality(Used)
    BY <1>4 DEF HeapInv, TypeOK, AllocatedSizeExact
  <2> QED BY <2>1, <1>2, <1>3
<1>5. CASE phase = "move"
  <2>1. rblock \in Blocks
    BY <1>5 DEF HeapInv, Control
  <2>2. allocated_size = Cardinality(Used) - blocks[rblock]
    <3>1. allocated_size + blocks[rblock] = Cardinality(Used) /\ allocated_size \in Int
      BY <1>5 DEF HeapInv, TypeOK, AllocatedSizeExact
    <3>2. blocks[rblock] \in Nat
      BY <1>2, <2>1
    <3> QED BY <3>1, <3>2, <1>3
  <2>3. ASSUME NEW b \in Blocks, b # rblock PROVE blocks[b] <= allocated_size
    <3>1. b < rblock => b + blocks[b] <= rblock
      BY <2>1 DEF HeapInv, BlocksOK
    <3>2. rblock < b => rblock + blocks[rblock] <= b
      BY <2>1 DEF HeapInv, BlocksOK
    <3>3. b \in Int /\ rblock \in Int /\ blocks[b] \in Nat /\ blocks[rblock] \in Nat
      BY <1>2, <2>1
    <3>4. Extent(b, blocks[b]) \subseteq Used \ Extent(rblock, blocks[rblock])
      <4>1. Extent(b, blocks[b]) \cap Extent(rblock, blocks[rblock]) = {}
        BY <3>1, <3>2, <3>3, <2>3 DEF Extent
      <4> QED BY <4>1, <1>2
    <3>5. Used \ Extent(rblock, blocks[rblock]) \in SUBSET Area
      BY <1>1
    <3> QED BY <3>3, <3>4, <3>5, <2>1, <2>2, <1>2, CountLess
  <2>4. blocks[rblock] \in Nat /\ blocks[rblock] <= Cardinality(Used)
    BY <1>2, <2>1
  <2>5. allocated_size \in Nat
    BY <2>2, <2>4, <1>3
  <2> QED BY <2>3, <2>5, <1>5
<1> QED BY <1>4, <1>5

LEMMA WalkFitInv ==
  ASSUME HeapInv, WalkFit
  PROVE  HeapInv'
<1> USE HeapUnitsAssumption, GcLimitAssumption
<1>1. /\ prev \in Heads /\ next_offset[prev] = current /\ current \in Regions
      /\ current \in Area /\ req \in 1..size[current] /\ req \in 1..HeapUnits
      /\ phase \in {"alloc", "move"}
  <2>1. prev \in Heads /\ next_offset[prev] = current /\ req > 0 /\ phase \in {"alloc", "move"}
    BY DEF HeapInv, TypeOK, Control, WalkOK, WalkFit
  <2>2. current \in Regions
    BY <2>1 DEF HeapInv, ListOK, FreeListSorted, WalkFit
  <2>3. current \in Area /\ size[current] \in Int
    BY <2>2 DEF HeapInv, ListOK, Regions, Headers
  <2> QED BY <2>1, <2>2, <2>3 DEF HeapInv, TypeOK, WalkFit
<1>2. /\ Carve(prev, current, req) /\ blocks' = [blocks EXCEPT ![current] = req]
      /\ skip_p' = prev /\ allocated_size' = allocated_size + req
      /\ RaiseLimit(allocated_size + req)
  BY DEF WalkFit, AllocReturn
<1>3. /\ Shape' /\ Cardinality(Used') = Cardinality(Used) + req
      /\ current \notin Blocks /\ Blocks' = Blocks \cup {current}
      /\ \A h \in Heads : h # current => h \in Heads'
  BY <1>1, <1>2, TakeUnits DEF HeapInv, Shape
<1>4. prev # current /\ prev \in Heads'
  BY <1>1, <1>3 DEF HeapInv, ListOK, FreeListSorted, Heads, Regions, Area, First
<1>5. SkipPointerValid'
  BY <1>2, <1>4 DEF SkipPointerValid
<1>6. allocated_size \in Nat /\ allocated_size + req \in Nat
  BY <1>1, Accounted
<1>7. /\ limit' \in Nat /\ allocated_size + req <= limit'
      /\ limit' = limit \/ limit' <= allocated_size + req + GcLimit
  BY <1>2, <1>6, RaiseLimitOK DEF HeapInv, TypeOK
<1>8. /\ next_offset' \in [Headers -> Area \cup {End}] /\ size' \in [Headers -> 0..HeapUnits]
      /\ skip_p' \in Headers /\ blocks' \in [Area -> 0..HeapUnits]
  BY <1>2, <1>3 DEF Shape, ListOK, BlocksOK, HeapInv, TypeOK
<1>9. CASE phase = "alloc"
  <2>1. Idle /\ LoopsDone
    BY <1>9 DEF WalkFit, AllocReturn
  <2>2. TypeOK'
    BY <2>1, <1>2, <1>6, <1>7, <1>8 DEF TypeOK, Idle, LoopsDone, Headers, None, Low, High, Full
  <2>3. Control'
    BY <2>1 DEF Control, Idle, LoopsDone
  <2>4. AllocatedSizeExact'
    <3>1. allocated_size + 0 = Cardinality(Used)
      BY <1>9 DEF HeapInv, AllocatedSizeExact
    <3>2. allocated_size' + 0 = Cardinality(Used')
      BY <3>1, <1>1, <1>2, <1>3, <1>6, UsedCount
    <3> QED BY <3>2, <2>1 DEF AllocatedSizeExact, Idle
  <2>5. LimitOK'
    BY <2>1, <1>1, <1>2, <1>6, <1>7, <1>9 DEF HeapInv, TypeOK, LimitOK, Idle
  <2> QED BY <2>2, <2>3, <2>4, <2>5, <1>3, <1>5 DEF HeapInv, Shape
<1>10. CASE phase = "move"
  <2>1. FindPrev(rblock, skip_p', "move") /\ UNCHANGED callVars
    BY <1>10 DEF WalkFit, AllocReturn
  <2>2. rblock \in Blocks /\ rblock \in Area /\ blocks[rblock] < req /\ blocks[rblock] \in Nat
    BY <1>10, BlockUnits DEF HeapInv, Control
  <2>3. rblock # current /\ blocks'[rblock] = blocks[rblock]
    BY <2>2, <1>2, <1>3 DEF HeapInv, TypeOK
  <2>4. prev' \in Heads' /\ prev' < rblock
    <3>1. prev \in Int /\ First \in Heads' /\ First < rblock
      BY <1>1, <2>2 DEF Heads, Regions, Area, First
    <3> QED BY <2>1, <2>2, <1>2, <1>4, <3>1 DEF FindPrev
  <2>5. TypeOK'
    <3>1. prev' \in Headers
      BY <2>4 DEF Heads, Regions, Headers
    <3> QED BY <3>1, <2>1, <2>2, <1>2, <1>6, <1>7, <1>8 DEF HeapInv, TypeOK, FindPrev, callVars, Headers
  <2>6. Control'
    <3>1. FindOK'
      BY <2>1, <2>2, <2>4, <1>10 DEF FindOK, FindPrev, callVars
    <3>2. rblock \in Blocks'
      BY <2>2, <1>3
    <3> QED BY <3>1, <3>2, <2>1, <2>2, <2>3, <1>10 DEF HeapInv, Control, FindPrev, callVars, WalkFit
  <2>7. AllocatedSizeExact'
    <3>1. allocated_size + blocks[rblock] = Cardinality(Used)
      BY <1>10 DEF HeapInv, AllocatedSizeExact
    <3>2. allocated_size' + blocks'[rblock] = Cardinality(Used')
      BY <3>1, <2>2, <2>3, <1>1, <1>2, <1>3, <1>6, UsedCount
    <3> QED BY <3>2, <2>1, <1>10 DEF AllocatedSizeExact, callVars
  <2>8. LimitOK'
    <3>1. limit <= allocated_size + GcLimit + blocks[rblock]
      BY <1>10 DEF HeapInv, LimitOK, WalkFit
    <3> QED BY <3>1, <2>1, <2>2, <1>1, <1>2, <1>6, <1>7, <1>10 DEF HeapInv, TypeOK, LimitOK, FindPrev, callVars
  <2> QED BY <2>5, <2>6, <2>7, <2>8, <1>3, <1>5 DEF HeapInv, Shape
<1> QED BY <1>1, <1>9, <1>10

LEMMA AllocFastInv ==
  ASSUME HeapInv, AllocFast
  PROVE  HeapInv'
<1> USE HeapUnitsAssumption, GcLimitAssumption
<1> DEFINE data == next_offset[First]
<1>1. /\ First \in Heads /\ data \in Regions /\ data \in Area
      /\ 1 \in 1..size[data] /\ req = 1
      /\ phase = "alloc"
  <2>1. First \in Heads /\ data # End /\ req = 1
    BY DEF AllocFast, Heads
  <2>2. data \in Regions
    BY <2>1 DEF HeapInv, ListOK, FreeListSorted
  <2>3. data \in Area /\ size[data] \in 1..HeapUnits
    BY <2>2 DEF HeapInv, ListOK, Regions, Headers
  <2>4. phase = "alloc"
    <3>1. phase # "none" /\ phase # "grow"
      BY DEF HeapInv, Control, AllocFast
    <3>2. phase # "move"
      BY <2>1, BlockUnits DEF HeapInv, Control
    <3> QED BY <3>1, <3>2 DEF HeapInv, TypeOK
  <2> QED BY <2>1, <2>2, <2>3, <2>4
<1>2. /\ Carve(First, data, 1) /\ blocks' = [blocks EXCEPT ![data] = 1]
      /\ skip_p' = IF data = skip_p THEN next_offset'[First] ELSE skip_p
      /\ allocated_size' = allocated_size + 1
      /\ limit' = IF allocated_size + 1 >= limit THEN limit + GcLimit ELSE limit
      /\ Idle /\ LoopsDone
  BY <1>1 DEF AllocFast, AllocReturn
<1>3. /\ Shape' /\ Cardinality(Used') = Cardinality(Used) + 1
      /\ \A h \in Heads : h # data => h \in Heads'
  BY <1>1, <1>2, TakeUnits DEF HeapInv, Shape
<1>4. SkipPointerValid'
  <2>1. next_offset'[First] \in Regions' \cup {End}
    BY <1>3 DEF Shape, ListOK, FreeListSorted, Heads
  <2> QED BY <2>1, <1>2, <1>3 DEF HeapInv, SkipPointerValid, Heads
<1>5. allocated_size \in Nat
  BY Accounted
<1>6. TypeOK'
  <2>1. /\ next_offset' \in [Headers -> Area \cup {End}] /\ size' \in [Headers -> 0..HeapUnits]
        /\ blocks' \in [Area -> 0..HeapUnits]
    BY <1>3 DEF Shape, ListOK, BlocksOK
  <2>2. skip_p' \in Headers \cup {End}
    BY <1>4 DEF SkipPointerValid, Heads, Regions, Headers
  <2> QED BY <2>1, <2>2, <1>2, <1>5 DEF HeapInv, TypeOK, Idle, LoopsDone, Headers, None, Low, High, Full
<1>7. Control'
  BY <1>2 DEF Control, Idle, LoopsDone
<1>8. AllocatedSizeExact'
  <2>1. allocated_size + 0 = Cardinality(Used)
    BY <1>1 DEF HeapInv, AllocatedSizeExact
  <2>2. allocated_size' + 0 = Cardinality(Used')
    BY <2>1, <1>2, <1>3, <1>5, UsedCount
  <2> QED BY <2>2, <1>2 DEF AllocatedSizeExact, Idle
<1>9. LimitOK'
  BY <1>1, <1>2, <1>5 DEF HeapInv, TypeOK, LimitOK, Idle
<1> QED BY <1>3, <1>4, <1>6, <1>7, <1>8, <1>9 DEF HeapInv, Shape

LEMMA FreeDoneInv ==
  ASSUME HeapInv, FreeDone
  PROVE  HeapInv'
<1> USE HeapUnitsAssumption, GcLimitAssumption
<1>1. /\ fblock \in Blocks /\ fblock # rblock /\ fblock \in Area
      /\ blocks[fblock] \in 1..HeapUnits
      /\ prev \in Heads /\ prev < fblock /\ next_offset[prev] >= fblock
      /\ blocks[fblock] <= allocated_size /\ allocated_size \in Nat
  BY BlockUnits, Accounted DEF HeapInv, Control, FindOK, FreeDone, Found
<1>2. /\ InsertBlock(fblock + 0, prev, blocks[fblock] - 0)
      /\ blocks' = [blocks EXCEPT ![fblock] = 0] /\ 0 \in 0..(blocks[fblock] - 1)
      /\ skip_p' = prev
      /\ allocated_size' = allocated_size - blocks[fblock]
      /\ LowerLimit(allocated_size - blocks[fblock])
      /\ pc' = IF phase = "none" THEN "idle" ELSE "gc"
      /\ LoopsDone /\ UNCHANGED callVars
  <2>1. fblock + 0 = fblock /\ blocks[fblock] - 0 = blocks[fblock]
    BY <1>1 DEF Area
  <2> QED BY <2>1, <1>1 DEF FreeDone, InsertBlock
<1>3. /\ Shape' /\ prev \in Heads'
      /\ Cardinality(Used') = Cardinality(Used) - (blocks[fblock] - 0)
      /\ Blocks' = Blocks \ {fblock}
  BY <1>1, <1>2, GiveBack DEF HeapInv, Shape
<1>4. SkipPointerValid'
  BY <1>2, <1>3 DEF SkipPointerValid
<1>5. /\ limit' \in Nat /\ allocated_size - blocks[fblock] <= limit'
      /\ limit' <= allocated_size - blocks[fblock] + GcLimit
  <2>1. allocated_size - blocks[fblock] \in Nat /\ allocated_size - blocks[fblock] <= limit
    BY <1>1 DEF HeapInv, TypeOK, LimitOK
  <2> QED BY <2>1, <1>2, LowerLimitOK DEF HeapInv, TypeOK
<1>6. TypeOK'
  <2>1. /\ next_offset' \in [Headers -> Area \cup {End}] /\ size' \in [Headers -> 0..HeapUnits]
        /\ blocks' \in [Area -> 0..HeapUnits] /\ skip_p' \in Headers
    BY <1>2, <1>3 DEF Shape, ListOK, BlocksOK, HeapInv, TypeOK
  <2> QED BY <2>1, <1>1, <1>2, <1>5 DEF HeapInv, TypeOK, LoopsDone, callVars, Headers
<1>7. rblock \in Blocks => /\ rblock \in Blocks' /\ blocks'[rblock] = blocks[rblock]
                           /\ blocks[rblock] \in Nat
  BY <1>1, <1>2, <1>3, BlockUnits DEF HeapInv, TypeOK, Blocks
<1>8. Control'
  BY <1>2, <1>7 DEF HeapInv, TypeOK, Control, FreeDone, Found, callVars
<1>9. AllocatedSizeExact'
  <2>1. CASE phase = "move"
    <3>1. rblock \in Blocks /\ allocated_size + blocks[rblock] = Cardinality(Used)
      BY <2>1 DEF HeapInv, Control, AllocatedSizeExact
    <3>2. allocated_size' + blocks'[rblock] = Cardinality(Used')
      BY <3>1, <1>1, <1>2, <1>3, <1>7, UsedCount
    <3> QED BY <3>2, <2>1, <1>2 DEF AllocatedSizeExact, callVars
  <2>2. CASE phase # "move"
    <3>1. allocated_size + 0 = Cardinality(Used)
      BY <2>2 DEF HeapInv, AllocatedSizeExact
    <3>2. allocated_size' + 0 = Cardinality(Used')
      BY <3>1, <1>1, <1>2, <1>3, UsedCount
    <3> QED BY <3>2, <2>2, <1>2 DEF AllocatedSizeExact, callVars
  <2> QED BY <2>1, <2>2
<1>10. LimitOK'
  <2>1. phase = "move" => blocks'[rblock] \in Nat
    BY <1>7 DEF HeapInv, Control
  <2> QED BY <2>1, <1>1, <1>2, <1>5 DEF LimitOK, callVars
<1> QED BY <1>3, <1>4, <1>6, <1>8, <1>9, <1>10 DEF HeapInv, Shape

LEMMA ShrinkDoneInv ==
  ASSUME HeapInv, ShrinkDone
  PROVE  HeapInv'
<1> USE HeapUnitsAssumption, GcLimitAssumption
<1> DEFINE freed == blocks[fblock] - req
<1>1. /\ fblock \in Blocks /\ fblock \in Area /\ phase = "none"
      /\ blocks[fblock] \in 1..HeapUnits /\ req \in 1..(blocks[fblock] - 1)
      /\ prev \in Heads /\ prev < fblock /\ next_offset[prev] >= fblock
      /\ blocks[fblock] <= allocated_size /\ allocated_size \in Nat
  BY BlockUnits, Accounted DEF HeapInv, Control, FindOK, ShrinkDone, Found
<1>2. /\ InsertBlock(fblock + req, prev, blocks[fblock] - req)
      /\ blocks' = [blocks EXCEPT ![fblock] = req] /\ req \in 0..(blocks[fblock] - 1)
      /\ skip_p' = prev
      /\ allocated_size' = allocated_size - freed
      /\ LowerLimit(allocated_size - freed)
      /\ Idle /\ LoopsDone
  BY <1>1 DEF ShrinkDone, InsertBlock
<1>3. /\ Shape' /\ prev \in Heads'
      /\ Cardinality(Used') = Cardinality(Used) - freed
  BY <1>1, <1>2, GiveBack DEF HeapInv, Shape
<1>4. SkipPointerValid'
  BY <1>2, <1>3 DEF SkipPointerValid
<1>5. /\ limit' \in Nat /\ allocated_size - freed <= limit'
      /\ limit' <= allocated_size - freed + GcLimit /\ allocated_size - freed \in Nat
  <2>1. allocated_size - freed \in Nat /\ allocated_size - freed <= limit
    BY <1>1 DEF HeapInv, TypeOK, LimitOK
  <2> QED BY <2>1, <1>2, LowerLimitOK DEF HeapInv, TypeOK
<1>6. TypeOK'
  <2>1. /\ next_offset' \in [Headers -> Area \cup {End}] /\ size' \in [Headers -> 0..HeapUnits]
        /\ blocks' \in [Area -> 0..HeapUnits] /\ skip_p' \in Headers
    BY <1>2, <1>3 DEF Shape, ListOK, BlocksOK, HeapInv, TypeOK
  <2> QED BY <2>1, <1>2, <1>5 DEF TypeOK, Idle, LoopsDone, Headers, None, Low, High, Full
<1>7. Control'
  BY <1>2 DEF Control, Idle
<1>8. AllocatedSizeExact'
  <2>1. allocated_size + 0 = Cardinality(Used)
    BY <1>1 DEF HeapInv, AllocatedSizeExact
  <2>2. allocated_size' + 0 = Cardinality(Used')
    BY <2>1, <1>1, <1>2, <1>3, UsedCount
  <2> QED BY <2>2, <1>2 DEF AllocatedSizeExact, Idle
<1>9. LimitOK'
  BY <1>2, <1>5 DEF LimitOK, Idle
<1> QED BY <1>3, <1>4, <1>6, <1>7, <1>8, <1>9 DEF HeapInv, Shape

LEMMA MoveDoneInv ==
  ASSUME HeapInv, MoveDone
  PROVE  HeapInv'
<1> USE HeapUnitsAssumption, GcLimitAssumption
<1>1. /\ rblock \in Blocks /\ rblock \in Area /\ phase = "move"
      /\ pc = "find" /\ why = "move" /\ allocated_size \in Nat
      /\ blocks[rblock] \in 1..HeapUnits
      /\ prev \in Heads /\ prev < rblock /\ next_offset[prev] >= rblock
  BY BlockUnits, Accounted DEF HeapInv, Control, FindOK, MoveDone, Found
<1>2. /\ InsertBlock(rblock + 0, prev, blocks[rblock] - 0)
      /\ blocks' = [blocks EXCEPT ![rblock] = 0] /\ 0 \in 0..(blocks[rblock] - 1)
      /\ skip_p' = prev /\ allocated_size' = allocated_size /\ limit' = limit
      /\ Idle /\ LoopsDone
  <2>1. rblock + 0 = rblock /\ blocks[rblock] - 0 = blocks[rblock]
    BY <1>1 DEF Area
  <2> QED BY <2>1, <1>1 DEF MoveDone, InsertBlock
<1>3. /\ Shape' /\ prev \in Heads'
      /\ Cardinality(Used') = Cardinality(Used) - (blocks[rblock] - 0)
  BY <1>1, <1>2, GiveBack DEF HeapInv, Shape
<1>4. SkipPointerValid'
  BY <1>2, <1>3 DEF SkipPointerValid
<1>5. TypeOK'
  <2>1. /\ next_offset' \in [Headers -> Area \cup {End}] /\ size' \in [Headers -> 0..HeapUnits]
        /\ blocks' \in [Area -> 0..HeapUnits] /\ skip_p' \in Headers
    BY <1>2, <1>3 DEF Shape, ListOK, BlocksOK, HeapInv, TypeOK
  <2> QED BY <2>1, <1>2 DEF HeapInv, TypeOK, Idle, LoopsDone, Headers, None, Low, High, Full
<1>6. Control'
  BY <1>2 DEF Control, Idle
<1>7. AllocatedSizeExact'
  <2>1. allocated_size + blocks[rblock] = Cardinality(Used)
    BY <1>1 DEF HeapInv, AllocatedSizeExact
  <2>2. allocated_size' + 0 = Cardinality(Used')
    BY <2>1, <1>1, <1>2, <1>3, UsedCount
  <2> QED BY <2>2, <1>2 DEF AllocatedSizeExact, Idle
<1>8. LimitOK'
  BY <1>1, <1>2 DEF HeapInv, LimitOK, Idle
<1> QED BY <1>3, <1>4, <1>5, <1>6, <1>7, <1>8 DEF HeapInv, Shape

\* The common end of the three ways in which a block is extended in place.
LEMMA ExtendedInv ==
  ASSUME HeapInv, phase = "grow", rblock \in Blocks,
         NEW c \in Area, Extended(c), Required \in 1..HeapUnits,
         blocks[rblock] \in 1..HeapUnits,
         Shape', skip_p' \in Heads',
         Cardinality(Used') = Cardinality(Used) + Required
  PROVE  HeapInv'
<1> USE HeapUnitsAssumption, GcLimitAssumption
<1>1. /\ allocated_size' = allocated_size + Required
      /\ RaiseLimit(allocated_size + Required) /\ Idle /\ LoopsDone
  BY DEF Extended
<1>2. allocated_size \in Nat /\ allocated_size + Required \in Nat
  BY Accounted
<1>3. /\ limit' \in Nat /\ allocated_size + Required <= limit'
      /\ limit' = limit \/ limit' <= allocated_size + Required + GcLimit
  BY <1>1, <1>2, RaiseLimitOK DEF HeapInv, TypeOK
<1>4. SkipPointerValid'
  BY DEF SkipPointerValid
<1>5. TypeOK'
  <2>1. /\ next_offset' \in [Headers -> Area \cup {End}] /\ size' \in [Headers -> 0..HeapUnits]
        /\ blocks' \in [Area -> 0..HeapUnits]
    BY DEF Shape, ListOK, BlocksOK
  <2>2. skip_p' \in Headers
    BY DEF Heads, Regions, Headers
  <2> QED BY <2>1, <2>2, <1>1, <1>2, <1>3 DEF TypeOK, Idle, LoopsDone, Headers, None, Low, High, Full
<1>6. Control'
  BY <1>1 DEF Control, Idle
<1>7. AllocatedSizeExact'
  <2>1. allocated_size + 0 = Cardinality(Used)
    BY DEF HeapInv, AllocatedSizeExact
  <2>2. allocated_size' + 0 = Cardinality(Used')
    BY <2>1, <1>1, <1>2, UsedCount
  <2> QED BY <2>2, <1>1 DEF AllocatedSizeExact, Idle
<1>8. LimitOK'
  BY <1>1, <1>2, <1>3 DEF HeapInv, TypeOK, LimitOK, Idle
<1> QED BY <1>4, <1>5, <1>6, <1>7, <1>8 DEF HeapInv, Shape

LEMMA ExtendEndInv ==
  ASSUME HeapInv, ExtendEnd
  PROVE  HeapInv'
<1> USE HeapUnitsAssumption
<1> DEFINE r == next_offset[prev]
<1>1. /\ phase = "grow" /\ rblock \in Blocks /\ rblock \in Area
      /\ blocks[rblock] \in 1..HeapUnits /\ rblock + blocks[rblock] = r
      /\ req \in 1..HeapUnits /\ Required \in 1..HeapUnits
      /\ prev \in Heads /\ r \in Regions /\ prev < rblock
  BY GrowFacts DEF ExtendEnd, AtEnd
<1>2. r \in Area /\ size[r] \in 1..HeapUnits /\ r + size[r] <= HeapUnits
  BY <1>1 DEF HeapInv, ListOK, Regions, Headers, Area
<1>3. Required \in 1..size[r] /\ Required = req - blocks[rblock]
  BY <1>1, <1>2 DEF ExtendEnd, Required
<1>4. Carve(prev, r, Required) /\ skip_p' = prev /\ Extended(rblock)
  BY DEF ExtendEnd
<1>5. /\ ListOK' /\ Regions \ {r} \subseteq Regions'
      /\ Extent(r, Required) \subseteq FreeUnits
      /\ FreeUnits' = FreeUnits \ Extent(r, Required)
  BY <1>1, <1>3, <1>4, CarveList DEF HeapInv
<1>6. /\ req > blocks[rblock] /\ rblock + req <= HeapUnits
      /\ blocks' = [blocks EXCEPT ![rblock] = 0, ![rblock] = req]
  BY <1>1, <1>2, <1>3, <1>4 DEF Extended, Area
<1>7. Shape' /\ Cardinality(Used') = Cardinality(Used) + Required
  BY <1>1, <1>2, <1>3, <1>5, <1>6, ExtendUnits DEF HeapInv, Shape
<1>8. skip_p' \in Heads'
  <2>1. prev # r
    BY <1>1, <1>2 DEF Area, Heads, Regions, First
  <2> QED BY <2>1, <1>1, <1>4, <1>5 DEF Heads
<1> QED BY <1>1, <1>4, <1>7, <1>8, ExtendedInv

LEMMA ExtendFrontInv ==
  ASSUME HeapInv, ExtendFront
  PROVE  HeapInv'
<1> USE HeapUnitsAssumption
<1>1. /\ phase = "grow" /\ rblock \in Blocks /\ rblock \in Area
      /\ blocks[rblock] \in 1..HeapUnits /\ rblock + blocks[rblock] <= HeapUnits
      /\ req \in 1..HeapUnits /\ Required \in 1..HeapUnits
      /\ Required = req - blocks[rblock]
      /\ prev \in Regions /\ prev + size[prev] = rblock /\ Required < size[prev]
  BY GrowFacts DEF ExtendFront, AtFront, Required
<1>2. prev \in Area /\ size[prev] \in 1..HeapUnits
  BY <1>1 DEF HeapInv, ListOK, Regions, Headers
<1>3. /\ size' = [size EXCEPT ![prev] = size[prev] - Required]
      /\ next_offset' = next_offset /\ skip_p' = prev /\ Extended(rblock - Required)
      /\ Required \in 1..(size[prev] - 1)
      /\ prev + size[prev] - Required = rblock - Required
  BY <1>1, <1>2 DEF ExtendFront, Area
<1>4. /\ ListOK' /\ Regions' = Regions
      /\ Extent(rblock - Required, Required) \subseteq FreeUnits
      /\ FreeUnits' = FreeUnits \ Extent(rblock - Required, Required)
  BY <1>1, <1>3, TrimList DEF HeapInv
<1>5. /\ rblock - Required \in Area /\ (rblock - Required) + req = rblock + blocks[rblock]
      /\ req > blocks[rblock] /\ (rblock - Required) + req <= HeapUnits
      /\ blocks' = [blocks EXCEPT ![rblock] = 0, ![rblock - Required] = req]
  BY <1>1, <1>2, <1>3 DEF Area, Extended
<1>6. Shape' /\ Cardinality(Used') = Cardinality(Used) + Required
  BY <1>1, <1>4, <1>5, ExtendUnits DEF HeapInv, Shape
<1>7. skip_p' \in Heads'
  BY <1>1, <1>3, <1>4 DEF Heads
<1> QED BY <1>1, <1>3, <1>5, <1>6, <1>7, ExtendedInv

LEMMA FrontExactDoneInv ==
  ASSUME HeapInv, FrontExactDone
  PROVE  HeapInv'
<1> USE HeapUnitsAssumption
<1>1. /\ phase = "grow" /\ rblock \in Blocks /\ fblock \in Regions
      /\ fblock + size[fblock] = rblock /\ size[fblock] = req - blocks[rblock]
      /\ prev \in Heads /\ prev < fblock /\ next_offset[prev] >= fblock
      /\ blocks[rblock] < req
  BY DEF HeapInv, Control, FindOK, FrontExactDone, Found
<1>2. /\ rblock \in Area /\ blocks[rblock] \in 1..HeapUnits
      /\ rblock + blocks[rblock] <= HeapUnits
  BY <1>1, BlockUnits DEF HeapInv
<1>3. fblock \in Area /\ size[fblock] \in 1..HeapUnits
  BY <1>1 DEF HeapInv, ListOK, Regions, Headers
<1>4. next_offset[prev] = fblock
  <2>1. fblock >= next_offset[prev]
    BY <1>1, <1>3 DEF HeapInv, ListOK, FreeListSorted, Heads, Regions, Area, First
  <2>2. next_offset[prev] \in Int
    BY <1>1 DEF HeapInv, ListOK, Heads, Headers, Regions, Area, End
  <2> QED BY <2>1, <2>2, <1>1, <1>3 DEF Area
<1>5. Carve(prev, fblock, size[fblock]) /\ skip_p' = prev /\ Extended(fblock)
  BY DEF FrontExactDone, Carve
<1>6. /\ ListOK' /\ Regions' = Regions \ {fblock}
      /\ Extent(fblock, size[fblock]) \subseteq FreeUnits
      /\ FreeUnits' = FreeUnits \ Extent(fblock, size[fblock])
  BY <1>1, <1>3, <1>4, <1>5, CarveList DEF HeapInv
<1>7. /\ req \in 1..HeapUnits /\ fblock + req = rblock + blocks[rblock]
      /\ fblock + req <= HeapUnits
      /\ blocks' = [blocks EXCEPT ![rblock] = 0, ![fblock] = req]
  <2>1. req \in 1..HeapUnits
    BY <1>1, <1>2 DEF HeapInv, TypeOK
  <2>2. fblock + req = rblock + blocks[rblock] /\ fblock + req <= HeapUnits
    BY <2>1, <1>1, <1>2, <1>3 DEF Area
  <2> QED BY <2>1, <2>2, <1>5 DEF Extended
<1>8. Required = size[fblock] /\ Required \in 1..HeapUnits
  BY <1>1, <1>3 DEF Required
<1>9. Shape' /\ Cardinality(Used') = Cardinality(Used) + Required
  <2>1. Shape' /\ Cardinality(Used') = Cardinality(Used) + (req - blocks[rblock])
    BY <1>1, <1>2, <1>3, <1>6, <1>7, ExtendUnits DEF HeapInv, Shape
  <2> QED BY <2>1 DEF Required
<1>10. skip_p' \in Heads'
  <2>1. prev # fblock
    BY <1>1, <1>3 DEF Area, Heads, Regions, First
  <2> QED BY <2>1, <1>1, <1>5, <1>6 DEF Heads
<1> QED BY <1>1, <1>2, <1>3, <1>5, <1>8, <1>9, <1>10, ExtendedInv

\* Every step preserves the invariant: one case per action.
LEMMA NextInv == HeapInv /\ [Next]_vars => HeapInv'
<1> SUFFICES ASSUME HeapInv, [Next]_vars PROVE HeapInv'
  OBVIOUS
<1>1. ASSUME NEW n \in Sizes, NEW max \in {High, Full}, AllocCall(n, max) PROVE HeapInv'
  BY <1>1, AllocCallInv
<1>2. ASSUME NEW b \in Area, FreeCall(b) PROVE HeapInv'
  BY <1>2, FreeCallInv
<1>3. ASSUME NEW b \in Area, NEW n \in Sizes, ShrinkCall(b, n) PROVE HeapInv'
  BY <1>3, ShrinkCallInv
<1>4. ASSUME NEW b \in Area, NEW n \in Sizes, GrowCall(b, n) PROVE HeapInv'
  BY <1>4, GrowCallInv
<1>5. CASE AllocStep
  BY <1>5, AllocFastInv, AllocSlowInv, WalkNextInv, WalkFitInv, WalkFailInv DEF AllocStep
<1>6. CASE FreeStep
  BY <1>6, FindNextInv, FreeDoneInv DEF FreeStep
<1>7. CASE ReallocStep
  BY <1>7, ShrinkDoneInv, ExtendEndInv, ExtendFrontInv, ExtendFrontExactInv,
     FrontExactDoneInv, GrowMoveInv, MoveDoneInv DEF ReallocStep
<1>8. CASE GcStep
  BY <1>8, GcEndInv, GcFreeInv DEF GcStep
<1>9. CASE UNCHANGED vars
  <2>1. /\ Shape' /\ SkipPointerValid'
        /\ Used' = Used /\ Regions' = Regions /\ Heads' = Heads /\ Blocks' = Blocks
    BY <1>9, HeapUnchanged DEF vars, HeapInv, Shape
  <2>2. TypeOK'
    BY <1>9 DEF HeapInv, TypeOK, vars, heapVars, callVars, loopVars
  <2>3. Control'
    BY <1>9, <2>1 DEF HeapInv, Control, WalkOK, FindOK, vars, heapVars, callVars, loopVars
  <2>4. AllocatedSizeExact' /\ LimitOK'
    BY <1>9, <2>1 DEF HeapInv, AllocatedSizeExact, LimitOK, vars, heapVars, callVars, loopVars
  <2> QED BY <2>1, <2>2, <2>3, <2>4 DEF HeapInv, Shape
<1> QED BY <1>1, <1>2, <1>3, <1>4, <1>5, <1>6, <1>7, <1>8, <1>9
        DEF Next, ClientCall, CallStep, Terminated

\* The invariant holds in every state the allocator reaches.
THEOREM HeapInvariant == Spec => []HeapInv
<1>1. Init => HeapInv
  BY InitInv
<1>2. HeapInv /\ [Next]_vars => HeapInv'
  BY NextInv
<1> QED BY <1>1, <1>2, PTL DEF Spec

\* All pointers and counters of the allocator stay in their range.
THEOREM HeapTypes == Spec => []TypeOK
<1>1. HeapInv => TypeOK
  BY DEF HeapInv
<1> QED BY <1>1, HeapInvariant, PTL

\* The free list is sorted by address and complete.
THEOREM HeapFreeList == Spec => []FreeListSorted
<1>1. HeapInv => FreeListSorted
  BY DEF HeapInv, ListOK
<1> QED BY <1>1, HeapInvariant, PTL

\* No two free regions touch: every free merged its block with both neighbours.
THEOREM HeapCoalesced == Spec => []Coalesced
<1>1. HeapInv => Coalesced
  <2> SUFFICES ASSUME HeapInv PROVE Coalesced
    OBVIOUS
  <2>1. \A r \in Regions : /\ r + size[r] < next_offset[r]
                           /\ r + size[r] \in Int /\ next_offset[r] \in Int
    BY HeapUnitsAssumption DEF HeapInv, ListOK, Regions, Headers, Area, End
  <2> QED BY <2>1 DEF Coalesced
<1> QED BY <1>1, HeapInvariant, PTL

\* jmem_heap_list_skip_p is the head of the list or a free region of it.
THEOREM HeapSkipPointer == Spec => []SkipPointerValid
<1>1. HeapInv => SkipPointerValid
  BY DEF HeapInv, ListOK
<1> QED BY <1>1, HeapInvariant, PTL

\* No unit has two owners.
THEOREM HeapNoOverlap == Spec => []NoOverlap
<1>1. HeapInv => NoOverlap
  <2> SUFFICES ASSUME HeapInv PROVE NoOverlap
    OBVIOUS
  <2> USE HeapUnitsAssumption
  <2>1. \A r \in Regions : /\ r \in Area /\ size[r] \in 1..HeapUnits
                           /\ r + size[r] <= HeapUnits
                           /\ next_offset[r] \in Int /\ r + size[r] < next_offset[r]
    BY DEF HeapInv, ListOK, Regions, Headers, Area, End
  <2>2. \A r, s \in Regions : r < s => next_offset[r] <= s
    BY DEF HeapInv, ListOK, FreeListSorted, Heads
  <2>3. \A r, s \in Regions : r < s => r + size[r] <= s
    BY <2>1, <2>2 DEF Area
  <2>4. ASSUME NEW b \in Blocks, NEW r \in Regions
        PROVE  b + blocks[b] <= r \/ r + size[r] <= b
    <3>1. /\ b \in Area /\ blocks[b] \in 1..HeapUnits
          /\ Extent(b, blocks[b]) \subseteq Used
      BY BlockUnits DEF HeapInv
    <3>2. Extent(r, size[r]) \subseteq FreeUnits
      BY <2>1 DEF FreeUnits, Extent, Area
    <3>3. Extent(b, blocks[b]) \cap Extent(r, size[r]) = {}
      BY <3>1, <3>2 DEF HeapInv, Partition
    <3>4. CASE b <= r
      <4>1. r \notin Extent(b, blocks[b])
        BY <3>3, <2>1 DEF Extent, Area
      <4> QED BY <4>1, <3>4, <3>1, <2>1 DEF Extent, Area
    <3>5. CASE r < b
      <4>1. b \notin Extent(r, size[r])
        BY <3>3, <3>1 DEF Extent, Area
      <4> QED BY <4>1, <3>5, <3>1, <2>1 DEF Extent, Area
    <3> QED BY <3>4, <3>5, <3>1, <2>1 DEF Area
  <2> QED BY <2>1, <2>3, <2>4 DEF NoOverlap, HeapInv, BlocksOK
<1> QED BY <1>1, HeapInvariant, PTL

\* No unit has no owner.
THEOREM HeapNoLeak == Spec => []NoLeak
<1>1. HeapInv => NoLeak
  BY DEF HeapInv, Partition, FreeUnits, NoLeak
<1> QED BY <1>1, HeapInvariant, PTL

\* allocated_size is the sum of the blocks in use, the old block of a move included.
THEOREM HeapAccounting == Spec => []AllocatedSizeExact
<1>1. HeapInv => AllocatedSizeExact
  BY DEF HeapInv
<1> QED BY <1>1, HeapInvariant, PTL

\* The limit follows allocated_size, and the assertions at both ends of
\* jmem_heap_free_block_internal hold.
THEOREM HeapLimit == Spec => []LimitTracksAllocation
<1>1. HeapInv => LimitTracksAllocation
  <2> SUFFICES ASSUME HeapInv PROVE LimitTracksAllocation
    OBVIOUS
  <2>1. pc = "idle" => allocated_size <= limit /\ limit <= allocated_size + GcLimit
    BY GcLimitAssumption DEF HeapInv, TypeOK, Control, LimitOK
  <2>2. ASSUME pc = "find", why = "free" PROVE limit >= allocated_size /\ allocated_size > 0
    <3>1. fblock \in Blocks /\ fblock # rblock
      BY <2>2 DEF HeapInv, Control, FindOK
    <3>2. blocks[fblock] \in 1..HeapUnits
      BY <3>1, BlockUnits DEF HeapInv
    <3>3. blocks[fblock] <= allocated_size /\ allocated_size \in Nat
      BY <3>1, Accounted
    <3> QED BY <3>2, <3>3, HeapUnitsAssumption DEF HeapInv, TypeOK, LimitOK
  <2> QED BY <2>1, <2>2 DEF LimitTracksAllocation
<1> QED BY <1>1, HeapInvariant, PTL

\* An attempt to allocate fails only when no run of that many units is free: this
\* is where completeness and coalescing of the free list pay off.
THEOREM HeapFailsOnlyWhenFull == Spec => []FailsOnlyWhenFull
<1>1. HeapInv => FailsOnlyWhenFull
  <2> SUFFICES ASSUME HeapInv, pc = "walk", current = End,
                      NEW b \in Area, Extent(b, req) \cap Used = {}, b + req <= HeapUnits
               PROVE  FALSE
    BY DEF FailsOnlyWhenFull
  <2> USE HeapUnitsAssumption
  <2>1. req \in 1..HeapUnits /\ prev \in Heads /\ next_offset[prev] = End
    BY DEF HeapInv, TypeOK, Control, WalkOK
  <2>2. \A r \in Regions : r \in Area /\ size[r] \in 1..HeapUnits /\ r + size[r] <= HeapUnits
    BY DEF HeapInv, ListOK, Regions, Headers, Area
  <2>3. \A r \in Regions : size[r] < req
    <3>1. \A r \in Regions : r > prev => r >= End
      BY <2>1 DEF HeapInv, ListOK, FreeListSorted
    <3>2. prev \in Int
      BY <2>1 DEF Heads, Regions, Area, First
    <3>3. \A r \in Regions : r <= prev
      BY <3>1, <3>2, <2>2 DEF Area, End
    <3> QED BY <3>3 DEF HeapInv, Control, WalkOK
  <2>4. Extent(b, req) \subseteq FreeUnits
    BY <2>1 DEF HeapInv, Partition, Extent, Area
  <2>5. PICK r \in Regions : b \in Extent(r, size[r])
    BY <2>4, <2>1 DEF FreeUnits, Extent, Area
  <2>6. r + size[r] \in Extent(b, req)
    BY <2>5, <2>3, <2>2, <2>1 DEF Extent, Area
  <2>7. PICK s \in Regions : r + size[r] \in Extent(s, size[s])
    BY <2>4, <2>6 DEF FreeUnits
  <2>8. r < s
    <3>1. s + size[s] > r + size[r] /\ s <= r + size[r]
      BY <2>7, <2>2 DEF Extent, Area
    <3>2. s < r => s + size[s] <= r
      <4>1. s < r => next_offset[s] <= r
        BY DEF HeapInv, ListOK, FreeListSorted, Heads
      <4>2. s + size[s] < next_offset[s] /\ next_offset[s] \in Int
        BY <2>2 DEF HeapInv, ListOK, Headers, Area, End, Regions
      <4> QED BY <4>1, <4>2, <2>2 DEF Area
    <3> QED BY <3>1, <3>2, <2>2 DEF Area
  <2>9. next_offset[r] <= s /\ r + size[r] < next_offset[r] /\ next_offset[r] \in Int
    BY <2>8 DEF HeapInv, ListOK, FreeListSorted, Heads, Headers, Regions, Area, End
  <2> QED BY <2>7, <2>9, <2>2 DEF Extent, Area
<1> QED BY <1>1, HeapInvariant, PTL

\* The steps in which the client's blocks change are steps of HeapPromise.
LEMMA GrantPromise ==
  ASSUME HeapInv, NEW p \in Heads, NEW r \in Regions, next_offset[p] = r,
         req \in 1..size[r], Carve(p, r, req), blocks' = [blocks EXCEPT ![r] = req]
  PROVE  Promise!Next
<1> USE HeapUnitsAssumption
<1>1. Extent(r, req) \cap Used = {}
  BY TakeUnits DEF HeapInv, Shape
<1>2. /\ r \in Area /\ size[r] \in 1..HeapUnits /\ r + size[r] <= HeapUnits
      /\ req \in 1..HeapUnits
  BY DEF HeapInv, ListOK, Regions, Headers, Area
<1>3. Promise!Grant(r, req)
  BY <1>1, <1>2 DEF Promise!Grant, Promise!Extent, Promise!OwnedBy, Promise!Area, Extent, Used, Area
<1> QED BY <1>2, <1>3 DEF Promise!Next, Promise!Area, Area

LEMMA ResizePromise ==
  ASSUME HeapInv, NEW b \in Blocks, NEW c \in Area, NEW n \in 1..HeapUnits,
         NEW at \in Area,
         n > blocks[b], c + n <= HeapUnits,
         \/ c = b /\ at = b + blocks[b]
         \/ c + n = b + blocks[b] /\ at = c,
         Extent(at, n - blocks[b]) \subseteq FreeUnits,
         blocks' = [blocks EXCEPT ![b] = 0, ![c] = n]
  PROVE  Promise!Next
<1> USE HeapUnitsAssumption
<1>1. Extent(at, n - blocks[b]) \cap Used = {}
  BY DEF HeapInv, Partition
<1>2. Extent(c, n) \cap {u \in Area : \E d \in Area \ {b} : u \in Extent(d, blocks[d])} = {}
  BY <1>1, ExtendBlock DEF HeapInv
<1>3. b \in Area /\ blocks[b] # 0
  BY DEF Blocks
<1>4. Promise!Resize(b, c, n)
  BY <1>2, <1>3 DEF Promise!Resize, Promise!Extent, Promise!OwnedBy, Promise!Area, Extent, Area
<1> QED BY <1>3, <1>4 DEF Promise!Next, Promise!Area, Area

LEMMA StepPromise == HeapInv /\ [Next]_vars => [Promise!Next]_blocks
<1> SUFFICES ASSUME HeapInv, [Next]_vars, blocks' # blocks PROVE Promise!Next
  OBVIOUS
<1> USE HeapUnitsAssumption
<1>1. CASE WalkFit
  <2>1. /\ prev \in Heads /\ next_offset[prev] = current /\ current \in Regions
        /\ req > 0 /\ req \in Nat /\ size[current] >= req /\ size[current] \in Nat
    <3>1. prev \in Heads /\ next_offset[prev] = current /\ req > 0
      BY <1>1 DEF HeapInv, TypeOK, Control, WalkOK, WalkFit
    <3>2. current \in Regions
      BY <1>1, <3>1 DEF HeapInv, ListOK, FreeListSorted, WalkFit
    <3> QED BY <1>1, <3>1, <3>2 DEF HeapInv, TypeOK, WalkFit, Regions, Headers
  <2>2. req \in 1..size[current]
    BY <2>1
  <2>3. Carve(prev, current, req) /\ blocks' = [blocks EXCEPT ![current] = req]
    BY <1>1 DEF WalkFit, AllocReturn
  <2> QED BY <2>1, <2>2, <2>3, GrantPromise
<1>2. CASE AllocFast
  <2> DEFINE data == next_offset[First]
  <2>1. First \in Heads /\ data \in Regions /\ req = 1
    BY <1>2 DEF AllocFast, HeapInv, ListOK, FreeListSorted, Heads
  <2>2. req \in 1..size[data]
    BY <2>1 DEF HeapInv, ListOK, Regions, Headers
  <2>3. Carve(First, data, req) /\ blocks' = [blocks EXCEPT ![data] = req]
    BY <1>2, <2>1 DEF AllocFast, AllocReturn
  <2> QED BY <2>1, <2>2, <2>3, GrantPromise
<1>3. CASE FreeDone
  <2>1. fblock \in Blocks
    BY <1>3 DEF HeapInv, Control, FindOK, FreeDone, Found
  <2>2. Promise!Release(fblock)
    BY <1>3, <2>1 DEF FreeDone, Promise!Release, Blocks
  <2> QED BY <2>1, <2>2 DEF Promise!Next, Promise!Area, Area, Blocks
<1>4. CASE MoveDone
  <2>1. rblock \in Blocks
    BY <1>4 DEF HeapInv, Control, FindOK, MoveDone, Found
  <2>2. Promise!Release(rblock)
    BY <1>4, <2>1 DEF MoveDone, Promise!Release, Blocks
  <2> QED BY <2>1, <2>2 DEF Promise!Next, Promise!Area, Area, Blocks
<1>5. CASE ShrinkDone
  <2>1. fblock \in Blocks /\ req \in 1..(blocks[fblock] - 1)
    BY <1>5 DEF HeapInv, Control, FindOK, ShrinkDone, Found
  <2>2. fblock \in Area /\ blocks[fblock] \in 1..HeapUnits /\ fblock + blocks[fblock] <= HeapUnits
    BY <2>1, BlockUnits DEF HeapInv
  <2>3. blocks' = [blocks EXCEPT ![fblock] = 0, ![fblock] = req]
    BY <1>5, <2>2 DEF ShrinkDone, HeapInv, TypeOK
  <2>4. ASSUME NEW u \in Extent(fblock, req), NEW d \in Area \ {fblock}
        PROVE  u \notin Extent(d, blocks[d])
    <3>1. blocks[d] \in 0..HeapUnits
      BY DEF HeapInv, TypeOK
    <3>2. CASE blocks[d] = 0
      BY <3>2 DEF Extent, Area
    <3>3. CASE blocks[d] # 0
      <4>1. d + blocks[d] <= fblock \/ fblock + blocks[fblock] <= d
        BY <3>3, <2>1, <2>2 DEF HeapInv, BlocksOK, Blocks, Area
      <4> QED BY <4>1, <3>1, <2>1, <2>2 DEF Extent, Area
    <3> QED BY <3>2, <3>3
  <2>5. Promise!Resize(fblock, fblock, req)
    BY <2>1, <2>2, <2>3, <2>4 DEF Promise!Resize, Promise!Extent, Promise!OwnedBy, Promise!Area, Extent, Area
  <2> QED BY <2>1, <2>2, <2>5 DEF Promise!Next, Promise!Area, Area
<1>6. CASE ExtendEnd
  <2> DEFINE r == next_offset[prev]
  <2>1. /\ rblock \in Blocks /\ rblock \in Area /\ blocks[rblock] \in 1..HeapUnits
        /\ rblock + blocks[rblock] = r /\ req \in 1..HeapUnits
        /\ Required \in 1..HeapUnits /\ prev \in Heads /\ r \in Regions
    BY <1>6, GrowFacts DEF ExtendEnd, AtEnd
  <2>2. r \in Area /\ size[r] \in 1..HeapUnits /\ r + size[r] <= HeapUnits
    BY <2>1 DEF HeapInv, ListOK, Regions, Headers, Area
  <2>3. Required \in 1..size[r] /\ Required = req - blocks[rblock]
    BY <1>6, <2>1, <2>2 DEF ExtendEnd, Required
  <2>4. Extent(r, req - blocks[rblock]) \subseteq FreeUnits
    BY <1>6, <2>1, <2>3, CarveList DEF HeapInv, ExtendEnd
  <2>5. /\ req > blocks[rblock] /\ rblock + req <= HeapUnits
        /\ blocks' = [blocks EXCEPT ![rblock] = 0, ![rblock] = req]
    BY <1>6, <2>1, <2>2, <2>3 DEF ExtendEnd, Extended, Area
  <2> QED BY <2>1, <2>2, <2>4, <2>5, ResizePromise
<1>7. CASE ExtendFront
  <2>1. /\ rblock \in Blocks /\ rblock \in Area /\ blocks[rblock] \in 1..HeapUnits
        /\ rblock + blocks[rblock] <= HeapUnits
        /\ req \in 1..HeapUnits /\ Required \in 1..HeapUnits
        /\ Required = req - blocks[rblock]
        /\ prev \in Regions /\ prev + size[prev] = rblock /\ Required < size[prev]
    BY <1>7, GrowFacts DEF ExtendFront, AtFront, Required
  <2>2. prev \in Area /\ size[prev] \in 1..HeapUnits
    BY <2>1 DEF HeapInv, ListOK, Regions, Headers
  <2>3. /\ Required \in 1..(size[prev] - 1)
        /\ prev + size[prev] - Required = rblock - Required
        /\ rblock - Required \in Area /\ (rblock - Required) + req = rblock + blocks[rblock]
        /\ req > blocks[rblock] /\ (rblock - Required) + req <= HeapUnits
    BY <2>1, <2>2 DEF Area
  <2>4. Extent(rblock - Required, req - blocks[rblock]) \subseteq FreeUnits
    BY <1>7, <2>1, <2>3, TrimList DEF HeapInv, ExtendFront
  <2>5. blocks' = [blocks EXCEPT ![rblock] = 0, ![rblock - Required] = req]
    BY <1>7 DEF ExtendFront, Extended
  <2> QED BY <2>1, <2>3, <2>4, <2>5, ResizePromise
<1>8. CASE FrontExactDone
  <2>1. /\ rblock \in Blocks /\ fblock \in Regions
        /\ fblock + size[fblock] = rblock /\ size[fblock] = req - blocks[rblock]
        /\ blocks[rblock] < req
    BY <1>8 DEF HeapInv, Control, FindOK, FrontExactDone, Found
  <2>2. /\ rblock \in Area /\ blocks[rblock] \in 1..HeapUnits
        /\ rblock + blocks[rblock] <= HeapUnits
    BY <2>1, BlockUnits DEF HeapInv
  <2>3. fblock \in Area /\ size[fblock] \in 1..HeapUnits
    BY <2>1 DEF HeapInv, ListOK, Regions, Headers
  <2>4. Extent(fblock, req - blocks[rblock]) \subseteq FreeUnits
    BY <2>1, <2>3 DEF HeapInv, ListOK, FreeUnits, Extent, Area
  <2>5. req \in 1..HeapUnits
    BY <2>1, <2>2 DEF HeapInv, TypeOK
  <2>6. fblock + req = rblock + blocks[rblock] /\ fblock + req <= HeapUnits
    BY <2>1, <2>2, <2>3, <2>5 DEF Area
  <2>7. blocks' = [blocks EXCEPT ![rblock] = 0, ![fblock] = req]
    BY <1>8 DEF FrontExactDone, Extended
  <2> QED BY <2>1, <2>3, <2>4, <2>5, <2>6, <2>7, ResizePromise
<1>9. CASE ClientCall
  BY <1>9 DEF ClientCall, AllocCall, FreeCall, ShrinkCall, GrowCall, heapVars
<1>10. CASE AllocSlow \/ WalkNext \/ WalkFail \/ FindNext \/ ExtendFrontExact \/ GrowMove
  BY <1>10 DEF AllocSlow, WalkNext, WalkFail, FindNext, ExtendFrontExact, GrowMove, heapVars
<1>11. CASE GcStep
  BY <1>11 DEF GcStep, GcEnd, GcFree, heapVars
<1>12. CASE UNCHANGED vars
  BY <1>12 DEF vars, heapVars
<1> QED BY <1>1, <1>2, <1>3, <1>4, <1>5, <1>6, <1>7, <1>8, <1>9, <1>10, <1>11, <1>12
        DEF Next, CallStep, AllocStep, FreeStep, ReallocStep, Terminated

\* The allocator with its list, limits and collections implements HeapPromise:
\* every block it hands out, resizes or takes back is the client's alone.
THEOREM HeapKeepsPromise == Spec => KeepsPromise
<1>1. Init => Promise!Init
  BY DEF Init, Promise!Init, Promise!Area, Area
<1>2. HeapInv /\ [Next]_vars => [Promise!Next]_blocks
  BY StepPromise
<1> QED BY <1>1, <1>2, HeapInvariant, PTL DEF Spec, KeepsPromise, Promise!Spec
=============================================================================
