----------------------------- MODULE HeapPromise -----------------------------
(***************************************************************************)
(* What a client of the heap allocator relies on, without free list, skip  *)
(* pointer, limits or collections: a block it is given consists of units   *)
(* nobody else owns, it keeps them until it gives them back, and a resize  *)
(* in place takes no unit of another block.                                *)
(***************************************************************************)
EXTENDS Integers

CONSTANT Units            \* units in the heap area
VARIABLE blocks           \* units owned from an offset on, 0 if none

Area == 0..(Units - 1)
Extent(b, n) == b..(b + n - 1)
OwnedBy(bs) == {u \in Area : \E b \in bs : u \in Extent(b, blocks[b])}

Init == blocks = [o \in Area |-> 0]

\* n units at b are handed out (an allocation, or the new block of a move).
Grant(b, n) ==
  /\ Extent(b, n) \subseteq Area
  /\ Extent(b, n) \cap OwnedBy(Area) = {}
  /\ blocks' = [blocks EXCEPT ![b] = n]

\* The block at b is given back (a free, or the old block of a move).
Release(b) ==
  /\ blocks[b] # 0
  /\ blocks' = [blocks EXCEPT ![b] = 0]

\* The block at b becomes the n units at c, which touch no other block.  It
\* shrinks or grows at the end (c = b), or grows at the front (c + n is the end).
Resize(b, c, n) ==
  /\ blocks[b] # 0
  /\ Extent(c, n) \subseteq Area
  /\ Extent(c, n) \cap OwnedBy(Area \ {b}) = {}
  /\ c = b \/ c + n = b + blocks[b]
  /\ blocks' = [blocks EXCEPT ![b] = 0, ![c] = n]

Next ==
  \/ \E b \in Area, n \in 1..Units : Grant(b, n)
  \/ \E b \in Area : Release(b)
  \/ \E b, c \in Area, n \in 1..Units : Resize(b, c, n)

Spec == Init /\ [][Next]_blocks
=============================================================================
