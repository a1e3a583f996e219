----------------------------- MODULE MCJmemHeap -----------------------------
(* The heap allocator on a small area. *)
EXTENDS JmemHeap
=============================================================================
