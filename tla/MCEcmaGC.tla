------------------------------ MODULE MCEcmaGC ------------------------------
(* The collector on small heaps.                                           *)
EXTENDS EcmaGC, TLC

Symmetry == Permutations(Obj)
=============================================================================
