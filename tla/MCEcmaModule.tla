---------------------------- MODULE MCEcmaModule ----------------------------
(* Modules with few modules and requests. *)
EXTENDS EcmaModule, TLC

Symmetry == Permutations(Module)
=============================================================================
