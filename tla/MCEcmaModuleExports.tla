------------------------- MODULE MCEcmaModuleExports -------------------------
(* Exports of few modules and names. *)
EXTENDS EcmaModuleExports, TLC

Symmetry == Permutations(Exporter)
=============================================================================
