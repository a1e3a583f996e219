----------------------- MODULE MCEcmaPromiseReactions -----------------------
(* Promises with few promises, reactions and nested calls. *)
EXTENDS EcmaPromiseReactions, TLC

Symmetry == Permutations(Promise)
=============================================================================
