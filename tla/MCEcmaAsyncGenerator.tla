------------------------ MODULE MCEcmaAsyncGenerator ------------------------
(* An async generator with few requests. *)
EXTENDS EcmaAsyncGenerator
=============================================================================
