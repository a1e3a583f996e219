---------------------------- MODULE MCEcmaPromise ----------------------------
(* The job queue with foreign constructors, errors and nested runs. *)
EXTENDS EcmaPromise
=============================================================================
