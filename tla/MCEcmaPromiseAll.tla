-------------------------- MODULE MCEcmaPromiseAll --------------------------
EXTENDS EcmaPromiseAll
=============================================================================
