--------------------------- MODULE MCEcmaProperty ---------------------------
EXTENDS EcmaProperty, TLC

\* Names 0, 1 and 3 start at the same entry of a table of four, 0 and 1 with
\* the same step.
MCHash == [n \in Name |-> CASE n = 0 -> 0 [] n = 1 -> 8 [] n = 2 -> 1 [] OTHER -> 4]

MCNamesOf == [o \in Object |-> IF o = 0 THEN Name ELSE {0}]

Symmetry == Permutations(Pair)
=============================================================================
