-------------------------- MODULE MCReplaySessions --------------------------
(* ReplaySessions for TLC: session ids are interchangeable.                *)
EXTENDS ReplaySessions, TLC

Symmetry == Permutations(Sessions)
=============================================================================
