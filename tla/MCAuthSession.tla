--------------------------- MODULE MCAuthSession ---------------------------
(* Small instances of AuthSession for TLC. *)
EXTENDS AuthSession, TLC

\* The tabs are interchangeable (safety runs only).
Symmetry == Permutations(Tabs)
=============================================================================
