----------------------------- MODULE MCLiveBars -----------------------------
(* Small instances of LiveBars for TLC. *)
EXTENDS LiveBars, TLC

\* Browsers are interchangeable.
Symmetry == Permutations(Browsers)
=============================================================================
