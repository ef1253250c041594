--------------------------- MODULE MCTradeJournal ---------------------------
(* Small instances of TradeJournal for TLC. *)
EXTENDS TradeJournal, TLC

\* Requests are interchangeable, and so are accounts (safety runs only).
Symmetry == Permutations(Requests) \cup Permutations(Accounts)
=============================================================================
