--------------------------- MODULE MCJournalPages ---------------------------
(* February and March 2028: a leap day with trades that cancel out, two      *)
(* months, enough rows for the footer to leave pages out.                    *)
EXTENDS JournalPages

MCTrades == 1 .. 9
MCDayOf == [t \in MCTrades |-> CASE t \in 1 .. 2 -> 57 [] t \in 3 .. 6 -> 59 [] t = 7 -> 60 [] OTHER -> 62]
MCSymbolOf == [t \in MCTrades |-> IF t \in {2, 4, 7} THEN 2 ELSE 1]
MCNetOf == [t \in MCTrades |-> CASE t = 1 -> 3 [] t = 3 -> -3 [] t = 5 -> 1 [] t = 8 -> -4 [] OTHER -> t]
MCStartRows == MCTrades \ {4}
MCMonths == {2028 * 12 + 1, 2028 * 12 + 2}
MCUrl(path, f, p, n, v) == [path |-> path, filter |-> f, page |-> p, size |-> n, view |-> v]
MCFirstUrls == {MCUrl("/", EmptyFilter, 0, 0, ""), MCUrl("/trades", EmptyFilter, 9, 8, "year")}
=============================================================================
