-------------------------- MODULE MCReplayCharts --------------------------
(* Two symbols over a weekend with the spring clock change of New York. *)
EXTENDS ReplayCharts

Bar(t, o, h, l, c) == [t |-> t, o |-> o, h |-> h, l |-> l, c |-> c]

\* Friday from 08:00, Sunday from 18:00, Monday to 10:00, New York time.
MCBars == [nq |-> <<Bar(205, 5, 6, 4, 5), Bar(206, 5, 8, 5, 7), Bar(207, 7, 7, 3, 4), Bar(208, 4, 9, 4, 8),
                    Bar(212, 8, 8, 5, 5), Bar(213, 5, 7, 2, 3), Bar(262, 3, 10, 3, 8), Bar(263, 8, 8, 6, 6),
                    Bar(264, 6, 7, 5, 6), Bar(265, 6, 9, 6, 9), Bar(270, 9, 9, 1, 2), Bar(271, 2, 12, 2, 4), Bar(277, 4, 4, 2, 4),
                    Bar(278, 4, 9, 4, 9)>>,
           es |-> <<Bar(207, 5, 9, 4, 5), Bar(208, 5, 7, 3, 6), Bar(212, 6, 8, 5, 7), Bar(262, 7, 7, 4, 5),
                    Bar(264, 5, 6, 3, 4), Bar(265, 4, 5, 3, 5), Bar(270, 5, 6, 1, 1), Bar(278, 1, 3, 1, 2)>>]

MCKillzones == {[start |-> 8, end |-> 10], [start |-> 20, end |-> 0]}
MCLevelTimes == {9}
MCNavItems == {"asian", "ny", "dayOpen"}
MCDefaultNav == [slots |-> [asian |-> 19, ny |-> 9, dayOpen |-> 17], skip |-> {}]
MCSkipChoices == {{1}, 0 .. 6}
===========================================================================
