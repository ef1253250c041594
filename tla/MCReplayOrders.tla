--------------------------- MODULE MCReplayOrders ---------------------------
(* ReplayOrders for TLC: three prices, and every bar over them that closes *)
(* where it opened.                                                        *)
EXTENDS ReplayOrders

MCPrices == 1..3
MCBar == {b \in [o : MCPrices, h : MCPrices, l : MCPrices, c : MCPrices] :
            b.l <= b.o /\ b.o <= b.h /\ b.c = b.o}
=============================================================================
