----------------------------- MODULE MCDrawings -----------------------------
(* Drawings for TLC: two charts of two symbols, and a session that comes   *)
(* with two shapes, the newer of them in the lower layer.                  *)
EXTENDS Drawings

MCPane == {0, 1}
MCPaneSym == [k \in MCPane |-> IF k = 0 THEN "NQ" ELSE "ES"]

Old(id, type, text) == [id |-> id, sym |-> "NQ", type |-> type, at |-> 0, style |-> "plain",
                        text |-> text, locked |-> FALSE, hidden |-> FALSE, vis |-> TRUE]
MCSessions == {<<>>, <<Old(2, "text", "a"), Old(1, "trend", "")>>}
=============================================================================
