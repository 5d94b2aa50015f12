--------------------------- MODULE MCBinanceWSManager ---------------------------
(* Values of the constants for the runs of BinanceWSManager. *)
EXTENDS BinanceWSManager

MCBoth == <<"spot", "perp">>
MCPerpOnly == [m \in {"spot", "perp"} |-> IF m = "spot" THEN {} ELSE {"mark"}]
=============================================================================
