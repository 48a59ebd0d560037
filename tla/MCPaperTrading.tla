--------------------------- MODULE MCPaperTrading ---------------------------
(* Small instances of PaperTrading for TLC.                                 *)
EXTENDS PaperTrading
=============================================================================
