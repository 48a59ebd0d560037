---------------------------- MODULE MCPaperDesk -----------------------------
(* A small instance of PaperDesk for TLC: loops are interchangeable.        *)
EXTENDS PaperDesk, TLC
Loops == Permutations(Pid)
=============================================================================
