---------------------------- MODULE MCPaperEngine ----------------------------
(* A small instance of PaperEngine for TLC.                                 *)
EXTENDS PaperEngine, TLC

Symmetry == Permutations(Pid) \cup Permutations(Server) \cup Permutations(Request)

=============================================================================
