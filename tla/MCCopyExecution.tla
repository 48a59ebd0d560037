--------------------------- MODULE MCCopyExecution ---------------------------
(* Small instances of CopyExecution for TLC.                                *)
EXTENDS CopyExecution
=============================================================================
