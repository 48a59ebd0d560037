--------------------------- MODULE MCBacktestJobs ---------------------------
(* Small instances of BacktestJobs for TLC.                                 *)
EXTENDS BacktestJobs
=============================================================================
