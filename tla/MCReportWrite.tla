---------------------------- MODULE MCReportWrite ----------------------------
(* ReportWrite for TLC: directories are interchangeable, and the bounds of *)
(* each run are in its .cfg.                                               *)
EXTENDS ReportWrite, TLC

DirectorySymmetry == Permutations(Directories)
=============================================================================
