--------------------------- MODULE MCWorkdirCleanup ---------------------------
(* Values of the constants for model-checking WorkdirCleanup: a media file *)
(* is smaller than a control file, so that a round may or may not need to  *)
(* delete more than one file to get down to the target.  Streams are       *)
(* alike, and so are control files.                                        *)
EXTENDS WorkdirCleanup, TLC

SizeOf == [f \in Files |-> IF f \in Media THEN 1 ELSE 2]
Symmetry == Permutations(Streams) \cup Permutations(Control)
===============================================================================
