--------------------------- MODULE MCFileStreamSlots ---------------------------
(* Model-checking FileStreamSlots: streams and bots are model values, each  *)
(* request picks its bot in the initial state.  No symmetry is used, since  *)
(* the run checks liveness.                                                 *)
EXTENDS FileStreamSlots
===============================================================================
