--------------------------- MODULE MCServerShutdown ---------------------------
(* Values of the constants for model-checking ServerShutdown: three tokens *)
(* of one bot (its owner has revoked tokens), which share its update queue. *)
EXTENDS ServerShutdown

OneQueue == [t \in Bots |-> "queue"]
===============================================================================
