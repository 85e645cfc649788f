------------------------- MODULE MCFileStreamListeners -------------------------
(* Model-checking FileStreamListeners: streams and queries are model        *)
(* values.  They are not interchangeable, for one is a No-Cache stream and  *)
(* the pending ones are kept in order.                                      *)
EXTENDS FileStreamListeners

CONSTANTS s1, s2

Case(streams, faults) == [streams |-> streams, faults |-> faults]

(* Two streams of a client that may close, two streams while TDLib answers  *)
(* with errors, and one stream with everything that may go wrong.           *)
AllCases == {Case({s1, s2}, {"closing"}), Case({s1, s2}, {"td_error"}),
             Case({s1}, TdFaults \cup EarlyEnds \cup {"closing", "logged_out"})}

EarlyEnd == {Case({s1}, {"early_end"})}
BadToken == {Case({s1}, {"logged_out"})}
================================================================================
