--------------------------- MODULE StreamedResponse ---------------------------
(***************************************************************************)
(* What a streamed response promises to the HTTP client, whatever the      *)
(* download behind it does: the client gets one response; a successful one *)
(* only for a range that selects a byte, with their number as its length,  *)
(* and then the selected bytes of the file from the first on, in ascending *)
(* order; and the connection is ready for the next request only after the  *)
(* last of them.  Until then the server may give up in one way only: it    *)
(* drops the connection.                                                   *)
(***************************************************************************)
EXTENDS Naturals, FiniteSets

VARIABLES
  want,      \* the positions that the Range header of the request selects
  head,      \* the request is a HEAD request: headers alone
  response,  \* the response that has begun: "none", "ok" or "error"
  length,    \* the Content-Length it has announced
  got,       \* the positions the client has received
  conn       \* "busy", "idle" (ready for the next request) or "dropped"

vars == <<want, head, response, length, got, conn>>

Init == /\ want \subseteq Nat /\ head \in BOOLEAN
        /\ response = "none" /\ length = 0 /\ got = {} /\ conn = "busy"

Begin ==
  /\ conn = "busy" /\ response = "none" /\ want # {}
  /\ response' = "ok" /\ length' = Cardinality(want)
  /\ UNCHANGED <<want, head, got, conn>>

(* An error is told in a whole response of its own. *)
Refuse ==
  /\ conn = "busy" /\ response = "none"
  /\ response' = "error" /\ conn' = "idle"
  /\ UNCHANGED <<want, head, length, got>>

Send ==
  /\ conn = "busy" /\ response = "ok" /\ ~head
  /\ \E k \in want \ got : got' = {b \in want : b <= k}
  /\ UNCHANGED <<want, head, response, length, conn>>

Finish ==
  /\ conn = "busy" /\ response = "ok"
  /\ head \/ got = want
  /\ conn' = "idle"
  /\ UNCHANGED <<want, head, response, length, got>>

Drop ==
  /\ conn # "dropped"
  /\ conn' = "dropped"
  /\ UNCHANGED <<want, head, response, length, got>>

Spec == Init /\ [][Begin \/ Refuse \/ Send \/ Finish \/ Drop]_vars
===============================================================================
