---------------------------- MODULE FileStreamRoute ----------------------------
(***************************************************************************)
(* The Range header of a stream request, parse_file_stream_range of        *)
(* server/FileStreamRoute.cpp.                                             *)
(*                                                                         *)
(* The text of a Range header is abstracted to what the parser tells       *)
(* apart: the unit before the number part, whether the number part lists   *)
(* several ranges, and what stands left and right of the first dash.  A    *)
(* side is Absent (blank after trimming), Malformed (to_integer_safe<int64>*)
(* fails: not a decimal number, a sign or a leading zero, or a number over *)
(* MaxInt64) or a number.  A side left of the first dash holds no dash, so *)
(* it is never negative; a side right of it may be, as in "bytes=1--5".    *)
(***************************************************************************)
EXTENDS FileStreamCursor

CONSTANTS
  MaxInt64,     \* the largest value of td::int64
  Absent,       \* a blank side of the dash
  Malformed     \* a side that to_integer_safe<td::int64> rejects

ASSUME WidthAssumption == MaxInt64 \in Nat
ASSUME SideAssumption == /\ Absent \notin Int
                         /\ Malformed \notin Int
                         /\ Absent # Malformed

Sides == {Absent, Malformed} \cup (-MaxInt64 - 1)..MaxInt64

(* dash = FALSE: the number part holds no dash (or is empty). *)
RangeHeaders == [unit  : {"none", "bytes", "other"},
                 multi : BOOLEAN,
                 dash  : BOOLEAN,
                 first : Sides \ (-MaxInt64 - 1)..(-1),
                 last  : Sides]

RangeError == [ok |-> FALSE, is_partial |-> FALSE, start |-> 0, end |-> -1]
RangeResult(partial, from, to) ==
  [ok |-> TRUE, is_partial |-> partial, start |-> from, end |-> to]

(* "bytes=-N": the last N bytes, or the whole file when it is shorter. *)
SuffixRange(last, total) ==
  IF last = Malformed \/ total = 0 THEN RangeError
  ELSE IF last <= 0 THEN RangeError
  ELSE RangeResult(TRUE, total - Smaller(last, total), total - 1)

(* "bytes=A-" and "bytes=A-B". *)
FirstLastRange(first, last, total) ==
  IF first = Malformed THEN RangeError
  ELSE IF first < 0 \/ first >= total THEN RangeError
  ELSE IF last = Absent THEN RangeResult(TRUE, first, total - 1)
  ELSE IF last = Malformed THEN RangeError
  ELSE IF last < first THEN RangeError
  ELSE RangeResult(TRUE, first, Smaller(last, total - 1))

parse_file_stream_range(h, total) ==
  IF total < 0 THEN RangeError
  ELSE IF h.unit = "none" THEN RangeResult(FALSE, 0, total - 1)
  ELSE IF h.unit # "bytes" \/ h.multi \/ ~h.dash THEN RangeError
  ELSE IF h.first = Absent /\ h.last = Absent THEN RangeError
  ELSE IF h.first = Absent THEN SuffixRange(h.last, total)
  ELSE FirstLastRange(h.first, h.last, total)

(***************************************************************************)
(* Reference meaning of a range request: the set of byte positions of the  *)
(* file that the request selects.                                          *)
(***************************************************************************)
WellFormed(h) ==
  /\ h.unit = "bytes" /\ ~h.multi /\ h.dash
  /\ h.first # Malformed /\ h.last # Malformed
  /\ ~(h.first = Absent /\ h.last = Absent)
  /\ h.first # Absent /\ h.last # Absent => h.first <= h.last

Selected(h, total) ==
  { b \in 0..(total - 1) :
      IF h.first = Absent THEN b >= total - h.last
      ELSE b >= h.first /\ (h.last = Absent \/ b <= h.last) }

(* A Range header is answered 206 exactly when it is well formed and       *)
(* selects at least one byte, and then start..end are exactly the selected *)
(* bytes; without the header the whole file is selected.                   *)
RangeMatchesSelection(h, total) ==
  LET r == parse_file_stream_range(h, total)
  IN  IF h.unit = "none"
      THEN r.ok /\ ~r.is_partial /\ r.start..r.end = 0..(total - 1)
      ELSE /\ r.ok <=> (WellFormed(h) /\ Selected(h, total) # {})
           /\ r.ok => r.is_partial /\ r.start..r.end = Selected(h, total)
================================================================================
