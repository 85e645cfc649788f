--------------------------- MODULE FileStreamCursor ---------------------------
(***************************************************************************)
(* The bookkeeping of one streamed response: struct FileStreamCursor of    *)
(* server/FileStreamCore.h and its methods in server/FileStreamCursor.cpp. *)
(*                                                                         *)
(* A cursor is a record of five offsets.  A method that returns a          *)
(* td::Status is a pair: a predicate (the status is OK) and an operator    *)
(* giving the cursor after the call.  A call that returns an error leaves  *)
(* the cursor unchanged.                                                   *)
(***************************************************************************)
EXTENDS Integers

Smaller(a, b) == IF a <= b THEN a ELSE b

(* The member initialisers of the struct. *)
FreshCursor == [total_size     |-> -1,
                start_offset   |-> 0,
                end_offset     |-> -1,
                next_offset    |-> 0,
                contiguous_end |-> 0]

Cursor == [total_size     : Int,
           start_offset   : Int,
           end_offset     : Int,
           next_offset    : Int,
           contiguous_end : Int]

set_range(c, start, end) ==
  [c EXCEPT !.start_offset = start, !.end_offset = end, !.next_offset = start]

(* update_progress accepts a report only if [offset, offset + prefix) lies *)
(* inside the file.                                                        *)
ProgressOK(c, offset, prefix) ==
  /\ c.total_size >= 0
  /\ offset >= 0
  /\ prefix >= 0
  /\ offset <= c.total_size
  /\ prefix <= c.total_size - offset

(* An accepted report: an unset range becomes the whole file,    *)
(* and a report for offset 0 may raise contiguous_end, never lower it.     *)
update_progress(c, offset, prefix, completed) ==
  IF ~ProgressOK(c, offset, prefix) THEN c
  ELSE [c EXCEPT
          !.end_offset =
            IF c.end_offset < c.start_offset /\ c.total_size > 0 /\ c.start_offset = 0
            THEN c.total_size - 1 ELSE @,
          !.contiguous_end =
            IF offset = 0 /\ (prefix > @ \/ (completed /\ prefix = c.total_size))
            THEN prefix ELSE @]

(* The size of the next read: 0 when there is nothing to read yet. *)
ReadSizeIgnoringPrefix(c, chunk_size) ==
  IF chunk_size <= 0 \/ c.total_size < 0 \/ c.next_offset > c.end_offset THEN 0
  ELSE Smaller(chunk_size, c.end_offset + 1 - c.next_offset)
next_read_size(c, chunk_size) ==
  IF \/ chunk_size <= 0
     \/ c.total_size < 0
     \/ c.end_offset < c.start_offset
     \/ c.next_offset > c.end_offset
     \/ c.next_offset >= c.contiguous_end
  THEN 0
  ELSE Smaller(chunk_size, Smaller(c.contiguous_end - c.next_offset,
                                   c.end_offset + 1 - c.next_offset))

(* A block may be committed only at next_offset, and only inside both the  *)
(* contiguous prefix and the requested range.                              *)
CommitOK(c, offset, size) ==
  /\ offset = c.next_offset
  /\ size > 0
  /\ size <= c.contiguous_end - c.next_offset
  /\ size <= c.end_offset + 1 - c.next_offset

commit(c, offset, size) ==
  IF ~CommitOK(c, offset, size) THEN c ELSE [c EXCEPT !.next_offset = @ + size]

is_complete(c) ==
  \/ c.total_size = 0
  \/ /\ c.total_size > 0
     /\ c.end_offset >= c.start_offset
     /\ c.next_offset = c.end_offset + 1
===============================================================================
