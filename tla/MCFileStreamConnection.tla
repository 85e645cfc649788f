------------------------ MODULE MCFileStreamConnection ------------------------
(* Values of the constants for model-checking FileStreamConnection.         *)
EXTENDS FileStreamConnection

(* parse_file_stream_range agrees with the reference meaning of a Range      *)
(* header, for every header and every size of a file up to TotalSize.       *)
ASSUME RangesExact ==
  \A h \in RangeHeaders, total \in 0..TotalSize : RangeMatchesSelection(h, total)

Whole == [unit |-> "none", multi |-> FALSE, dash |-> FALSE, first |-> Absent, last |-> Absent]
FromTo(a, b) == [unit |-> "bytes", multi |-> FALSE, dash |-> TRUE, first |-> a, last |-> b]

Req(head, r, max, faults) ==
  [head_only |-> head, range |-> r, max_size |-> max, faults |-> faults]

(* The whole file, a range that ends past the end, the last byte, an        *)
(* unsatisfiable range, the HEAD of the whole file, and a file over the     *)
(* size limit.                                                              *)
SomeRequests(faults) ==
  {Req(FALSE, Whole, 0, faults), Req(FALSE, FromTo(1, MaxInt64), TotalSize, faults),
   Req(FALSE, FromTo(Absent, 1), 0, faults), Req(FALSE, FromTo(TotalSize, Absent), 0, faults),
   Req(TRUE, Whole, 0, faults), Req(FALSE, Whole, TotalSize - 1, faults)}

Failures == {"reject", "disconnect", "stop", "resize", "io"}

(* Nothing fails; everything fails but the timer, and the file is lost;     *)
(* everything fails and the timer fires.                                    *)
AllRequests == SomeRequests({}) \cup SomeRequests(Failures \cup {"delete"})
               \cup SomeRequests(Failures \cup {"timeout"})
OneGet  == {Req(FALSE, Whole, 0, {"delete"})}
OneHead == {Req(TRUE, Whole, 0, {})}
===============================================================================
