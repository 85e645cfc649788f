---------------------- MODULE FileStreamConnectionProofs ----------------------
(***************************************************************************)
(* Proofs about FileStreamConnection, for every file, chunk size, range    *)
(* and request, any number of downloads and any length of the inbox.       *)
(*                                                                         *)
(* What the invariant says of the actor is said of the values s, c, h, f   *)
(* and w that stand for stream, cursor, http, flushed and wire, so that it *)
(* can be used in the middle of a handler too.                             *)
(*                                                                         *)
(* First, range requests for every integer width and every file size, and  *)
(* the arithmetic of the cursor: what try_read hands to the connection may *)
(* always be committed once it is flushed.                                 *)
(***************************************************************************)
EXTENDS FileStreamConnection, FiniteSetTheorems, SequenceTheorems, TLAPS

-------------------------------------------------------------------------------
(* FileStreamRoute and FileStreamCursor. *)

(* A suffix range is answered exactly with the last bytes of the file. *)
LEMMA SuffixSelection ==
  ASSUME NEW total \in 0..MaxInt64, NEW last \in -MaxInt64 - 1..MaxInt64, last > 0, total > 0
  PROVE  LET r == SuffixRange(last, total)
         IN  /\ r.ok /\ r.is_partial
             /\ r.start..r.end = {b \in 0..(total - 1) : b >= total - last}
             /\ total - 1 \in {b \in 0..(total - 1) : b >= total - last}
<1>0. last \in Int /\ last # Malformed /\ ~(total = 0) /\ ~(last <= 0)
  BY WidthAssumption, SideAssumption
<1>1. SuffixRange(last, total) = RangeResult(TRUE, total - Smaller(last, total), total - 1)
  BY ONLY <1>0, Zenon DEF SuffixRange
<1>2. Smaller(last, total) = IF last <= total THEN last ELSE total
  BY DEF Smaller
<1>3. (total - Smaller(last, total))..(total - 1) = {b \in 0..(total - 1) : b >= total - last}
  BY <1>2, WidthAssumption
<1>4. QED  BY <1>1, <1>3, WidthAssumption DEF RangeResult

(* "bytes=A-" and "bytes=A-B" with A inside the file. *)
LEMMA FirstLastSelection ==
  ASSUME NEW total \in 0..MaxInt64, NEW first \in 0..(total - 1),
         NEW last \in {Absent} \cup (-MaxInt64 - 1..MaxInt64), last = Absent \/ last >= first
  PROVE  LET r == FirstLastRange(first, last, total)
         IN  /\ r.ok /\ r.is_partial
             /\ r.start..r.end = {b \in 0..(total - 1) : b >= first /\ (last = Absent \/ b <= last)}
             /\ first \in {b \in 0..(total - 1) : b >= first /\ (last = Absent \/ b <= last)}
<1>1. first # Malformed /\ last # Malformed
  BY WidthAssumption, SideAssumption
<1>2. CASE last = Absent
  <2>1. FirstLastRange(first, last, total) = RangeResult(TRUE, first, total - 1)
    <3>1. ~(first < 0 \/ first >= total)
      BY WidthAssumption
    <3>2. QED  BY <1>1, <1>2, <3>1, Zenon DEF FirstLastRange
  <2>2. first..(total - 1) = {b \in 0..(total - 1) : b >= first}
    BY WidthAssumption
  <2>3. QED  BY <1>2, <2>1, <2>2, WidthAssumption DEF RangeResult
<1>3. CASE last # Absent
  <2>1. last \in Int /\ last >= first
    BY <1>3, WidthAssumption
  <2>2. FirstLastRange(first, last, total) = RangeResult(TRUE, first, Smaller(last, total - 1))
    <3>1. ~(first < 0 \/ first >= total) /\ ~(last < first)
      BY <2>1, WidthAssumption
    <3>2. QED  BY <1>1, <1>3, <3>1, Zenon DEF FirstLastRange
  <2>3. first..Smaller(last, total - 1) = {b \in 0..(total - 1) : b >= first /\ b <= last}
    BY <2>1, WidthAssumption DEF Smaller
  <2>4. QED  BY <1>3, <2>1, <2>2, <2>3, WidthAssumption DEF RangeResult
<1>4. QED  BY <1>2, <1>3

(* A refused header: either it is malformed or it selects no byte. *)
LEMMA Refused ==
  ASSUME NEW h, NEW total, h.unit # "none",
         parse_file_stream_range(h, total) = RangeError,
         ~WellFormed(h) \/ Selected(h, total) = {}
  PROVE  RangeMatchesSelection(h, total)
  BY DEF RangeMatchesSelection, RangeError

LEMMA Answered ==
  ASSUME NEW h, NEW total, NEW r, NEW S, h.unit # "none",
         parse_file_stream_range(h, total) = r,
         r.ok /\ r.is_partial, r.start..r.end = S, WellFormed(h), S # {}, Selected(h, total) = S
  PROVE  RangeMatchesSelection(h, total)
  BY Zenon DEF RangeMatchesSelection

(* Every Range header against every file size, in every integer width: the *)
(* clamping, the off-by-ones and the refusals of parse_file_stream_range.  *)
THEOREM RangeForEverySize ==
  \A h \in RangeHeaders, total \in 0..MaxInt64 : RangeMatchesSelection(h, total)
<1> SUFFICES ASSUME NEW h \in RangeHeaders, NEW total \in 0..MaxInt64
             PROVE  RangeMatchesSelection(h, total)
  OBVIOUS
<1> USE WidthAssumption, SideAssumption
<1> DEFINE parsed == parse_file_stream_range(h, total)
<1>1. /\ total \in Nat /\ ~(total < 0)
      /\ h.unit \in {"none", "bytes", "other"} /\ h.multi \in BOOLEAN /\ h.dash \in BOOLEAN
      /\ h.first \in {Absent, Malformed} \cup 0..MaxInt64
      /\ h.last \in {Absent, Malformed} \cup (-MaxInt64 - 1..MaxInt64)
  BY DEF RangeHeaders, Sides
<1>2. CASE h.unit = "none"
  <2>1. parsed = RangeResult(FALSE, 0, total - 1)
    BY <1>1, <1>2, Zenon DEF parse_file_stream_range
  <2>2. QED  BY <1>2, <2>1 DEF RangeMatchesSelection, RangeResult
<1>3. CASE h.unit # "none" /\ (h.unit # "bytes" \/ h.multi \/ ~h.dash)
  <2>1. parsed = RangeError
    BY <1>1, <1>3, Zenon DEF parse_file_stream_range
  <2>2. ~WellFormed(h)
    BY <1>3 DEF WellFormed
  <2>3. QED  BY <1>3, <2>1, <2>2, Refused
<1>4. CASE h.unit = "bytes" /\ ~h.multi /\ h.dash /\ h.first = Absent
  <2>1. h.unit # "none"
    BY <1>4
  <2>2. CASE h.last = Absent
    <3>1. parsed = RangeError
      BY <1>1, <1>4, <2>1, <2>2, Zenon DEF parse_file_stream_range
    <3>2. ~WellFormed(h)
      BY <1>4, <2>2 DEF WellFormed
    <3>3. QED  BY <2>1, <3>1, <3>2, Refused
  <2>3. CASE h.last # Absent
    <3>1. parsed = SuffixRange(h.last, total)
      BY <1>1, <1>4, <2>1, <2>3, Zenon DEF parse_file_stream_range
    <3>2. CASE h.last = Malformed
      <4>1. parsed = RangeError
        BY <3>1, <3>2, Zenon DEF SuffixRange
      <4>2. ~WellFormed(h)
        BY <3>2 DEF WellFormed
      <4>3. QED  BY <2>1, <4>1, <4>2, Refused
    <3>3. CASE h.last # Malformed
      <4>1. h.last \in -MaxInt64 - 1..MaxInt64 /\ h.last \in Int
        BY <1>1, <2>3, <3>3
      <4>2. Selected(h, total) = {b \in 0..(total - 1) : b >= total - h.last}
        BY <1>4 DEF Selected
      <4>3. CASE total = 0 \/ h.last <= 0
        <5>1. parsed = RangeError
          BY <3>1, <4>3, Zenon DEF SuffixRange
        <5>2. Selected(h, total) = {}
          BY <4>1, <4>2, <4>3
        <5>3. QED  BY <2>1, <5>1, <5>2, Refused
      <4>4. CASE ~(total = 0 \/ h.last <= 0)
        <5> DEFINE S == {b \in 0..(total - 1) : b >= total - h.last}
        <5>1. h.last > 0 /\ total > 0
          BY <1>1, <4>1, <4>4
        <5>2. parsed.ok /\ parsed.is_partial /\ parsed.start..parsed.end = S /\ S # {}
          BY <3>1, <4>1, <5>1, SuffixSelection, Zenon
        <5>3. WellFormed(h)
          BY <1>4, <2>3, <3>3 DEF WellFormed
        <5>4. QED  BY <2>1, <4>2, <5>2, <5>3, Answered, Zenon
      <4>5. QED  BY <4>3, <4>4
    <3>4. QED  BY <3>2, <3>3
  <2>4. QED  BY <2>2, <2>3
<1>5. CASE h.unit = "bytes" /\ ~h.multi /\ h.dash /\ h.first # Absent
  <2>1. h.unit # "none"
    BY <1>5
  <2>2. parsed = FirstLastRange(h.first, h.last, total)
    BY <1>1, <1>5, <2>1, Zenon DEF parse_file_stream_range
  <2>3. CASE h.first = Malformed
    <3>1. parsed = RangeError
      BY <2>2, <2>3, Zenon DEF FirstLastRange
    <3>2. ~WellFormed(h)
      BY <2>3 DEF WellFormed
    <3>3. QED  BY <2>1, <3>1, <3>2, Refused
  <2>4. CASE h.first # Malformed /\ h.first >= total
    <3>1. parsed = RangeError
      BY <2>2, <2>4, Zenon DEF FirstLastRange
    <3>2. h.first \in Nat
      BY <1>1, <1>5, <2>4
    <3>3. Selected(h, total) = {}
      BY <1>1, <1>5, <2>4, <3>2 DEF Selected
    <3>4. QED  BY <2>1, <3>1, <3>3, Refused
  <2>5. CASE h.first # Malformed /\ ~(h.first >= total)
    <3>1. h.first \in 0..(total - 1) /\ h.first \in Int /\ ~(h.first < 0 \/ h.first >= total)
      BY <1>1, <1>5, <2>5
    <3>2. CASE h.last = Malformed
      <4>1. parsed = RangeError
        BY <2>2, <2>5, <3>1, <3>2, Zenon DEF FirstLastRange
      <4>2. ~WellFormed(h)
        BY <3>2 DEF WellFormed
      <4>3. QED  BY <2>1, <4>1, <4>2, Refused
    <3>3. CASE h.last # Malformed /\ h.last # Absent /\ h.last < h.first
      <4>1. parsed = RangeError
        BY <2>2, <2>5, <3>1, <3>3, Zenon DEF FirstLastRange
      <4>2. h.last \in Int /\ ~(h.first <= h.last)
        BY <1>1, <3>1, <3>3
      <4>3. ~WellFormed(h)
        BY <1>5, <3>3, <4>2, Zenon DEF WellFormed
      <4>4. QED  BY <2>1, <4>1, <4>3, Refused
    <3>4. CASE h.last # Malformed /\ ~(h.last # Absent /\ h.last < h.first)
      <4> DEFINE S == {b \in 0..(total - 1) : b >= h.first /\ (h.last = Absent \/ b <= h.last)}
      <4>1. /\ h.last \in {Absent} \cup (-MaxInt64 - 1..MaxInt64)
            /\ h.last = Absent \/ h.last >= h.first
            /\ h.last = Absent \/ h.first <= h.last
        BY <1>1, <3>1, <3>4
      <4>2. parsed.ok /\ parsed.is_partial /\ parsed.start..parsed.end = S /\ S # {}
        <5> DEFINE q == FirstLastRange(h.first, h.last, total)
        <5>1. q.ok /\ q.is_partial /\ q.start..q.end = S /\ h.first \in S
          BY <3>1, <4>1, FirstLastSelection
        <5>2. QED  BY <2>2, <5>1, Zenon
      <4>3. Selected(h, total) = S
        BY <1>5 DEF Selected
      <4>4. WellFormed(h)
        BY <1>5, <2>5, <3>4, <4>1, Zenon DEF WellFormed
      <4>5. QED  BY <2>1, <4>2, <4>3, <4>4, Answered, Zenon
    <3>5. QED  BY <3>2, <3>3, <3>4
  <2>6. QED  BY <2>3, <2>4, <2>5
<1>6. QED  BY <1>1, <1>2, <1>3, <1>4, <1>5

-------------------------------------------------------------------------------
(* FileStreamConnection. *)

Https == [state : {"Write", "Read", "Close", "Dead"}, queue : Seq(Items)]
Wires == [responses : Seq({"ok", "error"}), body : Nat, exact : BOOLEAN]

ActorTypes(s, c, h, f, w) ==
  s \in Streams /\ c \in Cursor /\ h \in Https /\ f \in Seq(Promises) /\ w \in Wires

(* The range is that of the request, and the cursor is inside it. *)
RangeSet(c) ==
  /\ c.total_size = TotalSize
  /\ 0 <= c.start_offset /\ c.start_offset <= c.end_offset /\ c.end_offset < TotalSize
  /\ c.start_offset <= c.next_offset /\ c.next_offset <= c.end_offset + 1
  /\ 0 <= c.contiguous_end /\ c.contiguous_end <= TotalSize
  /\ c.start_offset..c.end_offset = Wanted

Committed(c) == c.next_offset - c.start_offset
Length(c)    == c.end_offset - c.start_offset + 1

(* Before on_file_ready. *)
Waiting(s, c, h, f, w) ==
  /\ h.state \in {"Write", "Dead"}
  /\ c = FreshCursor /\ ~s.headers_sent /\ ~s.write_in_flight
  /\ h.queue = <<>> /\ f = <<>>
  /\ w.responses = <<>> /\ w.body = 0

(* Then the headers and at most one chunk are on their way: in the queue   *)
(* of the connection, or in flushed.                                       *)
HeadersDone(ok) == [kind |-> "headers", ok |-> ok]
ChunkDone(ok)   == [kind |-> "data", ok |-> ok]
InFlight(s, x)  == /\ x \in Items /\ x.kind = "data"
                   /\ x.offset = s.pending_offset /\ x.size = s.pending_size

NothingQueued(s, c, h, f, w) ==
  /\ h.queue = <<>>
  /\ h.state = "Write" => w.responses = <<"ok">>
  /\ \/ f = <<>> /\ ~s.write_in_flight /\ w.body = Committed(c)
     \/ \E a \in BOOLEAN : f = <<HeadersDone(a)>> /\ ~s.write_in_flight /\ w.body = Committed(c)
     \/ \E b \in BOOLEAN : /\ f = <<ChunkDone(b)>> /\ s.write_in_flight
                           /\ w.body = Committed(c) + IF b THEN s.pending_size ELSE 0
     \/ \E a, b \in BOOLEAN : /\ f = <<HeadersDone(a), ChunkDone(b)>> /\ s.write_in_flight
                              /\ w.body = Committed(c) + IF b THEN s.pending_size ELSE 0

HeadersQueued(s, c, h, f, w) ==
  /\ h.state = "Write" /\ h.queue = <<Headers>> /\ f = <<>> /\ ~s.write_in_flight
  /\ w.responses = <<>> /\ w.body = Committed(c)

ChunkQueued(s, c, h, f, w) ==
  /\ h.state = "Write" /\ h.queue = <<h.queue[1]>> /\ InFlight(s, h.queue[1])
  /\ f = <<>> \/ \E a \in BOOLEAN : f = <<HeadersDone(a)>>
  /\ s.write_in_flight
  /\ w.responses = <<"ok">> /\ w.body = Committed(c)

BothQueued(s, c, h, f, w) ==
  /\ h.state = "Write" /\ h.queue = <<Headers, h.queue[2]>> /\ InFlight(s, h.queue[2])
  /\ f = <<>> /\ s.write_in_flight
  /\ w.responses = <<>> /\ w.body = Committed(c)

Streaming(s, c, h, f, w) ==
  /\ h.state \in {"Write", "Dead"}
  /\ s.headers_sent /\ RangeSet(c)
  /\ s.write_in_flight => CommitOK(c, s.pending_offset, s.pending_size)
  /\ w.responses \in {<<>>, <<"ok">>}
  /\ w.responses = <<>> => w.body = 0
  /\ \/ NothingQueued(s, c, h, f, w) \/ HeadersQueued(s, c, h, f, w)
     \/ ChunkQueued(s, c, h, f, w) \/ BothQueued(s, c, h, f, w)

(* After the end of the stream what is queued is still written; a          *)
(* connection that is then ready for the next request is so because the    *)
(* response is whole.                                                      *)
Fits(c, w, x) ==
  /\ x \in Items /\ x.kind = "data" /\ x.size > 0
  /\ x.offset = c.start_offset + w.body
  /\ w.body + x.size <= Length(c)

Ended(c, h, w) ==
  /\ h.state # "Write"
  /\ c.total_size >= 0 => Committed(c) <= w.body
  /\ w.responses \in {<<>>, <<"ok">>, <<"error">>}
  /\ w.responses # <<"ok">> => w.body = 0
  /\ w.responses = <<"ok">> => RangeSet(c) /\ w.body <= Length(c)
  /\ h.state = "Read" /\ h.queue = <<>> =>
       /\ w.responses # <<>>
       /\ w.responses = <<"ok">> => request.head_only \/ w.body = Length(c)
  /\ \/ h.queue = <<>>
     \/ h.queue = <<ErrorBody>> /\ h.state = "Read" /\ w.responses = <<>>
     \/ h.queue = <<Headers>> /\ h.state = "Close" /\ w.responses = <<>> /\ RangeSet(c)
     \/ /\ h.queue = <<h.queue[1]>> /\ Fits(c, w, h.queue[1])
        /\ h.state = "Close" \/ (h.state = "Read" /\ request.head_only)
        /\ w.responses = <<"ok">>
     \/ /\ h.queue = <<Headers, h.queue[2]>> /\ Fits(c, w, h.queue[2])
        /\ h.state = "Close" /\ w.responses = <<>> /\ RangeSet(c)

Good(s, c, h, f, w) ==
  /\ ActorTypes(s, c, h, f, w)
  /\ IF s.finished THEN Ended(c, h, w)
     ELSE Waiting(s, c, h, f, w) \/ Streaming(s, c, h, f, w)

(* The closures on their way: on_file_ready comes once, with the size. *)
Inbox ==
  /\ inbox \in Seq(Messages)
  /\ \A k \in 1..Len(inbox) : inbox[k].type = "on_file_ready" =>
       inbox[k].size = TotalSize
  /\ ~stream.finished =>
       /\ \A k \in 1..Len(inbox) : inbox[k].type = "on_file_ready" =>
            client \in {"resolved", "listening"} /\ cursor.total_size < 0
       /\ \A j, k \in 1..Len(inbox) :
            inbox[j].type = "on_file_ready" /\ inbox[k].type = "on_file_ready" => j = k
       /\ client \notin {"resolved", "listening"} => cursor.total_size < 0

Environment ==
  /\ request \in Requests
  /\ client \in {"new", "refused", "admitted", "resolved", "listening"}
  /\ td \in [gen : 0..Generations, active : BOOLEAN]
  /\ disk \in [1..Generations ->
                 [place : {"none", "temp", "final", "lost"}, have : 0..TotalSize]]
  /\ td.active => HasFile

IInv == Good(stream, cursor, http, flushed, wire) /\ Inbox /\ Environment

(* As long as the file is not deleted there is one download, and nothing   *)
(* claims more of it than it has.                                          *)
ReadsFirst(s, c) ==
  s.local_path.gen <= 1 /\ s.local_file <= 1 /\ c.contiguous_end <= disk[1].have

Intact(h) == \A k \in 1..Len(h.queue) : h.queue[k].intact

OneDownload ==
  "delete" \notin request.faults =>
    /\ td.gen <= 1
    /\ td.gen = 0 => disk[1].have = 0
    /\ td.gen = 1 => disk[1].place \in {"temp", "final"}
    /\ \A k \in 1..Len(inbox) : inbox[k].path.gen <= 1 /\ inbox[k].prefix <= disk[1].have
    /\ ReadsFirst(stream, cursor)

FileInv == OneDownload /\ KeptFileBytes

-------------------------------------------------------------------------------
(* The queues never hold more than two elements. *)
LEMMA SameTwo ==
  ASSUME NEW S, NEW s \in Seq(S), NEW t \in Seq(S), Len(s) = 2, Len(t) = 2,
         s[1] = t[1], s[2] = t[2]
  PROVE  s = t
<1>1. \A k \in 1..2 : k = 1 \/ k = 2
  OBVIOUS
<1>2. \A k \in 1..Len(s) : s[k] = t[k]
  BY <1>1
<1>3. QED  BY <1>2, SeqEqual

LEMMA OneElement ==
  ASSUME NEW x
  PROVE  /\ Append(<<>>, x) = <<x>> /\ Head(<<x>>) = x /\ Tail(<<x>>) = <<>>
         /\ <<x>> # <<>> /\ Len(<<x>>) = 1 /\ <<x>>[1] = x
<1>1. /\ Head(<<x>>) = x /\ <<x>> # <<>> /\ Len(<<x>>) = 1 /\ <<x>>[1] = x
  OBVIOUS
<1>2. Append(<<>>, x) = <<x>>
  OBVIOUS
<1>3. Tail(<<x>>) = <<>>
  OBVIOUS
<1>4. QED  BY <1>1, <1>2, <1>3

LEMMA TwoElements ==
  ASSUME NEW x, NEW y
  PROVE  /\ Append(<<x>>, y) = <<x, y>> /\ Head(<<x, y>>) = x /\ Tail(<<x, y>>) = <<y>>
         /\ <<x, y>> # <<>> /\ Len(<<x, y>>) = 2 /\ <<x, y>>[1] = x /\ <<x, y>>[2] = y
<1>1. /\ Head(<<x, y>>) = x /\ <<x, y>> # <<>> /\ Len(<<x, y>>) = 2
      /\ <<x, y>>[1] = x /\ <<x, y>>[2] = y
  OBVIOUS
<1>2. Append(<<x>>, y) = <<x, y>>
  <2>1. <<x>> \in Seq({x, y}) /\ <<x, y>> \in Seq({x, y}) /\ Len(<<x>>) = 1 /\ <<x>>[1] = x
    OBVIOUS
  <2>2. /\ Append(<<x>>, y) \in Seq({x, y}) /\ Len(Append(<<x>>, y)) = 2
        /\ Append(<<x>>, y)[1] = x /\ Append(<<x>>, y)[2] = y
    BY <2>1, AppendProperties
  <2>3. QED  BY <1>1, <2>1, <2>2, SameTwo
<1>3. Tail(<<x, y>>) = <<y>>
  OBVIOUS
<1>4. QED  BY <1>1, <1>2, <1>3

LEMMA OneIsSeq ==
  ASSUME NEW S, NEW x \in S
  PROVE  <<x>> \in Seq(S)
  OBVIOUS

LEMMA AppendSecond == \A x, y : Append(<<x>>, y) = <<x, y>>
  BY TwoElements

LEMMA AddNothing ==
  ASSUME NEW f \in Seq(Promises)
  PROVE  f \o Lost(<<>>) = f
<1>1. Lost(<<>>) = <<>>
  BY DEF Lost
<1>2. QED  BY <1>1, ConcatEmptySeq

LEMMA ConcatOne ==
  ASSUME NEW l \in Promises
  PROVE  /\ [k \in 1..1 |-> l] = <<l>> /\ <<>> \o <<l>> = <<l>>
         /\ \A y \in Promises : <<y>> \o <<l>> = <<y, l>>
<1>1. [k \in 1..1 |-> l] = <<l>>
  OBVIOUS
<1>2. <<>> \o <<l>> = <<l>>
  BY ConcatEmptySeq
<1>3. ASSUME NEW y \in Promises PROVE <<y>> \o <<l>> = <<y, l>>
  <2>1. /\ <<y>> \in Seq(Promises) /\ Len(<<y>>) = 1 /\ <<y>>[1] = y
        /\ <<l>> \in Seq(Promises) /\ Len(<<l>>) = 1 /\ <<l>>[1] = l
        /\ <<y, l>> \in Seq(Promises) /\ Len(<<y, l>>) = 2
        /\ <<y, l>>[1] = y /\ <<y, l>>[2] = l
    OBVIOUS
  <2>2. /\ <<y>> \o <<l>> \in Seq(Promises) /\ Len(<<y>> \o <<l>>) = 2
        /\ (<<y>> \o <<l>>)[1] = y /\ (<<y>> \o <<l>>)[2] = l
    BY <2>1, ConcatProperties
  <2>3. QED  BY <2>1, <2>2, SameTwo
<1>4. QED  BY <1>1, <1>2, <1>3

LEMMA LostOne ==
  ASSUME NEW x, NEW l \in Promises, l = [kind |-> x.kind, ok |-> FALSE]
  PROVE  /\ <<>> \o Lost(<<x>>) = <<l>>
         /\ \A y \in Promises : <<y>> \o Lost(<<x>>) = <<y, l>>
<1>1. Len(<<x>>) = 1 /\ <<x>>[1] = x
  OBVIOUS
<1>2. Lost(<<x>>) = [k \in 1..1 |-> l]
  <2>1. Lost(<<x>>) = [k \in 1..1 |-> [kind |-> <<x>>[k].kind, ok |-> FALSE]]
    BY <1>1 DEF Lost
  <2>2. \A k \in 1..1 : <<x>>[k] = x
    BY <1>1
  <2>3. QED  BY <2>1, <2>2
<1>3. QED  BY <1>2, ConcatOne

LEMMA LostTwo ==
  ASSUME NEW x, x.kind = "data"
  PROVE  <<>> \o Lost(<<Headers, x>>) = <<HeadersDone(FALSE), ChunkDone(FALSE)>>
<1> DEFINE q == <<Headers, x>>
           l == <<HeadersDone(FALSE), ChunkDone(FALSE)>>
           S == {HeadersDone(FALSE), ChunkDone(FALSE)}
<1>1. Len(q) = 2 /\ q[1].kind = "headers" /\ q[2].kind = "data"
  BY DEF Headers
<1>2. l \in Seq(S) /\ Len(l) = 2 /\ l[1] = HeadersDone(FALSE) /\ l[2] = ChunkDone(FALSE)
  OBVIOUS
<1> HIDE DEF q, l
<1>3. Lost(q) = [k \in 1..2 |-> [kind |-> q[k].kind, ok |-> FALSE]]
  BY <1>1 DEF Lost
<1>4. Lost(q)[1] = HeadersDone(FALSE) /\ Lost(q)[2] = ChunkDone(FALSE)
  <2>1. 1 \in 1..2 /\ 2 \in 1..2
    OBVIOUS
  <2>2. /\ Lost(q)[1] = [kind |-> q[1].kind, ok |-> FALSE]
        /\ Lost(q)[2] = [kind |-> q[2].kind, ok |-> FALSE]
    BY <1>3, <2>1
  <2>3. QED  BY <1>1, <2>2 DEF HeadersDone, ChunkDone
<1>5. \A k \in 1..2 : k = 1 \/ k = 2
  OBVIOUS
<1>6. Lost(q) \in [1..2 -> S]
  BY <1>3, <1>4, <1>5
<1>7. Lost(q) \in Seq(S) /\ Len(Lost(q)) = 2
  <2>1. Lost(q) \in Seq(S)
    BY <1>6, SeqDef
  <2>2. DOMAIN Lost(q) = 1..2 /\ DOMAIN Lost(q) = 1..Len(Lost(q)) /\ Len(Lost(q)) \in Nat
    BY <1>6, <2>1, LenProperties
  <2>3. QED  BY <2>1, <2>2
<1>8. Lost(q) = l
  BY <1>2, <1>4, <1>7, SameTwo
<1>9. <<>> \o l = l
  BY <1>2, ConcatEmptySeq
<1>10. QED  BY <1>8, <1>9 DEF q, l

-------------------------------------------------------------------------------
(* The ways a handler ends. *)

(* What must hold for the stream to be stopped after its headers.  *)
Stoppable(c, h, w) ==
  /\ h.state \in {"Write", "Dead"} /\ RangeSet(c)
  /\ w.responses \in {<<>>, <<"ok">>} /\ (w.responses = <<>> => w.body = 0)
  /\ Committed(c) <= w.body /\ w.body <= Length(c)
  /\ \/ h.queue = <<>>
     \/ h.state = "Write" /\ h.queue = <<Headers>> /\ w.responses = <<>>
     \/ /\ h.state = "Write" /\ w.responses = <<"ok">>
        /\ h.queue = <<h.queue[1]>> /\ Fits(c, w, h.queue[1])
     \/ /\ h.state = "Write" /\ w.responses = <<>>
        /\ h.queue = <<Headers, h.queue[2]>> /\ Fits(c, w, h.queue[2])

LEMMA CursorInts ==
  ASSUME NEW c \in Cursor
  PROVE  /\ c.total_size \in Int /\ c.start_offset \in Int /\ c.end_offset \in Int
         /\ c.next_offset \in Int /\ c.contiguous_end \in Int
  BY DEF Cursor

LEMMA PendingInts ==
  ASSUME NEW s \in Streams
  PROVE  s.pending_offset \in Int /\ s.pending_size \in Int /\ s.write_in_flight \in BOOLEAN
  BY DEF Streams

LEMMA StreamingStops ==
  ASSUME NEW s, NEW c, NEW h, NEW f, NEW w, ActorTypes(s, c, h, f, w),
         Streaming(s, c, h, f, w)
  PROVE  Stoppable(c, h, w)
<1>1. /\ c \in Cursor /\ s \in Streams /\ w.body \in Nat
  BY DEF ActorTypes, Wires
<1>2. /\ h.state \in {"Write", "Dead"} /\ RangeSet(c)
      /\ w.responses \in {<<>>, <<"ok">>} /\ (w.responses = <<>> => w.body = 0)
      /\ s.write_in_flight => CommitOK(c, s.pending_offset, s.pending_size)
  BY DEF Streaming
<1>3. /\ c.start_offset <= c.next_offset /\ c.next_offset <= c.end_offset + 1
  BY <1>2 DEF RangeSet
<1>4. ASSUME NEW x, InFlight(s, x), s.write_in_flight, w.body = Committed(c)
      PROVE  Fits(c, w, x)
  BY <1>1, <1>2, <1>3, <1>4, CursorInts, PendingInts DEF Fits, InFlight, CommitOK, Committed, Length
<1>5. CASE NothingQueued(s, c, h, f, w)
  <2>1. h.queue = <<>>
    BY <1>5 DEF NothingQueued
  <2>2. \/ w.body = Committed(c)
        \/ s.write_in_flight /\ w.body = Committed(c) + s.pending_size
    BY <1>1, <1>5, CursorInts DEF NothingQueued, Committed
  <2>3. Committed(c) <= w.body /\ w.body <= Length(c)
    BY <1>1, <1>2, <1>3, <2>2, CursorInts, PendingInts DEF CommitOK, Committed, Length
  <2>4. QED  BY <1>2, <2>1, <2>3 DEF Stoppable
<1>6. CASE ~NothingQueued(s, c, h, f, w)
  <2>1. w.body = Committed(c)
    BY <1>6 DEF Streaming, HeadersQueued, ChunkQueued, BothQueued
  <2>2. Committed(c) <= w.body /\ w.body <= Length(c)
    BY <1>1, <1>3, <2>1, CursorInts DEF Committed, Length
  <2>3. QED
    BY <1>2, <1>4, <1>6, <2>1, <2>2
    DEF Stoppable, Streaming, HeadersQueued, ChunkQueued, BothQueued
<1>7. QED  BY <1>5, <1>6

LEMMA StopTypes ==
  ASSUME NEW s \in Streams
  PROVE  /\ Stop(s) \in Streams /\ Stop(s).finished
         /\ [Stop(s) EXCEPT !.completed_ok = TRUE] \in Streams
         /\ [Stop(s) EXCEPT !.completed_ok = TRUE].finished
<1>1. 0 \in 0..Generations
  BY EnvironmentAssumption
<1>2. Stop(s) \in Streams /\ Stop(s).finished
  BY <1>1 DEF Stop, Streams
<1>3. QED  BY <1>2 DEF Streams

LEMMA HttpTypes ==
  ASSUME NEW h \in Https
  PROVE  /\ h.state \in {"Write", "Read", "Close", "Dead"} /\ h.queue \in Seq(Items)
         /\ \A x \in {"Write", "Read", "Close", "Dead"} :
              /\ [h EXCEPT !.state = x] \in Https
              /\ [h EXCEPT !.state = x].state = x /\ [h EXCEPT !.state = x].queue = h.queue
  BY DEF Https

LEMMA AbortEnds ==
  ASSUME NEW s, NEW c, NEW h, NEW f, NEW w, ActorTypes(s, c, h, f, w),
         Stoppable(c, h, w), abort(s, c, h, f)
  PROVE  Good(stream', cursor', http', flushed', w)
<1>1. /\ stream' = Stop(s) /\ cursor' = c /\ flushed' = f
      /\ http' = IF h.state = "Write" THEN [h EXCEPT !.state = "Close"] ELSE h
  BY DEF abort, Return
<1>2. /\ http' \in Https /\ http'.queue = h.queue
      /\ http'.state = IF h.state = "Write" THEN "Close" ELSE h.state
  <2>1. h \in Https
    BY DEF ActorTypes
  <2>2. [h EXCEPT !.state = "Close"] \in Https /\ [h EXCEPT !.state = "Close"].state = "Close"
        /\ [h EXCEPT !.state = "Close"].queue = h.queue
    BY <2>1, HttpTypes
  <2>3. QED  BY <1>1, <2>1, <2>2
<1>3. ActorTypes(stream', cursor', http', flushed', w) /\ stream'.finished
  BY <1>1, <1>2, StopTypes DEF ActorTypes
<1>4. Ended(cursor', http', w)
  BY <1>1, <1>2 DEF Stoppable, Ended
<1>5. QED  BY <1>3, <1>4 DEF Good

(* A failure before the headers is told in an error response. *)
Unanswered(c, h, w) ==
  /\ h.state \in {"Write", "Dead"} /\ h.queue = <<>>
  /\ w.responses = <<>> /\ w.body = 0
  /\ c.total_size >= 0 => Committed(c) <= 0

LEMMA FailEnds ==
  ASSUME NEW s, NEW c, NEW h, NEW f, NEW w, ActorTypes(s, c, h, f, w),
         IF s.headers_sent THEN Stoppable(c, h, w) ELSE Unanswered(c, h, w),
         fail(s, c, h, f)
  PROVE  Good(stream', cursor', http', flushed', w)
<1>1. CASE s.headers_sent
  BY <1>1, AbortEnds DEF fail, ResponseBegun
<1>2. CASE ~s.headers_sent
  <2>1. /\ stream' = Stop(s) /\ cursor' = c /\ flushed' = f
        /\ http' = IF h.state = "Write"
                   THEN [state |-> "Read", queue |-> Append(h.queue, ErrorBody)] ELSE h
    BY <1>2 DEF fail, ResponseBegun, Return
  <2>2. Append(<<>>, ErrorBody) = <<ErrorBody>> /\ <<ErrorBody>> \in Seq(Items)
    BY OneElement DEF ErrorBody, Items
  <2>3. /\ http' \in Https
        /\ IF h.state = "Write" THEN http'.state = "Read" /\ http'.queue = <<ErrorBody>>
           ELSE http'.state = "Dead" /\ http'.queue = <<>>
    BY <1>2, <2>1, <2>2 DEF Unanswered, ActorTypes, Https
  <2>4. ActorTypes(stream', cursor', http', flushed', w) /\ stream'.finished
    BY <2>1, <2>3, StopTypes DEF ActorTypes
  <2>5. <<>> # <<"ok">>
    BY OneElement
  <2>6. Ended(cursor', http', w)
    BY <1>2, <2>1, <2>3, <2>5 DEF Unanswered, Ended
  <2>7. QED  BY <2>4, <2>6 DEF Good
<1>3. QED  BY <1>1, <1>2

LEMMA FinishEnds ==
  ASSUME NEW s, NEW c, NEW h, NEW f, NEW w, ActorTypes(s, c, h, f, w),
         Stoppable(c, h, w), h.queue = <<>>, w.body = Length(c), w.responses = <<"ok">>,
         finish(s, c, h, f)
  PROVE  Good(stream', cursor', http', flushed', w)
<1>1. /\ stream' = [Stop(s) EXCEPT !.completed_ok = TRUE] /\ cursor' = c /\ flushed' = f
      /\ http' = IF h.state = "Write" THEN [h EXCEPT !.state = "Read"] ELSE h
  BY DEF finish, Return
<1>2. /\ http' \in Https /\ http'.queue = <<>> /\ http'.state # "Write"
  <2>1. h \in Https /\ h.state \in {"Write", "Dead"}
    BY DEF ActorTypes, Stoppable
  <2>2. [h EXCEPT !.state = "Read"] \in Https /\ [h EXCEPT !.state = "Read"].state = "Read"
        /\ [h EXCEPT !.state = "Read"].queue = h.queue
    BY <2>1, HttpTypes
  <2>3. QED  BY <1>1, <2>1, <2>2
<1>3. ActorTypes(stream', cursor', http', flushed', w) /\ stream'.finished
  BY <1>1, <1>2, StopTypes DEF ActorTypes
<1>4. Ended(cursor', http', w)
  BY <1>1, <1>2 DEF Stoppable, Ended
<1>5. QED  BY <1>3, <1>4 DEF Good

-------------------------------------------------------------------------------
(* try_read. *)

(* The members of the actor that the invariant does not depend on. *)
Alike(s, r) ==
  /\ r.finished = s.finished /\ r.headers_sent = s.headers_sent
  /\ r.write_in_flight = s.write_in_flight
  /\ r.pending_offset = s.pending_offset /\ r.pending_size = s.pending_size

LEMMA AlikeStreams ==
  ASSUME NEW s, NEW r, NEW c, NEW h, NEW f, NEW w, Alike(s, r)
  PROVE  /\ Streaming(s, c, h, f, w) => Streaming(r, c, h, f, w)
         /\ Waiting(s, c, h, f, w) => Waiting(r, c, h, f, w)
  BY DEF Alike, Waiting, Streaming, NothingQueued, HeadersQueued, ChunkQueued, BothQueued, InFlight

(* A handler that returns without a write. *)
LEMMA ReturnKeeps ==
  ASSUME NEW s, NEW r, NEW c, NEW h, NEW f, NEW w, ActorTypes(s, c, h, f, w), ~s.finished,
         Waiting(s, c, h, f, w) \/ Streaming(s, c, h, f, w),
         r \in Streams, Alike(s, r), Return(r, c, h, f)
  PROVE  Good(stream', cursor', http', flushed', w)
<1>1. stream' = r /\ cursor' = c /\ http' = h /\ flushed' = f
  BY DEF Return
<1>2. ActorTypes(r, c, h, f, w) /\ ~r.finished
  BY DEF ActorTypes, Alike
<1>3. Waiting(r, c, h, f, w) \/ Streaming(r, c, h, f, w)
  BY AlikeStreams
<1>4. QED  BY <1>1, <1>2, <1>3 DEF Good

(* What next_read_size allows can be committed. *)
LEMMA ReadSizeFits ==
  ASSUME NEW c \in Cursor, NEW size, size = next_read_size(c, ChunkSize), size > 0
  PROVE  size \in Nat /\ CommitOK(c, c.next_offset, size)
<1>1. ChunkSize \in Nat \ {0}
  BY SizeAssumption
<1>2. QED  BY <1>1, CursorInts DEF next_read_size, CommitOK, Smaller

LEMMA WriteChunkKeeps ==
  ASSUME NEW s, NEW r, NEW c, NEW h, NEW f, NEW w, ActorTypes(s, c, h, f, w), ~s.finished,
         Streaming(s, c, h, f, w), ~s.write_in_flight,
         NEW size \in Nat, CommitOK(c, c.next_offset, size), NEW intact \in BOOLEAN,
         r \in Streams, ~r.finished, r.headers_sent, r.write_in_flight,
         r.pending_offset = c.next_offset, r.pending_size = size,
         Return(r, c, write_next_with_promise(h, Chunk(c.next_offset, size, intact)),
                Promised(h, f, "data"))
  PROVE  Good(stream', cursor', http', flushed', w)
<1> DEFINE x == Chunk(c.next_offset, size, intact)
<1>1. /\ c \in Cursor /\ RangeSet(c) /\ h \in Https /\ f \in Seq(Promises) /\ w \in Wires
      /\ w.body \in Nat /\ h.state \in {"Write", "Dead"} /\ h.queue \in Seq(Items)
  BY DEF ActorTypes, Streaming, Wires, Https
<1>2. c.next_offset \in Nat
  BY <1>1, CursorInts DEF RangeSet
<1>3. x \in Items /\ x.kind = "data" /\ InFlight(r, x)
  BY <1>2 DEF InFlight, Items, Chunk
<1>4. /\ stream' = r /\ cursor' = c /\ http' = write_next_with_promise(h, x)
      /\ flushed' = Promised(h, f, "data")
  BY DEF Return
<1> HIDE DEF x
<1>5. CASE h.state = "Write"
  <2>1. http' = [h EXCEPT !.queue = Append(h.queue, x)] /\ flushed' = f
    BY <1>4, <1>5 DEF write_next_with_promise, Promised
  <2>2. Append(h.queue, x) \in Seq(Items)
    BY <1>1, <1>3, AppendProperties
  <2>3. http' \in Https /\ http'.state = "Write" /\ http'.queue = Append(h.queue, x)
    BY <1>1, <1>5, <2>1, <2>2 DEF Https
  <2>4. ActorTypes(r, c, http', f, w)
    BY <1>1, <2>3 DEF ActorTypes
  <2>5. CASE NothingQueued(s, c, h, f, w)
    <3>1. http'.queue = <<x>> /\ http'.queue[1] = x
      BY <2>3, <2>5, OneElement DEF NothingQueued
    <3>2. ChunkQueued(r, c, http', f, w)
      BY <1>3, <1>5, <2>3, <2>5, <3>1 DEF NothingQueued, ChunkQueued
    <3>3. Streaming(r, c, http', f, w)
      BY <1>1, <2>3, <3>2 DEF Streaming
    <3>4. QED  BY <1>4, <2>1, <2>4, <3>3 DEF Good
  <2>6. CASE HeadersQueued(s, c, h, f, w)
    <3>1. http'.queue = <<Headers, x>> /\ http'.queue[2] = x
      <4>1. Append(<<Headers>>, x) = <<Headers, x>>
        BY AppendSecond, Zenon
      <4>2. QED  BY <2>3, <2>6, <4>1 DEF HeadersQueued
    <3>2. BothQueued(r, c, http', f, w)
      BY <1>3, <2>3, <2>6, <3>1 DEF HeadersQueued, BothQueued
    <3>3. Streaming(r, c, http', f, w)
      BY <1>1, <2>3, <3>2 DEF Streaming
    <3>4. QED  BY <1>4, <2>1, <2>4, <3>3 DEF Good
  <2>7. QED  BY <2>5, <2>6 DEF Streaming, ChunkQueued, BothQueued
<1>6. CASE h.state = "Dead"
  <2>1. http' = h /\ flushed' = Append(f, ChunkDone(FALSE))
    BY <1>4, <1>6 DEF write_next_with_promise, Promised, ChunkDone
  <2>2. ChunkDone(FALSE) \in Promises
    BY DEF ChunkDone, Promises
  <2>3. ActorTypes(r, c, h, flushed', w)
    BY <1>1, <2>1, <2>2, AppendProperties DEF ActorTypes
  <2>4. /\ h.queue = <<>> /\ w.body = Committed(c)
        /\ f = <<>> \/ \E a \in BOOLEAN : f = <<HeadersDone(a)>>
    BY <1>6 DEF Streaming, NothingQueued, HeadersQueued, ChunkQueued, BothQueued
  <2>5. \/ flushed' = <<ChunkDone(FALSE)>>
        \/ \E a \in BOOLEAN : flushed' = <<HeadersDone(a), ChunkDone(FALSE)>>
    <3>1. Append(<<>>, ChunkDone(FALSE)) = <<ChunkDone(FALSE)>>
      BY OneElement
    <3>2. \A a \in BOOLEAN : Append(<<HeadersDone(a)>>, ChunkDone(FALSE))
                               = <<HeadersDone(a), ChunkDone(FALSE)>>
      BY AppendSecond, Zenon
    <3>3. QED  BY <2>1, <2>4, <3>1, <3>2
  <2>6. w.body = Committed(c) + IF FALSE THEN r.pending_size ELSE 0
    BY <1>1, <2>4
  <2>7. NothingQueued(r, c, h, flushed', w)
    BY <1>6, <2>4, <2>5, <2>6 DEF NothingQueued
  <2>8. Streaming(r, c, h, flushed', w)
    BY <1>1, <2>7 DEF Streaming
  <2>9. QED  BY <1>4, <2>1, <2>3, <2>8 DEF Good
<1>7. QED  BY <1>1, <1>5, <1>6

LEMMA TryReadKeeps ==
  ASSUME NEW s, NEW c, NEW h, NEW f, NEW w, ActorTypes(s, c, h, f, w), ~s.finished,
         Streaming(s, c, h, f, w), try_read(s, c, h, f)
  PROVE  Good(stream', cursor', http', flushed', w)
<1> DEFINE size == next_read_size(c, ChunkSize)
           g    == IF s.local_file # 0 THEN s.local_file ELSE s.local_path.gen
<1>1. /\ s \in Streams /\ c \in Cursor /\ h \in Https /\ w.body \in Nat
      /\ RangeSet(c) /\ Stoppable(c, h, w) /\ Alike(s, s)
  BY StreamingStops DEF ActorTypes, Streaming, Alike, Wires
<1>2. ASSUME abort(s, c, h, f) PROVE Good(stream', cursor', http', flushed', w)
  BY <1>1, <1>2, AbortEnds
<1>3. ASSUME NEW r, r \in {s, [s EXCEPT !.local_file = 0]}, Return(r, c, h, f)
      PROVE  Good(stream', cursor', http', flushed', w)
  <2>1. 0 \in 0..Generations
    BY EnvironmentAssumption
  <2>2. r \in Streams /\ Alike(s, r)
    BY <1>1, <1>3, <2>1 DEF Streams, Alike
  <2>3. QED  BY <1>3, <2>2, ReturnKeeps
<1>4. ASSUME NEW r, r \in {s, [s EXCEPT !.local_file = 0]}, ReadFailed(s, c, h, f, r)
      PROVE  Good(stream', cursor', http', flushed', w)
  BY <1>2, <1>3, <1>4 DEF ReadFailed
<1>5. CASE ~s.write_in_flight /\ is_complete(c) /\ finish(s, c, h, f)
  <2>1. c.next_offset = c.end_offset + 1
    BY <1>1, <1>5, SizeAssumption DEF is_complete, RangeSet
  <2>2. w.body > 0
    BY <1>1, <2>1, CursorInts DEF Stoppable, Committed, RangeSet
  <2>3. h.queue = <<>>
    BY <1>1, <1>5, <2>2 DEF Streaming, NothingQueued, HeadersQueued, ChunkQueued, BothQueued
  <2>4. w.responses = <<"ok">>
    BY <2>2 DEF Streaming
  <2>5. w.body = Committed(c)
    BY <1>1, <1>5, <2>3 DEF Streaming, NothingQueued, HeadersQueued, ChunkQueued, BothQueued
  <2>6. w.body = Length(c)
    BY <1>1, <2>1, <2>5, CursorInts DEF Committed, Length
  <2>7. QED  BY <1>1, <1>5, <2>3, <2>4, <2>6, FinishEnds
<1>6. ASSUME ~s.write_in_flight, size > 0, s.local_path # NoPath, ReadChunk(s, c, h, f, size)
      PROVE  Good(stream', cursor', http', flushed', w)
  <2>1. size \in Nat /\ CommitOK(c, c.next_offset, size)
    BY <1>1, <1>6, ReadSizeFits
  <2>2. g \in 0..Generations
    <3>1. s.local_path \in Paths /\ s.local_file \in 0..Generations
      BY <1>1 DEF Streams
    <3>2. s.local_path.gen \in 1..Generations
      BY <1>6, <3>1 DEF Paths
    <3>3. QED  BY <3>1, <3>2, EnvironmentAssumption
  <2> HIDE DEF size, g
  <2>3. ASSUME NEW intact \in BOOLEAN,
               Return([s EXCEPT !.local_file = g, !.write_in_flight = TRUE,
                                !.pending_offset = c.next_offset, !.pending_size = size],
                      c, write_next_with_promise(h, Chunk(c.next_offset, size, intact)),
                      Promised(h, f, "data"))
        PROVE  Good(stream', cursor', http', flushed', w)
    <3> DEFINE r == [s EXCEPT !.local_file = g, !.write_in_flight = TRUE,
                              !.pending_offset = c.next_offset, !.pending_size = size]
    <3>1. c.next_offset \in Int /\ size \in Int
      BY <1>1, <2>1, CursorInts
    <3>2. /\ r \in Streams /\ ~r.finished /\ r.headers_sent = s.headers_sent
          /\ r.write_in_flight /\ r.pending_offset = c.next_offset /\ r.pending_size = size
      BY <1>1, <2>2, <3>1 DEF Streams
    <3>3. s.headers_sent
      BY DEF Streaming
    <3> HIDE DEF r
    <3>4. Return(r, c, write_next_with_promise(h, Chunk(c.next_offset, size, intact)),
                 Promised(h, f, "data"))
      BY <2>3 DEF r
    <3>5. QED  BY <1>6, <2>1, <3>2, <3>3, <3>4, WriteChunkKeeps
  <2>4. QED
    BY <1>2, <1>4, <1>6, <2>3 DEF ReadChunk, g
<1>7. CASE Return(s, c, h, f)
  BY <1>3, <1>7
<1>8. QED
  BY <1>5, <1>6, <1>7 DEF try_read, Busy

-------------------------------------------------------------------------------
(* The cursor: the range of the request, and reports of progress. *)
LEMMA RangeInts ==
  ASSUME NEW h \in RangeHeaders, NEW total \in 0..MaxInt64
  PROVE  LET r == parse_file_stream_range(h, total)
         IN  r.ok \in BOOLEAN /\ r.start \in Int /\ r.end \in Int
<1>1. total \in Int /\ MaxInt64 \in Nat
  BY WidthAssumption
<1>2. /\ h.first \in Int \/ h.first \in {Absent, Malformed}
      /\ h.last \in Int \/ h.last \in {Absent, Malformed}
  BY <1>1 DEF RangeHeaders, Sides
<1>3. /\ RangeError.ok \in BOOLEAN /\ RangeError.start \in Int /\ RangeError.end \in Int
  BY DEF RangeError
<1>4. ASSUME NEW p \in BOOLEAN, NEW a \in Int, NEW b \in Int
      PROVE  LET r == RangeResult(p, a, b)
             IN  r.ok \in BOOLEAN /\ r.start \in Int /\ r.end \in Int
  BY DEF RangeResult
<1>5. LET r == RangeResult(FALSE, 0, total - 1)
      IN  r.ok \in BOOLEAN /\ r.start \in Int /\ r.end \in Int
  BY <1>1 DEF RangeResult
<1>6. ASSUME h.first = Absent, h.last # Absent
      PROVE  LET r == SuffixRange(h.last, total)
             IN  r.ok \in BOOLEAN /\ r.start \in Int /\ r.end \in Int
  <2>1. CASE h.last = Malformed
    BY <1>3, <2>1 DEF SuffixRange
  <2>2. CASE h.last \in Int
    <3>1. total - Smaller(h.last, total) \in Int /\ total - 1 \in Int
      BY <1>1, <2>2 DEF Smaller
    <3>2. QED  BY <1>3, <1>4, <3>1 DEF SuffixRange
  <2>3. QED  BY <1>2, <1>6, <2>1, <2>2
<1>7. ASSUME h.first # Absent
      PROVE  LET r == FirstLastRange(h.first, h.last, total)
             IN  r.ok \in BOOLEAN /\ r.start \in Int /\ r.end \in Int
  <2>1. CASE h.first = Malformed
    BY <1>3, <2>1 DEF FirstLastRange
  <2>2. CASE h.first \in Int
    <3>1. h.last \in Int => Smaller(h.last, total - 1) \in Int
      BY <1>1 DEF Smaller
    <3>2. total - 1 \in Int
      BY <1>1
    <3>3. QED  BY <1>2, <1>3, <1>4, <2>2, <3>1, <3>2 DEF FirstLastRange
  <2>3. QED  BY <1>2, <1>7, <2>1, <2>2
<1>8. QED  BY <1>3, <1>5, <1>6, <1>7 DEF parse_file_stream_range

LEMMA RangeWanted ==
  ASSUME request \in Requests
  PROVE  LET r == parse_file_stream_range(request.range, TotalSize)
         IN  /\ r.ok \in BOOLEAN /\ r.start \in Int /\ r.end \in Int
             /\ r.ok => /\ r.start..r.end = Wanted
                        /\ 0 <= r.start /\ r.start <= r.end /\ r.end < TotalSize
<1> DEFINE r == parse_file_stream_range(request.range, TotalSize)
<1>1. request.range \in RangeHeaders /\ TotalSize \in 0..MaxInt64 /\ TotalSize \in Nat \ {0}
  BY RequestAssumption, SizeAssumption, WidthAssumption
<1>2. r.ok \in BOOLEAN /\ r.start \in Int /\ r.end \in Int
  BY <1>1, RangeInts
<1>3. RangeMatchesSelection(request.range, TotalSize)
  BY <1>1, RangeForEverySize
<1>4. ASSUME r.ok PROVE r.start..r.end = Wanted /\ Wanted # {} /\ Wanted \subseteq 0..(TotalSize - 1)
  <2>1. CASE request.range.unit = "none"
    <3>1. r.start..r.end = 0..(TotalSize - 1)
      BY <1>3, <2>1 DEF RangeMatchesSelection
    <3>2. Wanted = 0..(TotalSize - 1) /\ 0 \in 0..(TotalSize - 1)
      BY <1>1, <2>1 DEF Wanted
    <3>3. QED  BY <3>1, <3>2
  <2>2. CASE request.range.unit # "none"
    <3>1. /\ WellFormed(request.range) /\ Selected(request.range, TotalSize) # {}
          /\ r.start..r.end = Selected(request.range, TotalSize)
      BY <1>3, <1>4, <2>2 DEF RangeMatchesSelection
    <3>2. Selected(request.range, TotalSize) \subseteq 0..(TotalSize - 1)
      BY DEF Selected
    <3>3. QED  BY <2>2, <3>1, <3>2 DEF Wanted
  <2>3. QED  BY <2>1, <2>2
<1> HIDE DEF r
<1>5. ASSUME r.ok PROVE 0 <= r.start /\ r.start <= r.end /\ r.end < TotalSize
  <2>1. PICK b : b \in r.start..r.end
    BY <1>4, <1>5
  <2>2. r.start \in r.start..r.end /\ r.end \in r.start..r.end
    BY <1>2, <2>1
  <2>3. r.start \in 0..(TotalSize - 1) /\ r.end \in 0..(TotalSize - 1)
    BY <1>4, <1>5, <2>2
  <2>4. QED  BY <1>1, <1>2, <2>1, <2>3
<1>6. QED  BY <1>2, <1>4, <1>5 DEF r

LEMMA ProgressKeeps ==
  ASSUME NEW c \in Cursor, RangeSet(c), NEW prefix \in 0..TotalSize, NEW completed \in BOOLEAN
  PROVE  LET d == update_progress(c, 0, prefix, completed)
         IN  /\ d \in Cursor /\ RangeSet(d)
             /\ d.start_offset = c.start_offset /\ d.end_offset = c.end_offset
             /\ d.next_offset = c.next_offset
             /\ c.contiguous_end <= d.contiguous_end
             /\ d.contiguous_end \in {c.contiguous_end, prefix}
<1> DEFINE d == update_progress(c, 0, prefix, completed)
           e == IF prefix > c.contiguous_end \/ (completed /\ prefix = c.total_size)
                THEN prefix ELSE c.contiguous_end
<1>1. TotalSize \in Nat /\ c.total_size = TotalSize
  BY SizeAssumption DEF RangeSet
<1>2. ProgressOK(c, 0, prefix) /\ ~(c.end_offset < c.start_offset)
  BY <1>1, CursorInts DEF ProgressOK, RangeSet
<1>3. d = [c EXCEPT !.end_offset = c.end_offset, !.contiguous_end = e]
  BY <1>2 DEF update_progress
<1>4. /\ e \in {c.contiguous_end, prefix} /\ e \in Int
      /\ c.contiguous_end <= e /\ 0 <= e /\ e <= TotalSize
  BY <1>1, CursorInts DEF RangeSet
<1> HIDE DEF e, d
<1>5. /\ d \in Cursor /\ d.start_offset = c.start_offset /\ d.end_offset = c.end_offset
      /\ d.next_offset = c.next_offset /\ d.contiguous_end = e /\ d.total_size = c.total_size
  BY <1>3, <1>4 DEF Cursor
<1>6. RangeSet(d)
  BY <1>4, <1>5 DEF RangeSet
<1>7. QED  BY <1>4, <1>5, <1>6 DEF d

-------------------------------------------------------------------------------
(* The handlers of the actor. *)
LEMMA MessageTaken ==
  ASSUME IInv, NEW type, Receive(type)
  PROVE  /\ inbox \in Seq(Messages) /\ inbox # <<>> /\ Head(inbox) = inbox[1]
         /\ Head(inbox) \in Messages /\ Head(inbox).type = type /\ ~stream.finished
         /\ Len(inbox) \in Nat \ {0} /\ inbox' = Tail(inbox) /\ inbox' \in Seq(Messages)
         /\ Len(inbox') = Len(inbox) - 1 /\ \A k \in 1..Len(inbox') : inbox'[k] = inbox[k + 1]
<1>1. /\ inbox \in Seq(Messages) /\ inbox # <<>> /\ Head(inbox).type = type
      /\ ~stream.finished /\ inbox' = Tail(inbox)
  BY DEF IInv, Inbox, Receive
<1>2. Len(inbox) \in Nat \ {0}
  BY <1>1, EmptySeq
<1>3. /\ Head(inbox) \in Messages /\ Tail(inbox) \in Seq(Messages)
      /\ Len(Tail(inbox)) = Len(inbox) - 1
      /\ \A k \in 1..Len(Tail(inbox)) : Tail(inbox)[k] = inbox[k + 1]
  BY <1>1, HeadTailProperties
<1>4. Head(inbox) = inbox[1]
  BY <1>1
<1>5. QED  BY <1>1, <1>2, <1>3, <1>4

LEMMA SwitchPathTypes ==
  ASSUME NEW s \in Streams, NEW path \in Paths
  PROVE  SwitchPath(s, path) \in Streams /\ Alike(s, SwitchPath(s, path))
<1>1. 0 \in 0..Generations
  BY EnvironmentAssumption
<1>2. QED  BY <1>1 DEF SwitchPath, Streams, Alike

LEMMA SetClientKeeps ==
  ASSUME IInv, set_client
  PROVE  Good(stream', cursor', http', flushed', wire)
<1>1. /\ ~stream.finished /\ ActorTypes(stream, cursor, http, flushed, wire)
      /\ Waiting(stream, cursor, http, flushed, wire)
         \/ Streaming(stream, cursor, http, flushed, wire)
  BY DEF IInv, Good, set_client, Receive
<1>2. [stream EXCEPT !.client = TRUE] \in Streams /\ Alike(stream, [stream EXCEPT !.client = TRUE])
  BY <1>1 DEF ActorTypes, Streams, Alike
<1>3. QED  BY <1>1, <1>2, ReturnKeeps DEF set_client

(* A failure at any time. *)
LEMMA FailKeeps ==
  ASSUME IInv, ~stream.finished, fail(stream, cursor, http, flushed)
  PROVE  Good(stream', cursor', http', flushed', wire)
<1>1. ActorTypes(stream, cursor, http, flushed, wire)
  BY DEF IInv, Good
<1>2. CASE Waiting(stream, cursor, http, flushed, wire)
  <2>1. ~stream.headers_sent /\ Unanswered(cursor, http, wire)
    BY <1>2 DEF Waiting, Unanswered, FreshCursor, Committed
  <2>2. QED  BY <1>1, <2>1, FailEnds
<1>3. CASE Streaming(stream, cursor, http, flushed, wire)
  <2>1. stream.headers_sent /\ Stoppable(cursor, http, wire)
    BY <1>1, <1>3, StreamingStops DEF Streaming
  <2>2. QED  BY <1>1, <2>1, FailEnds
<1>4. QED  BY <1>2, <1>3 DEF IInv, Good

(* The first report: the range is set and the headers are written. *)
LEMMA FileReadyKeeps ==
  ASSUME IInv, on_file_ready
  PROVE  Good(stream', cursor', http', flushed', wire)
<1> DEFINE m     == Head(inbox)
           s     == [SwitchPath(stream, m.path) EXCEPT !.file_id = 1]
           sized == [cursor EXCEPT !.total_size = m.size]
           r     == parse_file_stream_range(request.range, m.size)
           c     == update_progress(set_range(sized, r.start, r.end), 0, m.prefix, m.completed)
           ready == [s EXCEPT !.download_completed = m.completed, !.headers_sent = TRUE]
           h     == write_next_with_promise(http, Headers)
           f     == Promised(http, flushed, "headers")
<1>1. Receive("on_file_ready")
  BY DEF on_file_ready
<1>2. /\ m = inbox[1] /\ m \in Messages /\ m.type = "on_file_ready" /\ ~stream.finished
      /\ Len(inbox) \in Nat \ {0}
  BY <1>1, MessageTaken
<1>3. m.size = TotalSize /\ cursor.total_size < 0 /\ request \in Requests
  BY <1>2 DEF IInv, Inbox, Environment
<1>4. /\ m.path \in Paths /\ m.prefix \in 0..TotalSize /\ m.completed \in BOOLEAN
      /\ TotalSize \in Nat \ {0}
  BY <1>2, SizeAssumption DEF Messages
<1>5. Waiting(stream, cursor, http, flushed, wire)
  BY <1>2, <1>3, <1>4 DEF IInv, Good, Streaming, RangeSet
<1>6. /\ stream \in Streams /\ http \in Https /\ wire \in Wires /\ wire.body = 0
      /\ wire.responses = <<>> /\ http.queue = <<>> /\ flushed = <<>> /\ cursor = FreshCursor
      /\ http.state \in {"Write", "Dead"} /\ ~stream.write_in_flight /\ ~stream.headers_sent
  BY <1>5 DEF IInv, Good, ActorTypes, Waiting
<1>7. /\ s \in Streams /\ ~s.finished /\ ~s.write_in_flight /\ ~s.headers_sent
  <2>1. SwitchPath(stream, m.path) \in Streams /\ Alike(stream, SwitchPath(stream, m.path))
    BY <1>4, <1>6, SwitchPathTypes
  <2>2. QED  BY <1>2, <1>6, <2>1 DEF Streams, Alike
<1>8. /\ ready \in Streams /\ ~ready.finished /\ ~ready.write_in_flight /\ ready.headers_sent
  BY <1>4, <1>7 DEF Streams
<1>9. /\ r.ok \in BOOLEAN /\ r.start \in Int /\ r.end \in Int
      /\ r.ok => /\ r.start..r.end = Wanted
                 /\ 0 <= r.start /\ r.start <= r.end /\ r.end < TotalSize
  BY <1>3, RangeWanted
<1>10. /\ sized \in Cursor /\ sized.total_size = TotalSize
       /\ sized.start_offset = 0 /\ sized.next_offset = 0 /\ sized.contiguous_end = 0
  BY <1>3, <1>4, <1>6 DEF FreshCursor, Cursor
<1>11. ASSUME r.ok
       PROVE  c \in Cursor /\ RangeSet(c) /\ Committed(c) = 0
  <2> DEFINE e == set_range(sized, r.start, r.end)
  <2>1. /\ e \in Cursor /\ e.total_size = TotalSize /\ e.contiguous_end = 0
        /\ e.start_offset = r.start /\ e.end_offset = r.end /\ e.next_offset = r.start
    <3> HIDE DEF sized, r
    <3>1. QED  BY <1>9, <1>10 DEF set_range, Cursor
  <2> HIDE DEF e, r, sized
  <2>2. RangeSet(e)
    BY <1>4, <1>9, <1>11, <2>1 DEF RangeSet
  <2>3. c = update_progress(e, 0, m.prefix, m.completed)
    BY DEF e
  <2> HIDE DEF c, m
  <2>4. /\ c \in Cursor /\ RangeSet(c) /\ c.start_offset = e.start_offset
        /\ c.next_offset = e.next_offset
    BY <1>4, <2>1, <2>2, <2>3, ProgressKeeps
  <2>5. QED  BY <1>9, <2>1, <2>4 DEF Committed
<1> HIDE DEF m, s, sized, r, c, ready, h, f
<1>12. ASSUME NEW d \in Cursor, d.total_size >= 0 => Committed(d) <= 0, fail(s, d, http, flushed)
       PROVE  Good(stream', cursor', http', flushed', wire)
  <2>1. Unanswered(d, http, wire)
    BY <1>6, <1>12 DEF Unanswered
  <2>2. ActorTypes(s, d, http, flushed, wire)
    BY <1>7 DEF IInv, Good, ActorTypes
  <2>3. QED  BY <1>7, <1>12, <2>1, <2>2, FailEnds
<1>13. ASSUME r.ok
       PROVE  ActorTypes(ready, c, h, f, wire) /\ Streaming(ready, c, h, f, wire)
  <2>1. c \in Cursor /\ RangeSet(c) /\ Committed(c) = 0
    BY <1>11, <1>13
  <2>2. <<Headers>> \in Seq(Items) /\ <<HeadersDone(FALSE)>> \in Seq(Promises)
    BY DEF Headers, Items, HeadersDone, Promises
  <2>3. Append(<<>>, Headers) = <<Headers>> /\ Append(<<>>, HeadersDone(FALSE)) = <<HeadersDone(FALSE)>>
    BY OneElement
  <2>4. CASE http.state = "Write"
    <3>1. h = [http EXCEPT !.queue = <<Headers>>] /\ f = <<>>
      BY <1>6, <2>3, <2>4 DEF h, f, write_next_with_promise, Promised
    <3>2. h \in Https /\ h.state = "Write" /\ h.queue = <<Headers>>
      BY <1>6, <2>2, <2>4, <3>1 DEF Https
    <3>3. HeadersQueued(ready, c, h, f, wire)
      BY <1>6, <1>8, <2>1, <3>1, <3>2 DEF HeadersQueued
    <3>4. Streaming(ready, c, h, f, wire)
      BY <1>6, <1>8, <2>1, <3>2, <3>3 DEF Streaming
    <3>5. QED  BY <1>6, <1>8, <2>1, <3>1, <3>2, <3>4 DEF ActorTypes
  <2>5. CASE http.state = "Dead"
    <3>1. h = http /\ f = <<HeadersDone(FALSE)>>
      BY <1>6, <2>3, <2>5 DEF h, f, write_next_with_promise, Promised, HeadersDone
    <3>2. NothingQueued(ready, c, h, f, wire)
      BY <1>6, <1>8, <2>1, <2>5, <3>1 DEF NothingQueued
    <3>3. Streaming(ready, c, h, f, wire)
      BY <1>6, <1>8, <2>1, <2>5, <3>1, <3>2 DEF Streaming
    <3>4. QED  BY <1>6, <1>8, <2>1, <2>2, <3>1, <3>3 DEF ActorTypes
  <2>6. QED  BY <1>6, <2>4, <2>5
<1>14. CASE fail(s, cursor, http, flushed)
  <2>1. cursor \in Cursor /\ ~(cursor.total_size >= 0)
    BY <1>6 DEF FreshCursor, Cursor
  <2>2. QED  BY <1>12, <1>14, <2>1
<1>15. CASE fail(s, sized, http, flushed)
  <2>1. Committed(sized) <= 0
    BY <1>10 DEF Committed
  <2>2. QED  BY <1>10, <1>12, <1>15, <2>1
<1>16. CASE r.ok /\ fail(s, c, http, flushed)
  <2>1. Committed(c) <= 0
    BY <1>11, <1>16
  <2>2. QED  BY <1>11, <1>12, <1>16, <2>1
<1>17. CASE r.ok /\ Return(ready, c, h, f)
  <2>1. Alike(ready, ready)
    BY DEF Alike
  <2>2. QED  BY <1>8, <1>13, <1>17, <2>1, ReturnKeeps
<1>18. CASE r.ok /\ try_read(ready, c, h, f)
  BY <1>8, <1>13, <1>18, TryReadKeeps
<1>19. QED
  BY <1>14, <1>15, <1>16, <1>17, <1>18 DEF on_file_ready, m, s, sized, r, c, ready, h, f

(* A later report raises the contiguous prefix, never what is in flight. *)
LEMMA FileProgressKeeps ==
  ASSUME IInv, on_file_progress
  PROVE  Good(stream', cursor', http', flushed', wire)
<1> DEFINE m    == Head(inbox)
           s    == SwitchPath(stream, m.path)
           c    == update_progress(cursor, 0, m.prefix, m.completed)
           done == stream.download_completed \/ m.completed
           t    == [s EXCEPT !.download_completed = done]
<1>1. Receive("on_file_progress")
  BY DEF on_file_progress
<1>2. m \in Messages /\ ~stream.finished
  BY <1>1, MessageTaken
<1>3. m.path \in Paths /\ m.prefix \in 0..TotalSize /\ m.completed \in BOOLEAN
  BY <1>2 DEF Messages
<1>4. /\ ActorTypes(stream, cursor, http, flushed, wire) /\ stream \in Streams /\ cursor \in Cursor
      /\ Waiting(stream, cursor, http, flushed, wire)
         \/ Streaming(stream, cursor, http, flushed, wire)
  BY <1>2 DEF IInv, Good, ActorTypes
<1>5. s \in Streams /\ Alike(stream, s)
  BY <1>3, <1>4, SwitchPathTypes
<1>6. t \in Streams /\ Alike(stream, t)
  <2>1. done \in BOOLEAN
    BY <1>3, <1>4 DEF Streams
  <2> HIDE DEF done, s
  <2>2. QED  BY <1>5, <2>1 DEF Streams, Alike
<1> HIDE DEF m, s, c, done, t
<1>7. CASE Return(stream, cursor, http, flushed)
  <2>1. Alike(stream, stream)
    BY DEF Alike
  <2>2. QED  BY <1>2, <1>4, <1>7, <2>1, ReturnKeeps
<1>8. ASSUME cursor.total_size >= 0
      PROVE  /\ Streaming(stream, cursor, http, flushed, wire) /\ RangeSet(cursor)
             /\ Stoppable(cursor, http, wire)
  BY <1>4, <1>8, StreamingStops DEF Waiting, FreshCursor, Streaming
<1>9. CASE cursor.total_size >= 0 /\ abort(stream, cursor, http, flushed)
  BY <1>4, <1>8, <1>9, AbortEnds
<1>10. ASSUME cursor.total_size >= 0
       PROVE  /\ c \in Cursor /\ RangeSet(c) /\ c.start_offset = cursor.start_offset
              /\ c.end_offset = cursor.end_offset /\ c.next_offset = cursor.next_offset
              /\ cursor.contiguous_end <= c.contiguous_end
              /\ Committed(c) = Committed(cursor) /\ Length(c) = Length(cursor)
  <2>1. /\ c \in Cursor /\ RangeSet(c) /\ c.start_offset = cursor.start_offset
        /\ c.end_offset = cursor.end_offset /\ c.next_offset = cursor.next_offset
        /\ cursor.contiguous_end <= c.contiguous_end
    BY <1>3, <1>4, <1>8, <1>10, ProgressKeeps DEF c
  <2>2. QED  BY <2>1 DEF Committed, Length
<1>11. CASE cursor.total_size >= 0 /\ abort(s, c, http, flushed)
  <2>1. Stoppable(c, http, wire)
    BY <1>8, <1>10, <1>11 DEF Stoppable, Fits
  <2>2. ActorTypes(s, c, http, flushed, wire)
    BY <1>4, <1>5, <1>10, <1>11 DEF ActorTypes
  <2>3. QED  BY <1>11, <2>1, <2>2, AbortEnds
<1>12. CASE cursor.total_size >= 0 /\ try_read(t, c, http, flushed)
  <2>1. Streaming(t, cursor, http, flushed, wire)
    BY <1>6, <1>8, <1>12, AlikeStreams
  <2>2. t.write_in_flight => CommitOK(c, t.pending_offset, t.pending_size)
    <3>1. t.write_in_flight => CommitOK(cursor, t.pending_offset, t.pending_size)
      BY <2>1 DEF Streaming
    <3>2. t.pending_size \in Int /\ c \in Cursor
      BY <1>6, <1>10, <1>12, PendingInts
    <3>3. QED  BY <1>4, <1>10, <1>12, <3>1, <3>2, CursorInts DEF CommitOK
  <2>3. Streaming(t, c, http, flushed, wire)
    BY <1>10, <1>12, <2>1, <2>2
    DEF Streaming, NothingQueued, HeadersQueued, ChunkQueued, BothQueued
  <2>4. ActorTypes(t, c, http, flushed, wire) /\ ~t.finished
    BY <1>2, <1>4, <1>6, <1>10, <1>12 DEF ActorTypes, Alike
  <2>5. QED  BY <1>12, <2>3, <2>4, TryReadKeeps
<1>13. QED
  BY <1>7, <1>9, <1>11, <1>12 DEF on_file_progress, m, s, c, done, t

(* The results of the writes. *)
LEMMA PromiseTaken ==
  ASSUME IInv, NEW kind, Settle(kind)
  PROVE  /\ ~stream.finished /\ flushed # <<>> /\ flushed \in Seq(Promises)
         /\ Head(flushed).kind = kind /\ Tail(flushed) \in Seq(Promises)
         /\ ActorTypes(stream, cursor, http, flushed, wire)
         /\ Streaming(stream, cursor, http, flushed, wire) /\ Stoppable(cursor, http, wire)
<1>1. /\ ~stream.finished /\ flushed # <<>> /\ Head(flushed).kind = kind
  BY DEF Settle
<1>2. ActorTypes(stream, cursor, http, flushed, wire) /\ flushed \in Seq(Promises)
  BY DEF IInv, Good, ActorTypes
<1>3. Streaming(stream, cursor, http, flushed, wire)
  BY <1>1 DEF IInv, Good, Waiting
<1>4. QED  BY <1>1, <1>2, <1>3, StreamingStops, HeadTailProperties

LEMMA HeadersFlushedKeeps ==
  ASSUME IInv, on_headers_flushed
  PROVE  Good(stream', cursor', http', flushed', wire)
<1>1. Settle("headers")
  BY DEF on_headers_flushed
<1>2. /\ ~stream.finished /\ Head(flushed).kind = "headers" /\ Tail(flushed) \in Seq(Promises)
      /\ ActorTypes(stream, cursor, http, flushed, wire)
      /\ Streaming(stream, cursor, http, flushed, wire) /\ Stoppable(cursor, http, wire)
  BY <1>1, PromiseTaken
<1>3. ActorTypes(stream, cursor, http, Tail(flushed), wire)
  BY <1>2 DEF ActorTypes
<1>4. \A a \in BOOLEAN :
        /\ Head(<<HeadersDone(a)>>).kind = "headers" /\ Tail(<<HeadersDone(a)>>) = <<>>
        /\ Head(<<ChunkDone(a)>>).kind = "data"
  BY OneElement DEF HeadersDone, ChunkDone
<1>5. \A a, b \in BOOLEAN : Tail(<<HeadersDone(a), ChunkDone(b)>>) = <<ChunkDone(b)>>
  BY TwoElements
<1>6. flushed # <<>>
  BY <1>1 DEF Settle
<1>7. /\ NothingQueued(stream, cursor, http, Tail(flushed), wire)
         \/ ChunkQueued(stream, cursor, http, Tail(flushed), wire)
      /\ http.state = "Write" => wire.responses = <<"ok">>
  <2>1. CASE NothingQueued(stream, cursor, http, flushed, wire)
    BY <1>2, <1>4, <1>5, <1>6, <2>1 DEF NothingQueued
  <2>2. CASE ChunkQueued(stream, cursor, http, flushed, wire)
    BY <1>4, <1>6, <2>2 DEF ChunkQueued
  <2>3. QED  BY <1>2, <1>6, <2>1, <2>2 DEF Streaming, HeadersQueued, BothQueued
<1>8. CASE abort(stream, cursor, http, Tail(flushed))
  BY <1>2, <1>3, <1>8, AbortEnds
<1>9. CASE Return(stream, cursor, http, Tail(flushed))
  <2>1. Streaming(stream, cursor, http, Tail(flushed), wire)
    BY <1>2, <1>7 DEF Streaming
  <2>2. Alike(stream, stream) /\ stream \in Streams
    BY <1>3 DEF Alike, ActorTypes
  <2>3. QED  BY <1>2, <1>3, <1>9, <2>1, <2>2, ReturnKeeps
<1>10. CASE request.head_only
            /\ Return(Stop(stream), cursor,
                      IF http.state = "Write" THEN [http EXCEPT !.state = "Read"] ELSE http,
                      Tail(flushed))
  <2>1. /\ stream' = Stop(stream) /\ cursor' = cursor /\ flushed' = Tail(flushed)
        /\ http' = IF http.state = "Write" THEN [http EXCEPT !.state = "Read"] ELSE http
    BY <1>10 DEF Return
  <2>2. http \in Https /\ http.state \in {"Write", "Dead"} /\ stream \in Streams
    BY <1>2 DEF ActorTypes, Stoppable
  <2>3. /\ [http EXCEPT !.state = "Read"] \in Https
        /\ [http EXCEPT !.state = "Read"].state = "Read"
        /\ [http EXCEPT !.state = "Read"].queue = http.queue
    BY <2>2, HttpTypes
  <2>4. /\ http' \in Https /\ http'.queue = http.queue
        /\ http'.state = IF http.state = "Write" THEN "Read" ELSE "Dead"
    BY <2>1, <2>2, <2>3
  <2>5. ActorTypes(stream', cursor', http', flushed', wire) /\ stream'.finished
    BY <1>3, <2>1, <2>2, <2>4, StopTypes DEF ActorTypes
  <2>6. <<>> # <<"ok">>
    BY OneElement
  <2>7. Ended(cursor', http', wire)
    <3>1. /\ RangeSet(cursor) /\ wire.responses \in {<<>>, <<"ok">>}
          /\ wire.responses = <<>> => wire.body = 0
          /\ Committed(cursor) <= wire.body /\ wire.body <= Length(cursor)
      BY <1>2 DEF Stoppable
    <3>2. \/ http'.queue = <<>>
          \/ /\ http'.queue = <<http'.queue[1]>> /\ Fits(cursor, wire, http'.queue[1])
             /\ http'.state = "Read" /\ wire.responses = <<"ok">>
      BY <1>2, <1>7, <2>2, <2>4, <2>6 DEF Stoppable
    <3>3. http'.state = "Read" => wire.responses = <<"ok">>
      BY <1>7, <2>2, <2>4
    <3>4. http'.state = "Read" /\ http'.queue = <<>> =>
            /\ wire.responses # <<>>
            /\ wire.responses = <<"ok">> => request.head_only \/ wire.body = Length(cursor')
      BY <1>10, <2>6, <3>3
    <3>5. http'.state # "Write" /\ cursor' = cursor
      BY <2>1, <2>4
    <3>6. QED  BY <1>10, <3>1, <3>2, <3>4, <3>5 DEF Ended
  <2>8. QED  BY <2>5, <2>7 DEF Good
<1>11. QED  BY <1>8, <1>9, <1>10 DEF on_headers_flushed

LEMMA ChunkFlushedKeeps ==
  ASSUME IInv, on_chunk_flushed
  PROVE  Good(stream', cursor', http', flushed', wire)
<1> DEFINE s    == [stream EXCEPT !.write_in_flight = FALSE]
           idle == [s EXCEPT !.pending_offset = -1, !.pending_size = 0]
           sent == [idle EXCEPT !.first_byte_sent = TRUE]
           f    == Tail(flushed)
           c    == commit(cursor, stream.pending_offset, stream.pending_size)
<1>1. Settle("data")
  BY DEF on_chunk_flushed
<1>2. /\ ~stream.finished /\ flushed # <<>> /\ Head(flushed).kind = "data" /\ f \in Seq(Promises)
      /\ ActorTypes(stream, cursor, http, flushed, wire)
      /\ Streaming(stream, cursor, http, flushed, wire) /\ Stoppable(cursor, http, wire)
  BY <1>1, PromiseTaken
<1>3. stream \in Streams /\ stream.headers_sent /\ cursor \in Cursor /\ wire.body \in Nat
  BY <1>2 DEF ActorTypes, Streaming, Wires
<1>4. /\ s \in Streams /\ idle \in Streams /\ sent \in Streams
      /\ ~sent.finished /\ ~sent.write_in_flight /\ sent.headers_sent
  <2>1. s \in Streams /\ ~s.finished /\ ~s.write_in_flight /\ s.headers_sent
    BY <1>2, <1>3 DEF Streams
  <2> HIDE DEF s
  <2>2. idle \in Streams /\ ~idle.finished /\ ~idle.write_in_flight /\ idle.headers_sent
    <3>1. \A a, b \in Int : LET i == [s EXCEPT !.pending_offset = a, !.pending_size = b]
                            IN  /\ i \in Streams /\ i.finished = s.finished
                                /\ i.write_in_flight = s.write_in_flight
                                /\ i.headers_sent = s.headers_sent
      BY <2>1 DEF Streams
    <3>2. -1 \in Int /\ 0 \in Int
      OBVIOUS
    <3>3. QED  BY <2>1, <3>1, <3>2
  <2> HIDE DEF idle
  <2>3. sent \in Streams /\ ~sent.finished /\ ~sent.write_in_flight /\ sent.headers_sent
    BY <2>2 DEF Streams
  <2>4. QED  BY <2>1, <2>2, <2>3
<1>5. \A a \in BOOLEAN :
        /\ Head(<<HeadersDone(a)>>).kind = "headers" /\ Tail(<<ChunkDone(a)>>) = <<>>
        /\ Head(<<ChunkDone(a)>>).ok = a
  BY OneElement DEF HeadersDone, ChunkDone
<1>6. \A a, b \in BOOLEAN : Head(<<HeadersDone(a), ChunkDone(b)>>).kind = "headers"
  BY TwoElements DEF HeadersDone
<1>7. /\ http.queue = <<>> /\ (http.state = "Write" => wire.responses = <<"ok">>)
      /\ stream.write_in_flight /\ f = <<>>
      /\ Head(flushed).ok => wire.body = Committed(cursor) + stream.pending_size
  <2>1. ~HeadersQueued(stream, cursor, http, flushed, wire)
        /\ ~ChunkQueued(stream, cursor, http, flushed, wire)
        /\ ~BothQueued(stream, cursor, http, flushed, wire)
    BY <1>2, <1>5 DEF HeadersQueued, ChunkQueued, BothQueued
  <2>2. NothingQueued(stream, cursor, http, flushed, wire)
    BY <1>2, <2>1 DEF Streaming
  <2>3. PICK b \in BOOLEAN :
          /\ flushed = <<ChunkDone(b)>> /\ stream.write_in_flight
          /\ wire.body = Committed(cursor) + IF b THEN stream.pending_size ELSE 0
    BY <1>2, <1>5, <1>6, <2>2 DEF NothingQueued
  <2>4. QED  BY <1>5, <2>2, <2>3 DEF NothingQueued
<1> HIDE DEF s, idle, sent, f, c
<1>8. ASSUME NEW q \in {s, idle}, abort(q, cursor, http, f)
      PROVE  Good(stream', cursor', http', flushed', wire)
  <2>1. ActorTypes(q, cursor, http, f, wire)
    BY <1>2, <1>4, <1>8 DEF ActorTypes
  <2>2. QED  BY <1>2, <1>8, <2>1, AbortEnds
<1>9. ASSUME Head(flushed).ok, CommitOK(cursor, stream.pending_offset, stream.pending_size),
              try_read(sent, c, http, f)
       PROVE  Good(stream', cursor', http', flushed', wire)
  <2>1. c = [cursor EXCEPT !.next_offset = cursor.next_offset + stream.pending_size]
    BY <1>9 DEF c, commit
  <2>2. stream.pending_size \in Int
    BY <1>3, PendingInts
  <2>3. /\ c \in Cursor /\ c.next_offset = cursor.next_offset + stream.pending_size
        /\ c.total_size = cursor.total_size /\ c.start_offset = cursor.start_offset
        /\ c.end_offset = cursor.end_offset /\ c.contiguous_end = cursor.contiguous_end
    BY <1>3, <2>1, <2>2 DEF Cursor
  <2>4. RangeSet(c) /\ Committed(c) = Committed(cursor) + stream.pending_size
    <3>1. RangeSet(cursor)
      BY <1>2 DEF Streaming
    <3>2. QED  BY <1>3, <1>9, <2>2, <2>3, <3>1, CursorInts DEF RangeSet, CommitOK, Committed
  <2>5. NothingQueued(sent, c, http, f, wire)
    BY <1>4, <1>7, <1>9, <2>4 DEF NothingQueued
  <2>6. Streaming(sent, c, http, f, wire)
    BY <1>2, <1>4, <2>4, <2>5 DEF Streaming
  <2>7. ActorTypes(sent, c, http, f, wire)
    BY <1>2, <1>4, <2>3 DEF ActorTypes
  <2>8. QED  BY <1>4, <1>9, <2>6, <2>7, TryReadKeeps
<1>10. QED  BY <1>8, <1>9 DEF on_chunk_flushed, s, idle, sent, f, c

-------------------------------------------------------------------------------
(* The connection.  What the client receives is the headers, an error, or  *)
(* the next bytes of the range.                                            *)
GetsHeaders ==
  /\ Head(http.queue) = Headers /\ http.state \in {"Write", "Close"} /\ RangeSet(cursor)
  /\ wire.responses = <<>> /\ wire'.responses = <<"ok">>
  /\ wire'.body = wire.body /\ wire.body = 0 /\ wire'.exact = wire.exact
GetsError ==
  /\ http.queue = <<ErrorBody>> /\ http.state = "Read" /\ http'.queue = <<>>
  /\ wire.responses = <<>> /\ wire'.responses = <<"error">>
  /\ wire'.body = wire.body /\ wire.body = 0 /\ wire'.exact = wire.exact
GetsChunk ==
  /\ http.queue = <<http.queue[1]>> /\ Fits(cursor, wire, http.queue[1]) /\ http'.queue = <<>>
  /\ http.state \in {"Write", "Close"} \/ (http.state = "Read" /\ request.head_only)
  /\ RangeSet(cursor) /\ wire.responses = <<"ok">> /\ wire'.responses = <<"ok">>
  /\ wire'.body = wire.body + http.queue[1].size
  /\ wire'.exact = (wire.exact /\ http.queue[1].intact)

LEMMA FlushEffect ==
  ASSUME IInv, Flush
  PROVE  /\ http' \in Https /\ http'.state = http.state /\ http'.queue = Tail(http.queue)
         /\ wire' \in Wires
         /\ GetsHeaders \/ GetsError \/ GetsChunk
<1> DEFINE x == Head(http.queue)
<1>1. /\ http \in Https /\ wire \in Wires /\ cursor \in Cursor
      /\ http.queue \in Seq(Items) /\ http.queue # <<>>
  BY DEF IInv, Good, ActorTypes, Flush, Https
<1>2. /\ http' \in Https /\ http'.state = http.state /\ http'.queue = Tail(http.queue)
      /\ x \in Items
  <2>1. Tail(http.queue) \in Seq(Items) /\ x \in Items
    BY <1>1, HeadTailProperties
  <2>2. QED  BY <1>1, <2>1 DEF Flush, Https
<1>3. wire' = Received(wire, x)
  BY DEF Flush
<1>4. \A z : Append(<<>>, z) = <<z>> /\ Head(<<z>>) = z /\ Tail(<<z>>) = <<>> /\ <<z>>[1] = z
  BY OneElement
<1>5. \A y, z : Head(<<y, z>>) = y
  BY TwoElements
<1>6. /\ Headers.kind = "headers" /\ ErrorBody.kind = "error"
  BY DEF Headers, ErrorBody
<1>7. /\ \/ http.queue = <<ErrorBody>> /\ http.state = "Read" /\ wire.responses = <<>>
         \/ /\ http.queue = <<Headers>> \/ http.queue = <<Headers, http.queue[2]>>
            /\ http.state \in {"Write", "Close"} /\ wire.responses = <<>> /\ RangeSet(cursor)
         \/ /\ http.queue = <<http.queue[1]>> /\ Fits(cursor, wire, http.queue[1])
            /\ http.state \in {"Write", "Close"} \/ (http.state = "Read" /\ request.head_only)
            /\ RangeSet(cursor) /\ wire.responses = <<"ok">>
      /\ wire.responses = <<>> => wire.body = 0
  <2>1. CASE stream.finished
    <3>1. <<>> # <<"ok">>
      BY OneElement
    <3>2. QED  BY <1>1, <2>1, <3>1 DEF IInv, Good, Ended
  <2>2. CASE ~stream.finished
    <3>1. Stoppable(cursor, http, wire)
      BY <1>1, <2>2, StreamingStops DEF IInv, Good, Waiting
    <3>2. QED  BY <1>1, <3>1 DEF Stoppable
  <2>3. QED  BY <2>1, <2>2
<1> HIDE DEF x
<1>8. CASE http.queue = <<ErrorBody>> /\ http.state = "Read" /\ wire.responses = <<>>
  <2>1. x = ErrorBody /\ http'.queue = <<>>
    BY <1>2, <1>4, <1>8 DEF x
  <2>2. wire' = [wire EXCEPT !.responses = <<"error">>]
    BY <1>3, <1>4, <1>6, <1>8, <2>1 DEF Received
  <2>3. /\ wire' \in Wires /\ wire'.responses = <<"error">> /\ wire'.body = wire.body
        /\ wire'.exact = wire.exact
    <3>1. <<"error">> \in Seq({"ok", "error"})
      OBVIOUS
    <3>2. QED  BY <1>1, <2>2, <3>1 DEF Wires
  <2>4. GetsError
    BY <1>7, <1>8, <2>1, <2>3 DEF GetsError
  <2>5. QED  BY <1>2, <2>3, <2>4
<1>9. CASE /\ http.queue = <<Headers>> \/ http.queue = <<Headers, http.queue[2]>>
           /\ http.state \in {"Write", "Close"} /\ wire.responses = <<>> /\ RangeSet(cursor)
  <2>1. x = Headers
    BY <1>4, <1>5, <1>9 DEF x
  <2>2. wire' = [wire EXCEPT !.responses = <<"ok">>]
    BY <1>3, <1>4, <1>6, <1>9, <2>1 DEF Received
  <2>3. /\ wire' \in Wires /\ wire'.responses = <<"ok">> /\ wire'.body = wire.body
        /\ wire'.exact = wire.exact
    <3>1. <<"ok">> \in Seq({"ok", "error"})
      OBVIOUS
    <3>2. QED  BY <1>1, <2>2, <3>1 DEF Wires
  <2>4. GetsHeaders
    BY <1>7, <1>9, <2>1, <2>3 DEF GetsHeaders, x
  <2>5. QED  BY <1>2, <2>3, <2>4
<1>10. CASE /\ http.queue = <<http.queue[1]>> /\ Fits(cursor, wire, http.queue[1])
            /\ http.state \in {"Write", "Close"} \/ (http.state = "Read" /\ request.head_only)
            /\ RangeSet(cursor) /\ wire.responses = <<"ok">>
  <2>1. x = http.queue[1] /\ http'.queue = <<>>
    BY <1>2, <1>4, <1>10 DEF x
  <2>2. x.kind = "data" /\ x.offset = cursor.start_offset + wire.body
    BY <1>10, <2>1 DEF Fits
  <2>3. x.size \in Nat /\ x.intact \in BOOLEAN
    BY <1>2, <2>2 DEF Items
  <2>4. wire' = [wire EXCEPT !.body = @ + x.size, !.exact = @ /\ x.intact]
    BY <1>1, <1>3, <2>2, <2>3 DEF Received, Wires
  <2>5. /\ wire' \in Wires /\ wire'.responses = wire.responses
        /\ wire'.body = wire.body + x.size /\ wire'.exact = (wire.exact /\ x.intact)
    <3>1. PICK e \in BOOLEAN : e = (wire.exact /\ x.intact)
      OBVIOUS
    <3>2. wire' = [wire EXCEPT !.body = @ + x.size, !.exact = e]
      BY <2>4, <3>1
    <3>3. wire' \in Wires /\ wire'.responses = wire.responses
          /\ wire'.body = wire.body + x.size /\ wire'.exact = e
      <4>1. wire.body + x.size \in Nat
        BY <1>1, <2>3 DEF Wires
      <4>2. PICK n \in Nat : n = wire.body + x.size
        BY <4>1
      <4>3. wire' = [wire EXCEPT !.body = n, !.exact = e]
        BY <3>2, <4>2
      <4>4. QED  BY <1>1, <4>2, <4>3 DEF Wires
    <3>4. QED  BY <3>1, <3>3
  <2>6. GetsChunk
    BY <1>10, <2>1, <2>5 DEF GetsChunk
  <2>7. QED  BY <1>2, <2>5, <2>6
<1>11. QED  BY <1>7, <1>8, <1>9, <1>10

LEMMA FlushKeeps ==
  ASSUME IInv, Flush
  PROVE  Good(stream, cursor, http', flushed', wire')
<1>1. /\ http' \in Https /\ http'.state = http.state /\ http'.queue = Tail(http.queue)
      /\ wire' \in Wires /\ (GetsHeaders \/ GetsError \/ GetsChunk)
  BY FlushEffect
<1>2. /\ stream \in Streams /\ cursor \in Cursor /\ http \in Https /\ flushed \in Seq(Promises)
      /\ wire.body \in Nat
  BY DEF IInv, Good, ActorTypes, Wires
<1>3. flushed' = Fulfilled(http, flushed, Head(http.queue))
  BY DEF Flush
<1>4. /\ \A z : Append(<<>>, z) = <<z>> /\ Head(<<z>>) = z /\ Tail(<<z>>) = <<>> /\ <<z>>[1] = z
      /\ <<>> # <<"ok">> /\ <<>> # <<"error">>
  BY OneElement
<1>5. \A y, z : Tail(<<y, z>>) = <<z>> /\ <<y, z>>[1] = y /\ <<y, z>>[2] = z
  BY TwoElements
<1>6. CASE stream.finished
  <2>1. flushed' = flushed /\ Ended(cursor, http, wire)
    BY <1>3, <1>6 DEF IInv, Good, Ended, Fulfilled
  <2>2. CASE GetsHeaders
    <3>1. /\ RangeSet(cursor) /\ wire'.body = 0 /\ wire'.responses = <<"ok">>
          /\ wire'.body <= Length(cursor) /\ Committed(cursor) <= wire'.body
      BY <1>2, <2>1, <2>2, CursorInts, SizeAssumption
      DEF GetsHeaders, Ended, RangeSet, Length, Committed
    <3>2. http'.state = "Close"
      BY <1>1, <2>1, <2>2 DEF GetsHeaders, Ended
    <3>3. \/ http.queue = <<Headers>>
          \/ http.queue = <<Headers, http.queue[2]>> /\ Fits(cursor, wire, http.queue[2])
      <4>1. http.queue = <<http.queue[1]>> => ~Fits(cursor, wire, http.queue[1])
        BY <1>4, <2>2 DEF GetsHeaders, Fits, Headers
      <4>2. http.queue # <<>> /\ <<ErrorBody>> # http.queue
        BY <1>1, <1>4, <2>2 DEF GetsHeaders, Flush, Headers, ErrorBody
      <4>3. QED  BY <2>1, <4>1, <4>2 DEF Ended
    <3>4. CASE http.queue = <<Headers>>
      <4>1. http'.queue = <<>>
        BY <1>1, <1>4, <3>4
      <4>2. Ended(cursor, http', wire')
        BY <3>1, <3>2, <4>1 DEF Ended
      <4>3. QED  BY <1>1, <1>2, <1>6, <2>1, <4>2 DEF Good, ActorTypes
    <3>5. CASE http.queue = <<Headers, http.queue[2]>> /\ Fits(cursor, wire, http.queue[2])
      <4>1. http'.queue = <<http.queue[2]>> /\ http'.queue[1] = http.queue[2]
        <5>1. PICK y : y = http.queue[2]
          OBVIOUS
        <5>2. http.queue = <<Headers, y>>
          BY <3>5, <5>1
        <5>3. http'.queue = <<y>>
          BY <1>1, <1>5, <5>2
        <5>4. QED  BY <1>4, <5>1, <5>3
      <4>2. Fits(cursor, wire', http'.queue[1])
        BY <2>2, <3>5, <4>1 DEF Fits, GetsHeaders
      <4>3. Ended(cursor, http', wire')
        BY <3>1, <3>2, <4>1, <4>2 DEF Ended
      <4>4. QED  BY <1>1, <1>2, <1>6, <2>1, <4>3 DEF Good, ActorTypes
    <3>6. QED  BY <3>3, <3>4, <3>5
  <2>3. CASE GetsError
    <3>1. <<"error">> # <<"ok">>
      OBVIOUS
    <3>2. Ended(cursor, http', wire')
      BY <1>1, <2>1, <2>3, <3>1 DEF Ended, GetsError
    <3>3. QED  BY <1>1, <1>2, <1>6, <2>1, <3>2 DEF Good, ActorTypes
  <2>4. CASE GetsChunk
    <3>1. /\ wire'.body \in Nat /\ wire.body <= wire'.body /\ wire'.body <= Length(cursor)
      <4>1. http.queue[1] \in Items /\ http.queue[1].kind = "data"
            /\ wire.body + http.queue[1].size <= Length(cursor)
            /\ wire'.body = wire.body + http.queue[1].size
        BY <2>4 DEF GetsChunk, Fits
      <4>2. http.queue[1].size \in Nat
        BY <4>1 DEF Items
      <4>3. QED  BY <1>2, <4>1, <4>2
    <3>2. cursor.total_size >= 0 => Committed(cursor) <= wire'.body
      BY <1>2, <2>1, <3>1, CursorInts DEF Ended, Committed
    <3>3. Ended(cursor, http', wire')
      BY <1>1, <2>1, <2>4, <3>1, <3>2 DEF Ended, GetsChunk
    <3>4. QED  BY <1>1, <1>2, <1>6, <2>1, <3>3 DEF Good, ActorTypes
  <2>5. QED  BY <1>1, <2>2, <2>3, <2>4
<1>7. CASE ~stream.finished
  <2>1. /\ Streaming(stream, cursor, http, flushed, wire) /\ http.state = "Write"
        /\ ~NothingQueued(stream, cursor, http, flushed, wire)
    BY <1>7 DEF IInv, Good, Waiting, Streaming, NothingQueued, Flush
  <2>2. flushed' = Append(flushed, [kind |-> Head(http.queue).kind, ok |-> TRUE])
    BY <1>3, <2>1 DEF Fulfilled
  <2>3. /\ RangeSet(cursor) /\ stream.headers_sent
        /\ stream.write_in_flight => CommitOK(cursor, stream.pending_offset, stream.pending_size)
    BY <2>1 DEF Streaming
  <2>4. HeadersDone(TRUE) \in Promises /\ ChunkDone(TRUE) \in Promises
    BY DEF HeadersDone, ChunkDone, Promises
  <2>5. Headers.kind = "headers"
    BY DEF Headers
  <2>6. CASE HeadersQueued(stream, cursor, http, flushed, wire)
    <3>1. http.queue = <<Headers>> /\ flushed = <<>>
      BY <2>6 DEF HeadersQueued
    <3>2. /\ http'.queue = <<>> /\ flushed' = <<HeadersDone(TRUE)>> /\ flushed' \in Seq(Promises)
      <4>1. Head(http.queue) = Headers /\ http'.queue = <<>>
        BY <1>1, <1>4, <3>1
      <4>2. [kind |-> Head(http.queue).kind, ok |-> TRUE] = HeadersDone(TRUE)
        BY <2>5, <4>1 DEF HeadersDone
      <4>3. <<HeadersDone(TRUE)>> \in Seq(Promises)
        BY <2>4, OneIsSeq
      <4>4. QED  BY <1>4, <2>2, <3>1, <4>1, <4>2, <4>3
    <3>3. wire'.responses = <<"ok">> /\ wire'.body = wire.body
      BY <1>1, <1>4, <2>6 DEF HeadersQueued, GetsHeaders, GetsError, GetsChunk
    <3>4. NothingQueued(stream, cursor, http', flushed', wire')
      BY <2>6, <3>2, <3>3 DEF HeadersQueued, NothingQueued
    <3>5. Streaming(stream, cursor, http', flushed', wire')
      BY <1>1, <1>4, <2>1, <2>3, <3>3, <3>4 DEF Streaming
    <3>6. QED  BY <1>1, <1>2, <1>7, <3>2, <3>5 DEF Good, ActorTypes
  <2>7. CASE ChunkQueued(stream, cursor, http, flushed, wire)
    <3>1. /\ http.queue = <<http.queue[1]>> /\ InFlight(stream, http.queue[1])
          /\ stream.write_in_flight /\ wire.responses = <<"ok">> /\ wire.body = Committed(cursor)
      BY <2>7 DEF ChunkQueued
    <3>2. Head(http.queue) = http.queue[1] /\ http'.queue = <<>>
      BY <1>1, <1>4, <3>1
    <3>3. flushed' = Append(flushed, ChunkDone(TRUE)) /\ flushed' \in Seq(Promises)
      BY <1>2, <2>2, <2>4, <3>1, <3>2, AppendProperties DEF ChunkDone, InFlight
    <3>4. \/ flushed' = <<ChunkDone(TRUE)>>
          \/ \E a \in BOOLEAN : flushed' = <<HeadersDone(a), ChunkDone(TRUE)>>
      <4>1. \A a \in BOOLEAN : Append(<<HeadersDone(a)>>, ChunkDone(TRUE))
                                 = <<HeadersDone(a), ChunkDone(TRUE)>>
        BY AppendSecond, Zenon
      <4>2. QED  BY <1>4, <2>7, <3>3, <4>1 DEF ChunkQueued
    <3>5. wire'.responses = <<"ok">> /\ wire'.body = Committed(cursor) + stream.pending_size
      BY <1>1, <1>4, <3>1 DEF GetsHeaders, GetsError, GetsChunk, InFlight
    <3>6. wire'.body = Committed(cursor) + IF TRUE THEN stream.pending_size ELSE 0
      BY <3>5
    <3>7. NothingQueued(stream, cursor, http', flushed', wire')
      BY <3>1, <3>2, <3>4, <3>5, <3>6 DEF NothingQueued
    <3>8. Streaming(stream, cursor, http', flushed', wire')
      BY <1>1, <1>4, <2>1, <2>3, <3>5, <3>7 DEF Streaming
    <3>9. QED  BY <1>1, <1>2, <1>7, <3>3, <3>8 DEF Good, ActorTypes
  <2>8. CASE BothQueued(stream, cursor, http, flushed, wire)
    <3>1. http.queue = <<Headers, http.queue[2]>> /\ flushed = <<>>
      BY <2>8 DEF BothQueued
    <3>2. /\ http'.queue = <<http.queue[2]>> /\ http'.queue[1] = http.queue[2]
      <4>1. PICK y : y = http.queue[2]
        OBVIOUS
      <4>2. http.queue = <<Headers, y>>
        BY <3>1, <4>1
      <4>3. http'.queue = <<y>>
        BY <1>1, <1>5, <4>2
      <4>4. QED  BY <1>4, <4>1, <4>3
    <3>3. Head(http.queue) = Headers
      BY <3>1, TwoElements
    <3>4. flushed' = <<HeadersDone(TRUE)>> /\ flushed' \in Seq(Promises)
      <4>1. [kind |-> Head(http.queue).kind, ok |-> TRUE] = HeadersDone(TRUE)
        BY <2>5, <3>3 DEF HeadersDone
      <4>2. <<HeadersDone(TRUE)>> \in Seq(Promises)
        BY <2>4, OneIsSeq
      <4>3. QED  BY <1>4, <2>2, <3>1, <4>1, <4>2
    <3>5. wire'.responses = <<"ok">> /\ wire'.body = wire.body
      BY <1>1, <1>4, <2>8 DEF BothQueued, GetsHeaders, GetsError, GetsChunk
    <3>6. ChunkQueued(stream, cursor, http', flushed', wire')
      BY <1>1, <2>8, <3>2, <3>4, <3>5 DEF BothQueued, ChunkQueued
    <3>7. Streaming(stream, cursor, http', flushed', wire')
      BY <1>1, <1>4, <2>1, <2>3, <3>5, <3>6 DEF Streaming
    <3>8. QED  BY <1>1, <1>2, <1>7, <3>4, <3>7 DEF Good, ActorTypes
  <2>9. QED  BY <2>1, <2>6, <2>7, <2>8 DEF Streaming
<1>8. QED  BY <1>6, <1>7

(* The loss of the peer fails what was queued. *)
LEMMA ClosedTypes ==
  /\ Closing(http) \in Https /\ Closing(http).state = "Dead" /\ Closing(http).queue = <<>>
<1>1. <<>> \in Seq(Items)
  OBVIOUS
<1>2. QED  BY <1>1 DEF Closing, Https

LEMMA ClosedEnded ==
  ASSUME IInv, stream.finished, http' = Closing(http)
  PROVE  Good(stream, cursor, http', flushed, wire)
<1>1. http' \in Https /\ http'.state = "Dead" /\ http'.queue = <<>>
  BY ClosedTypes
<1>2. Ended(cursor, http', wire)
  BY <1>1 DEF IInv, Good, Ended
<1>3. QED  BY <1>1, <1>2 DEF IInv, Good, ActorTypes

LEMMA DisconnectKeeps ==
  ASSUME IInv, Disconnect
  PROVE  Good(stream, cursor, http', flushed', wire)
<1>1. /\ http' = Closing(http) /\ http.state \in {"Write", "Read"}
      /\ flushed' = IF http.state = "Write" THEN flushed \o Lost(http.queue) ELSE flushed
  BY DEF Disconnect
<1>2. http' \in Https /\ http'.state = "Dead" /\ http'.queue = <<>>
  BY <1>1, ClosedTypes
<1>3. CASE stream.finished
  <2>1. http.state # "Write"
    BY <1>3 DEF IInv, Good, Ended
  <2>2. QED  BY <1>1, <1>3, <2>1, ClosedEnded
<1>4. CASE ~stream.finished
  <2>1. /\ ActorTypes(stream, cursor, http, flushed, wire) /\ flushed \in Seq(Promises)
        /\ Waiting(stream, cursor, http, flushed, wire)
           \/ Streaming(stream, cursor, http, flushed, wire)
    BY <1>4 DEF IInv, Good, ActorTypes
  <2>2. flushed' = flushed \o Lost(http.queue)
    BY <1>1, <2>1 DEF Waiting, Streaming
  <2>3. http.queue = <<>> => flushed' = flushed
    BY <2>1, <2>2, AddNothing
  <2>4. /\ HeadersDone(TRUE) \in Promises /\ HeadersDone(FALSE) \in Promises
        /\ ChunkDone(FALSE) \in Promises
    BY DEF HeadersDone, ChunkDone, Promises
  <2>5. ASSUME flushed' \in Seq(Promises), NothingQueued(stream, cursor, http', flushed', wire),
               Streaming(stream, cursor, http, flushed, wire)
        PROVE  Good(stream, cursor, http', flushed', wire)
    <3>1. Streaming(stream, cursor, http', flushed', wire)
      BY <1>2, <2>5 DEF Streaming
    <3>2. QED  BY <1>2, <1>4, <2>1, <2>5, <3>1 DEF Good, ActorTypes
  <2>6. CASE Waiting(stream, cursor, http, flushed, wire)
    <3>1. flushed' = flushed
      BY <2>3, <2>6 DEF Waiting
    <3>2. Waiting(stream, cursor, http', flushed', wire)
      BY <1>2, <2>6, <3>1 DEF Waiting
    <3>3. QED  BY <1>2, <1>4, <2>1, <3>1, <3>2 DEF Good, ActorTypes
  <2>7. CASE Streaming(stream, cursor, http, flushed, wire)
    <3>0. /\ wire.body \in Nat /\ cursor \in Cursor /\ Committed(cursor) \in Int
      BY <2>1, CursorInts DEF ActorTypes, Wires, Committed
    <3>1. CASE NothingQueued(stream, cursor, http, flushed, wire)
      <4>1. flushed' = flushed
        BY <2>3, <3>1 DEF NothingQueued
      <4>2. NothingQueued(stream, cursor, http', flushed', wire)
        BY <1>2, <3>1, <4>1 DEF NothingQueued
      <4>3. QED  BY <2>1, <2>5, <2>7, <4>1, <4>2
    <3>2. CASE HeadersQueued(stream, cursor, http, flushed, wire)
      <4>1. Headers.kind = "headers"
        BY DEF Headers
      <4>2. flushed' = <<HeadersDone(FALSE)>>
        <5>1. HeadersDone(FALSE) = [kind |-> Headers.kind, ok |-> FALSE]
          BY <4>1 DEF HeadersDone
        <5>2. <<>> \o Lost(<<Headers>>) = <<HeadersDone(FALSE)>>
          BY <2>4, <5>1, LostOne
        <5>3. QED  BY <2>2, <3>2, <5>2 DEF HeadersQueued
      <4>3. flushed' \in Seq(Promises)
        BY <2>4, <4>2, OneIsSeq
      <4>4. NothingQueued(stream, cursor, http', flushed', wire)
        BY <1>2, <3>2, <4>2 DEF NothingQueued, HeadersQueued
      <4>5. QED  BY <2>5, <2>7, <4>3, <4>4
    <3>3. CASE ChunkQueued(stream, cursor, http, flushed, wire)
      <4>1. PICK x : /\ x = http.queue[1] /\ http.queue = <<x>> /\ x.kind = "data"
        BY <3>3 DEF ChunkQueued, InFlight
      <4>2. /\ <<>> \o Lost(<<x>>) = <<ChunkDone(FALSE)>>
            /\ \A a \in BOOLEAN : <<HeadersDone(a)>> \o Lost(<<x>>) = <<HeadersDone(a), ChunkDone(FALSE)>>
        <5>1. /\ <<>> \o Lost(<<x>>) = <<ChunkDone(FALSE)>>
              /\ \A y \in Promises : <<y>> \o Lost(<<x>>) = <<y, ChunkDone(FALSE)>>
          <6>1. ChunkDone(FALSE) = [kind |-> x.kind, ok |-> FALSE]
            BY <4>1 DEF ChunkDone
          <6>2. QED  BY <2>4, <6>1, LostOne
        <5>2. \A a \in BOOLEAN : HeadersDone(a) \in Promises
          BY DEF HeadersDone, Promises
        <5>3. QED  BY <5>1, <5>2
      <4>3. \/ flushed' = <<ChunkDone(FALSE)>>
            \/ \E a \in BOOLEAN : flushed' = <<HeadersDone(a), ChunkDone(FALSE)>>
        BY <2>2, <3>3, <4>1, <4>2 DEF ChunkQueued
      <4>4. flushed' \in Seq(Promises)
        <5>1. \A a \in BOOLEAN : HeadersDone(a) \in Promises
          BY DEF HeadersDone, Promises
        <5>2. \A y, z \in Promises : <<y, z>> \in Seq(Promises)
          OBVIOUS
        <5>3. QED  BY <2>4, <4>3, <5>1, <5>2, OneIsSeq
      <4>5. wire.body = Committed(cursor) + IF FALSE THEN stream.pending_size ELSE 0
        BY <3>0, <3>3 DEF ChunkQueued
      <4>6. NothingQueued(stream, cursor, http', flushed', wire)
        BY <1>2, <3>3, <4>3, <4>5 DEF NothingQueued, ChunkQueued
      <4>7. QED  BY <2>5, <2>7, <4>4, <4>6
    <3>4. CASE BothQueued(stream, cursor, http, flushed, wire)
      <4>1. PICK x : /\ x = http.queue[2] /\ http.queue = <<Headers, x>> /\ x.kind = "data"
        BY <3>4 DEF BothQueued, InFlight
      <4>2. flushed' = <<HeadersDone(FALSE), ChunkDone(FALSE)>>
        BY <2>2, <3>4, <4>1, LostTwo DEF BothQueued
      <4>3. flushed' \in Seq(Promises)
        <5>1. \A y, z \in Promises : <<y, z>> \in Seq(Promises)
          OBVIOUS
        <5>2. QED  BY <2>4, <4>2, <5>1
      <4>4. wire.body = Committed(cursor) + IF FALSE THEN stream.pending_size ELSE 0
        BY <3>0, <3>4 DEF BothQueued
      <4>5. NothingQueued(stream, cursor, http', flushed', wire)
        BY <1>2, <3>4, <4>2, <4>4 DEF NothingQueued, BothQueued
      <4>6. QED  BY <2>5, <2>7, <4>3, <4>5
    <3>5. QED  BY <2>7, <3>1, <3>2, <3>3, <3>4 DEF Streaming
  <2>8. QED  BY <2>1, <2>6, <2>7
<1>5. QED  BY <1>3, <1>4

LEMMA CloseConnectionKeeps ==
  ASSUME IInv, CloseConnection
  PROVE  Good(stream, cursor, http', flushed', wire)
<1>1. http.state = "Close" /\ http' = Closing(http) /\ flushed' = flushed
  BY DEF CloseConnection
<1>2. stream.finished
  BY <1>1 DEF IInv, Good, Waiting, Streaming
<1>3. QED  BY <1>1, <1>2, ClosedEnded

-------------------------------------------------------------------------------
(* The inbox and the environment. *)
LEMMA CursorLeft ==
  ASSUME NEW s, NEW c, NEW h, NEW f,
         \/ Return(s, c, h, f) \/ abort(s, c, h, f) \/ fail(s, c, h, f) \/ try_read(s, c, h, f)
  PROVE  cursor' = c
<1>1. ASSUME NEW r, NEW i, NEW g, Return(r, c, i, g) PROVE cursor' = c
  BY <1>1 DEF Return
<1>2. abort(s, c, h, f) => cursor' = c
  BY DEF abort, Return
<1>3. fail(s, c, h, f) => cursor' = c
  BY <1>2 DEF fail, Return
<1>4. finish(s, c, h, f) => cursor' = c
  BY DEF finish, Return
<1>5. ASSUME NEW r, ReadFailed(s, c, h, f, r) PROVE cursor' = c
  BY <1>1, <1>2, <1>5 DEF ReadFailed
<1>6. ASSUME NEW size, ReadChunk(s, c, h, f, size) PROVE cursor' = c
  BY <1>1, <1>2, <1>5, <1>6 DEF ReadChunk
<1>7. try_read(s, c, h, f) => cursor' = c
  BY <1>1, <1>4, <1>6 DEF try_read
<1>8. QED  BY <1>1, <1>2, <1>3, <1>7

LEMMA TakenInbox ==
  ASSUME IInv, NEW type, Receive(type),
         \/ type = "on_file_ready"
         \/ ~stream'.finished => cursor'.total_size = cursor.total_size
  PROVE  Inbox'
<1>1. /\ inbox \in Seq(Messages) /\ Head(inbox) = inbox[1] /\ Head(inbox).type = type
      /\ ~stream.finished /\ Len(inbox) \in Nat \ {0} /\ inbox' \in Seq(Messages)
      /\ Len(inbox') = Len(inbox) - 1 /\ \A k \in 1..Len(inbox') : inbox'[k] = inbox[k + 1]
  BY MessageTaken
<1>2. client' = client
  BY DEF Receive
<1>3. \A k \in 1..Len(inbox') : k \in Int /\ k + 1 \in 1..Len(inbox) /\ k + 1 # 1
  BY <1>1
<1>4. 1 \in 1..Len(inbox)
  BY <1>1
<1>5. /\ \A k \in 1..Len(inbox) : inbox[k].type = "on_file_ready" =>
           /\ inbox[k].size = TotalSize
           /\ client \in {"resolved", "listening"} /\ cursor.total_size < 0
      /\ \A j, k \in 1..Len(inbox) :
           inbox[j].type = "on_file_ready" /\ inbox[k].type = "on_file_ready" => j = k
      /\ client \notin {"resolved", "listening"} => cursor.total_size < 0
  BY <1>1 DEF IInv, Inbox
<1>6. CASE type = "on_file_ready"
  <2>1. \A k \in 1..Len(inbox') : inbox'[k].type # "on_file_ready"
    BY <1>1, <1>3, <1>4, <1>5, <1>6
  <2>2. client' \in {"resolved", "listening"}
    BY <1>1, <1>2, <1>4, <1>5, <1>6
  <2>3. QED  BY <1>1, <2>1, <2>2 DEF Inbox
<1>7. CASE ~stream'.finished => cursor'.total_size = cursor.total_size
  <2>1. \A j, k \in 1..Len(inbox') :
          inbox'[j].type = "on_file_ready" /\ inbox'[k].type = "on_file_ready" => j = k
    <3>1. ASSUME NEW j \in 1..Len(inbox'), NEW k \in 1..Len(inbox'),
                 inbox'[j].type = "on_file_ready", inbox'[k].type = "on_file_ready"
          PROVE  j = k
      <4>1. j + 1 = k + 1
        BY <1>1, <1>3, <1>5, <3>1
      <4>2. QED  BY <4>1, <1>3
    <3>2. QED  BY <3>1
  <2>2. \A k \in 1..Len(inbox') : inbox'[k].type = "on_file_ready" =>
           /\ inbox'[k].size = TotalSize
           /\ client' \in {"resolved", "listening"} /\ cursor.total_size < 0
    BY <1>1, <1>2, <1>3, <1>5
  <2>3. QED  BY <1>1, <1>2, <1>5, <1>7, <2>1, <2>2 DEF Inbox
<1>8. QED  BY <1>6, <1>7

LEMMA SentInbox ==
  ASSUME IInv, ~stream.finished, NEW m \in Messages, inbox' = Append(inbox, m),
         UNCHANGED <<stream, cursor>>,
         m.type = "on_file_ready" =>
           /\ m.size = TotalSize
           /\ client \notin {"resolved", "listening"} /\ client' \in {"resolved", "listening"},
         client \in {"resolved", "listening"} => client' \in {"resolved", "listening"}
  PROVE  Inbox'
<1>1. inbox \in Seq(Messages) /\ Len(inbox) \in Nat
  BY DEF IInv, Inbox
<1>2. /\ inbox' \in Seq(Messages) /\ Len(inbox') = Len(inbox) + 1
      /\ \A k \in 1..Len(inbox) : inbox'[k] = inbox[k] /\ inbox'[Len(inbox) + 1] = m
  BY <1>1, AppendProperties
<1>3. inbox'[Len(inbox) + 1] = m
  BY <1>1, AppendProperties
<1>4. \A k \in 1..Len(inbox') : k \in 1..Len(inbox) \/ k = Len(inbox) + 1
  BY <1>1, <1>2
<1>5. /\ \A k \in 1..Len(inbox) : inbox[k].type = "on_file_ready" =>
           /\ inbox[k].size = TotalSize
           /\ client \in {"resolved", "listening"} /\ cursor.total_size < 0
      /\ \A j, k \in 1..Len(inbox) :
           inbox[j].type = "on_file_ready" /\ inbox[k].type = "on_file_ready" => j = k
      /\ client \notin {"resolved", "listening"} => cursor.total_size < 0
  BY DEF IInv, Inbox
<1>6. \A k \in 1..Len(inbox') : inbox'[k].type = "on_file_ready" =>
         /\ inbox'[k].size = TotalSize
         /\ client' \in {"resolved", "listening"} /\ cursor.total_size < 0
  BY <1>2, <1>3, <1>4, <1>5
<1>7. \A j, k \in 1..Len(inbox') :
        inbox'[j].type = "on_file_ready" /\ inbox'[k].type = "on_file_ready" => j = k
  BY <1>2, <1>3, <1>4, <1>5
<1>8. QED  BY <1>2, <1>5, <1>6, <1>7 DEF Inbox

LEMMA SameEnvironment ==
  ASSUME Environment, UNCHANGED <<request, client, td, disk>>
  PROVE  Environment'
  BY DEF Environment, HasFile

LEMMA SameInbox ==
  ASSUME Inbox, UNCHANGED <<inbox, client>>,
         ~stream'.finished => ~stream.finished /\ cursor'.total_size = cursor.total_size
  PROVE  Inbox'
  BY DEF Inbox

(* Reports and commits keep the size. *)
LEMMA SizeKept ==
  ASSUME NEW c \in Cursor, NEW prefix \in 0..TotalSize, NEW completed \in BOOLEAN,
         NEW offset, NEW size
  PROVE  /\ update_progress(c, 0, prefix, completed).total_size = c.total_size
         /\ commit(c, offset, size).total_size = c.total_size
  BY DEF update_progress, commit, Cursor

LEMMA HandlersKeepInbox ==
  ASSUME IInv, FileHandlers \/ WriteHandlers \/ Timeout
  PROVE  Inbox' /\ Environment'
<1>1. cursor \in Cursor /\ Environment /\ Inbox
  BY DEF IInv, Good, ActorTypes
<1>2. CASE set_client
  <2>1. Receive("set_client") /\ cursor' = cursor
    BY <1>2, CursorLeft DEF set_client, Return
  <2>2. Inbox'
    BY <2>1, TakenInbox
  <2>3. QED  BY <1>1, <2>1, <2>2, SameEnvironment DEF Receive
<1>3. CASE on_file_ready
  <2>1. Receive("on_file_ready")
    BY <1>3 DEF on_file_ready
  <2>2. Inbox'
    BY <2>1, TakenInbox
  <2>3. QED  BY <1>1, <2>1, <2>2, SameEnvironment DEF Receive
<1>4. CASE on_file_progress
  <2> DEFINE m == Head(inbox)
             c == update_progress(cursor, 0, m.prefix, m.completed)
  <2>1. Receive("on_file_progress")
    BY <1>4 DEF on_file_progress
  <2>2. m.prefix \in 0..TotalSize /\ m.completed \in BOOLEAN
    BY <2>1, MessageTaken DEF Messages
  <2>3. c.total_size = cursor.total_size
    BY <1>1, <2>2, SizeKept
  <2> HIDE DEF m, c
  <2>4. cursor' \in {cursor, c}
    BY <1>4, CursorLeft DEF on_file_progress, m, c
  <2>5. Inbox'
    BY <2>1, <2>3, <2>4, TakenInbox
  <2>6. QED  BY <1>1, <2>1, <2>5, SameEnvironment DEF Receive
<1>5. CASE on_file_error
  <2>1. Receive("on_file_error") /\ cursor' = cursor
    BY <1>5, CursorLeft DEF on_file_error
  <2>2. Inbox'
    BY <2>1, TakenInbox
  <2>3. QED  BY <1>1, <2>1, <2>2, SameEnvironment DEF Receive
<1>6. CASE Timeout
  <2>1. ~stream.finished /\ cursor' = cursor /\ UNCHANGED <<request, inbox, client, td, disk>>
    BY <1>6, CursorLeft DEF Timeout, timeout_expired
  <2>2. QED  BY <1>1, <2>1, SameInbox, SameEnvironment
<1>7. CASE on_headers_flushed
  <2>1. ~stream.finished /\ UNCHANGED <<request, inbox, client, td, disk>>
    BY <1>7 DEF on_headers_flushed, Settle
  <2>2. cursor' = cursor
    BY <1>7, CursorLeft DEF on_headers_flushed
  <2>3. QED  BY <1>1, <2>1, <2>2, SameInbox, SameEnvironment
<1>8. CASE on_chunk_flushed
  <2> DEFINE c == commit(cursor, stream.pending_offset, stream.pending_size)
  <2>1. ~stream.finished /\ UNCHANGED <<request, inbox, client, td, disk>>
    BY <1>8 DEF on_chunk_flushed, Settle
  <2>2. c.total_size = cursor.total_size
    BY <1>1 DEF commit, Cursor
  <2> HIDE DEF c
  <2>3. cursor' \in {cursor, c}
    BY <1>8, CursorLeft DEF on_chunk_flushed, c
  <2>4. QED  BY <1>1, <2>1, <2>2, <2>3, SameInbox, SameEnvironment
<1>9. QED
  BY <1>2, <1>3, <1>4, <1>5, <1>6, <1>7, <1>8 DEF FileHandlers, WriteHandlers

(* ClientManager, Client and TDLib. *)
LEMMA PlainMessages ==
  ASSUME NEW type \in {"set_client", "on_file_error"}, NEW code \in {0, 400, 429}
  PROVE  PlainMessage(type, code) \in Messages /\ PlainMessage(type, code).type = type
<1>1. NoPath \in Paths /\ 0 \in 0..TotalSize /\ code \in 0..599
  BY SizeAssumption DEF Paths
<1>2. QED  BY <1>1 DEF PlainMessage, Messages

LEMMA FileMessages ==
  ASSUME Environment
  PROVE  /\ FileMessage("on_file_ready", TotalSize) \in Messages
         /\ FileMessage("on_file_ready", TotalSize).type = "on_file_ready"
         /\ FileMessage("on_file_ready", TotalSize).size = TotalSize
<1>1. TotalSize \in Nat /\ 0 \in 0..TotalSize /\ 0 \in 0..599 /\ NoPath \in Paths
  BY SizeAssumption DEF Paths
<1>2. HasFile => disk[td.gen].have \in 0..TotalSize /\ td.gen \in 1..Generations
  BY EnvironmentAssumption DEF Environment, HasFile
<1>3. LocalPath \in Paths /\ Prefix \in 0..TotalSize
  <2>1. HasFile => [gen |-> td.gen, place |-> disk[td.gen].place] \in Paths
    BY <1>2 DEF HasFile, Paths
  <2>2. QED  BY <1>1, <1>2, <2>1 DEF LocalPath, Prefix
<1>4. Completed \in BOOLEAN /\ td.active \in BOOLEAN
  BY DEF Environment, Completed, HasFile
<1>5. QED  BY <1>1, <1>3, <1>4 DEF FileMessage, Messages

LEMMA ReportMessages ==
  ASSUME Environment', NEW size \in Nat
  PROVE  /\ FileMessage("on_file_progress", size)' \in Messages
         /\ FileMessage("on_file_progress", size)'.type = "on_file_progress"
<1>1. 0 \in 0..TotalSize /\ 0 \in 0..599 /\ NoPath \in Paths
  BY SizeAssumption DEF Paths
<1>2. HasFile' => disk'[td'.gen].have \in 0..TotalSize /\ td'.gen \in 1..Generations
  BY EnvironmentAssumption DEF Environment, HasFile
<1>3. LocalPath' \in Paths /\ Prefix' \in 0..TotalSize
  <2>1. HasFile' => [gen |-> td'.gen, place |-> disk'[td'.gen].place] \in Paths
    BY <1>2 DEF HasFile, Paths
  <2>2. QED  BY <1>1, <1>2, <2>1 DEF LocalPath, Prefix
<1>4. Completed' \in BOOLEAN /\ td'.active \in BOOLEAN
  BY DEF Environment, Completed, HasFile
<1>5. QED  BY <1>1, <1>3, <1>4 DEF FileMessage, Messages

LEMMA ReportKeepsInbox ==
  ASSUME IInv, ~stream.finished, Report, Environment',
         client' = client \/ (client = "resolved" /\ client' = "listening")
  PROVE  Inbox'
<1>1. UNCHANGED <<stream, cursor>>
  BY DEF Report
<1>2. CASE client \in {"resolved", "listening"}
  <2>1. ReportedSizes \subseteq Nat
    BY SizeAssumption DEF ReportedSizes
  <2>2. PICK size \in Nat : inbox' = Append(inbox, FileMessage("on_file_progress", size)')
    BY <1>2, <2>1 DEF Report
  <2>3. PICK m \in Messages : m = FileMessage("on_file_progress", size)'
    BY ReportMessages
  <2>4. m.type = "on_file_progress" /\ inbox' = Append(inbox, m)
    BY <2>2, <2>3, ReportMessages
  <2>5. QED  BY <1>1, <1>2, <2>4, SentInbox
<1>3. CASE client \notin {"resolved", "listening"}
  <2>1. inbox' = inbox /\ client' = client
    BY <1>3 DEF Report
  <2>2. QED  BY <1>1, <2>1, SameInbox DEF IInv
<1>4. QED  BY <1>2, <1>3

LEMMA DiskKept ==
  ASSUME Environment, NEW g \in 1..Generations,
         NEW x \in [place : {"none", "temp", "final", "lost"}, have : 0..TotalSize],
         disk' = [disk EXCEPT ![g] = x]
  PROVE  /\ disk' \in [1..Generations ->
                         [place : {"none", "temp", "final", "lost"}, have : 0..TotalSize]]
         /\ disk'[g] = x
  BY DEF Environment

LEMMA TdKeepsEnvironment ==
  ASSUME IInv, TDLib
  PROVE  Environment'
<1>1. Environment /\ td \in [gen : 0..Generations, active : BOOLEAN] /\ Generations \in Nat \ {0}
  BY EnvironmentAssumption DEF IInv, Environment
<1>2. request' = request
  BY DEF TDLib, TdStart, TdProgress, TdComplete, TdStop, TdDelete, TdRestart, Report
<1>3. HasFile => /\ td.gen \in 1..Generations /\ disk[td.gen].have \in 0..TotalSize
                 /\ disk[td.gen].place \in {"temp", "final"}
                 /\ disk[td.gen] \in [place : {"none", "temp", "final", "lost"}, have : 0..TotalSize]
  BY <1>1 DEF Environment, HasFile
<1>4. 0 \in 0..TotalSize
  BY SizeAssumption
<1>5. client' \in {"new", "refused", "admitted", "resolved", "listening"}
  BY <1>1 DEF Environment, TDLib, TdStart, TdProgress, TdComplete, TdStop, TdDelete, TdRestart
<1>6. ASSUME ~HasFile, td.gen < Generations, td' = [gen |-> td.gen + 1, active |-> TRUE],
             disk' = [disk EXCEPT ![td.gen + 1] = [place |-> "temp", have |-> 0]]
      PROVE  Environment'
  <2>1. td.gen + 1 \in 1..Generations /\ td.gen + 1 > 0
    BY <1>1, <1>6
  <2>2. td' \in [gen : 0..Generations, active : BOOLEAN] /\ td'.gen = td.gen + 1
    BY <1>1, <1>6, <2>1
  <2>3. /\ disk' \in [1..Generations ->
                        [place : {"none", "temp", "final", "lost"}, have : 0..TotalSize]]
        /\ disk'[td.gen + 1].place = "temp"
    <3>1. PICK g \in 1..Generations : g = td.gen + 1
      BY <2>1
    <3>2. PICK x \in [place : {"none", "temp", "final", "lost"}, have : 0..TotalSize] :
            x = [place |-> "temp", have |-> 0]
      BY <1>4
    <3>3. disk' = [disk EXCEPT ![g] = x]
      BY <1>6, <3>1, <3>2
    <3>4. QED  BY <1>1, <3>1, <3>2, <3>3, DiskKept
  <2>4. HasFile'
    BY <2>1, <2>2, <2>3 DEF HasFile
  <2>5. QED  BY <1>1, <1>2, <1>5, <2>2, <2>3, <2>4 DEF Environment
<1>7. CASE TdStart
  <2>1. CASE UNCHANGED <<td, disk>>
    BY <1>1, <1>2, <1>5, <2>1 DEF Environment, HasFile
  <2>2. CASE HasFile /\ td' = [td EXCEPT !.active = TRUE] /\ UNCHANGED disk
    <3>1. td' \in [gen : 0..Generations, active : BOOLEAN] /\ td'.gen = td.gen
      BY <1>1, <2>2
    <3>2. QED  BY <1>1, <1>2, <1>5, <2>2, <3>1 DEF Environment, HasFile
  <2>3. QED  BY <1>6, <1>7, <2>1, <2>2 DEF TdStart
<1>8. CASE TdRestart
  <2>1. td.gen < Generations
    BY <1>1, <1>8 DEF TdRestart
  <2>2. QED  BY <1>6, <1>8, <2>1 DEF TdRestart
<1>9. CASE TdStop
  <2>1. td' \in [gen : 0..Generations, active : BOOLEAN] /\ ~td'.active /\ disk' = disk
    BY <1>1, <1>9 DEF TdStop
  <2>2. QED  BY <1>1, <1>2, <1>5, <2>1 DEF Environment
<1>10. CASE TdProgress
  <2>1. HasFile /\ Prefix = disk[td.gen].have
    BY <1>1, <1>10 DEF TdProgress, Environment, Prefix
  <2>2. PICK k \in (Prefix + 1)..TotalSize : disk' = [disk EXCEPT ![td.gen].have = k]
    BY <1>10 DEF TdProgress
  <2>3. k \in 0..TotalSize
    BY <1>3, <2>1, SizeAssumption
  <2>4. /\ disk' \in [1..Generations ->
                        [place : {"none", "temp", "final", "lost"}, have : 0..TotalSize]]
        /\ disk'[td.gen].place = disk[td.gen].place
    <3>1. PICK g \in 1..Generations : g = td.gen
      BY <1>3, <2>1
    <3>2. PICK x \in [place : {"none", "temp", "final", "lost"}, have : 0..TotalSize] :
            x = [disk[g] EXCEPT !.have = k]
      BY <1>3, <2>1, <2>3, <3>1
    <3>3. disk' = [disk EXCEPT ![g] = x] /\ x.place = disk[g].place
      BY <1>3, <2>1, <2>2, <3>1, <3>2
    <3>4. QED  BY <1>1, <3>1, <3>3, DiskKept
  <2>5. td' = td
    BY <1>10 DEF TdProgress
  <2>6. QED  BY <1>1, <1>2, <1>5, <2>1, <2>4, <2>5 DEF Environment, HasFile
<1>11. ASSUME HasFile, NEW place \in {"final", "lost"}, td' = [td EXCEPT !.active = FALSE],
              disk' = [disk EXCEPT ![td.gen].place = place]
       PROVE  Environment'
  <2>1. td' \in [gen : 0..Generations, active : BOOLEAN] /\ ~td'.active
    BY <1>1, <1>11
  <2>2. disk' \in [1..Generations ->
                     [place : {"none", "temp", "final", "lost"}, have : 0..TotalSize]]
    <3>1. PICK g \in 1..Generations : g = td.gen
      BY <1>3, <1>11
    <3>2. PICK x \in [place : {"none", "temp", "final", "lost"}, have : 0..TotalSize] :
            x = [disk[g] EXCEPT !.place = place]
      BY <1>3, <1>11, <3>1
    <3>3. disk' = [disk EXCEPT ![g] = x]
      BY <1>3, <1>11, <3>1, <3>2
    <3>4. QED  BY <1>1, <3>1, <3>3, DiskKept
  <2>3. QED  BY <1>1, <1>2, <1>5, <2>1, <2>2 DEF Environment
<1>12. CASE TdComplete
  <2>1. HasFile
    BY <1>1, <1>12 DEF TdComplete, Environment
  <2>2. QED  BY <1>11, <1>12, <2>1 DEF TdComplete
<1>13. CASE TdDelete
  BY <1>11, <1>13 DEF TdDelete
<1>14. QED
  BY <1>7, <1>8, <1>9, <1>10, <1>12, <1>13 DEF TDLib

LEMMA TdKeepsInbox ==
  ASSUME IInv, TDLib
  PROVE  Inbox'
<1>1. Environment'
  BY TdKeepsEnvironment
<1>2. /\ ~stream.finished /\ Report
      /\ client' = client \/ (client = "resolved" /\ client' = "listening")
  BY DEF TDLib, TdStart, TdProgress, TdComplete, TdStop, TdDelete, TdRestart, Env
<1>3. QED  BY <1>1, <1>2, ReportKeepsInbox

LEMMA ManagerKeepsInbox ==
  ASSUME IInv, Manager
  PROVE  Inbox' /\ Environment'
<1>1. /\ ~stream.finished /\ UNCHANGED <<stream, cursor, request, td, disk>>
      /\ client \in {"new", "admitted"} /\ client' \in {"refused", "admitted", "resolved"}
  BY DEF Manager, Refuse, Admit, Resolve, ResolveError, Env
<1>2. Environment'
  BY <1>1 DEF IInv, Environment, HasFile
<1>3. CASE Resolve
  <2>1. PICK m \in Messages : m = FileMessage("on_file_ready", TotalSize)
    BY FileMessages DEF IInv
  <2>2. m.type = "on_file_ready" /\ m.size = TotalSize
    BY <2>1, FileMessages DEF IInv
  <2>3. inbox' = Append(inbox, m) /\ client' = "resolved"
    BY <1>3, <2>1 DEF Resolve
  <2>4. QED  BY <1>1, <1>2, <2>2, <2>3, SentInbox
<1>4. CASE Refuse \/ Admit \/ ResolveError
  <2>1. PICK m \in Messages : inbox' = Append(inbox, m) /\ m.type # "on_file_ready"
    <3>1. PICK type \in {"set_client", "on_file_error"}, code \in {0, 400, 429} :
            inbox' = Append(inbox, PlainMessage(type, code))
      BY <1>4 DEF Refuse, Admit, ResolveError
    <3>2. QED  BY <3>1, PlainMessages
  <2>2. QED  BY <1>1, <1>2, <2>1, SentInbox
<1>5. QED  BY <1>3, <1>4 DEF Manager

-------------------------------------------------------------------------------
(* The invariant. *)
LEMMA InitIInv ==
  ASSUME Init
  PROVE  IInv
<1>1. Good(stream, cursor, http, flushed, wire)
  <2>1. ActorTypes(stream, cursor, http, flushed, wire)
    <3>1. stream \in Streams
      <4>1. NoPath \in Paths /\ 0 \in 0..Generations /\ -1 \in Int /\ 0 \in Int /\ 0 \in 0..1
        BY EnvironmentAssumption DEF Paths
      <4>2. QED  BY <4>1 DEF Init, StreamInit, Streams
    <3>2. cursor \in Cursor
      BY DEF Init, FreshCursor, Cursor
    <3>3. http \in Https
      BY DEF Init, Https
    <3>4. flushed \in Seq(Promises) /\ wire \in Wires
      BY DEF Init, Wires
    <3>5. QED  BY <3>1, <3>2, <3>3, <3>4 DEF ActorTypes
  <2>2. Waiting(stream, cursor, http, flushed, wire) /\ ~stream.finished
    BY DEF Init, StreamInit, Waiting
  <2>3. QED  BY <2>1, <2>2 DEF Good
<1>2. Inbox
  <2>1. cursor.total_size < 0
    BY DEF Init, FreshCursor
  <2>2. inbox \in Seq(Messages) /\ Len(inbox) = 0
    BY DEF Init
  <2>3. QED  BY <2>1, <2>2 DEF Inbox
<1>3. Environment
  <2>1. /\ 0 \in 0..TotalSize /\ TotalSize \in 0..TotalSize /\ 0 \in 0..Generations
        /\ 1 \in 0..Generations /\ 1 \in 1..Generations
    BY SizeAssumption, EnvironmentAssumption
  <2>2. /\ td \in [gen : 0..Generations, active : BOOLEAN]
        /\ disk \in [1..Generations ->
                       [place : {"none", "temp", "final", "lost"}, have : 0..TotalSize]]
        /\ td.active => HasFile
    <3>1. CASE td = [gen |-> 0, active |-> FALSE] /\ disk = [g \in 1..Generations |-> NoFile]
      BY <2>1, <3>1 DEF NoFile
    <3>2. ASSUME NEW a \in BOOLEAN, NEW k \in 0..TotalSize, NEW place \in {"temp", "final"},
                 td = [gen |-> 1, active |-> a],
                 disk = [g \in 1..Generations |->
                           IF g = 1 THEN [place |-> place, have |-> k] ELSE NoFile]
          PROVE  /\ td \in [gen : 0..Generations, active : BOOLEAN]
                 /\ disk \in [1..Generations ->
                       [place : {"none", "temp", "final", "lost"}, have : 0..TotalSize]]
                 /\ HasFile
      <4>1. [place |-> place, have |-> k]
              \in [place : {"none", "temp", "final", "lost"}, have : 0..TotalSize]
        OBVIOUS
      <4>2. NoFile \in [place : {"none", "temp", "final", "lost"}, have : 0..TotalSize]
        BY <2>1 DEF NoFile
      <4>3. disk[1] = [place |-> place, have |-> k] /\ td.gen = 1
        BY <2>1, <3>2
      <4>4. QED  BY <2>1, <3>2, <4>1, <4>2, <4>3 DEF HasFile
    <3>3. QED  BY <2>1, <3>1, <3>2 DEF Init, TdInit
  <2>3. QED  BY <2>2 DEF Init, Environment
<1>4. QED  BY <1>1, <1>2, <1>3 DEF IInv

LEMMA GoodNext ==
  ASSUME Good(stream', cursor', http', flushed', wire'), request' = request
  PROVE  Good(stream, cursor, http, flushed, wire)'
<1>1. ActorTypes(stream', cursor', http', flushed', wire')
  BY DEF Good
<1>2. RangeSet(cursor') <=> RangeSet(cursor)'
  BY DEF RangeSet, Wanted
<1>3. CASE stream'.finished
  <2>1. Ended(cursor', http', wire')
    BY <1>3 DEF Good
  <2>2. Ended(cursor, http, wire)'
    BY <1>2, <2>1 DEF Ended, Fits, Length, Committed
  <2>3. QED  BY <1>1, <1>3, <2>2 DEF Good, ActorTypes
<1>4. CASE ~stream'.finished
  <2>1. Waiting(stream', cursor', http', flushed', wire')
        \/ Streaming(stream', cursor', http', flushed', wire')
    BY <1>4 DEF Good
  <2>2. Waiting(stream', cursor', http', flushed', wire')
        => Waiting(stream, cursor, http, flushed, wire)'
    BY DEF Waiting
  <2>3. Streaming(stream', cursor', http', flushed', wire')
        => Streaming(stream, cursor, http, flushed, wire)'
    BY <1>2 DEF Streaming, NothingQueued, HeadersQueued, ChunkQueued, BothQueued,
                InFlight, CommitOK, Committed
  <2>4. QED  BY <1>1, <1>4, <2>1, <2>2, <2>3 DEF Good, ActorTypes
<1>5. QED  BY <1>3, <1>4

LEMMA NextIInv ==
  ASSUME IInv, [Next]_vars
  PROVE  IInv'
<1>1. CASE FileHandlers \/ WriteHandlers \/ Timeout
  <2>1. wire' = wire /\ request' = request
    BY <1>1 DEF FileHandlers, WriteHandlers, Timeout, timeout_expired, set_client, on_file_ready,
                on_file_progress, on_file_error, on_headers_flushed, on_chunk_flushed,
                Receive, Settle
  <2>2. Good(stream', cursor', http', flushed', wire)
    <3>1. on_file_error => Good(stream', cursor', http', flushed', wire)
      BY FailKeeps DEF on_file_error, Receive
    <3>2. Timeout => Good(stream', cursor', http', flushed', wire)
      BY FailKeeps DEF Timeout, timeout_expired
    <3>3. QED
      BY <1>1, <3>1, <3>2, SetClientKeeps, FileReadyKeeps, FileProgressKeeps,
         HeadersFlushedKeeps, ChunkFlushedKeeps DEF FileHandlers, WriteHandlers
  <2>3. Inbox' /\ Environment'
    BY <1>1, HandlersKeepInbox
  <2>4. QED  BY <2>1, <2>2, <2>3, GoodNext DEF IInv
<1>2. CASE Connection
  <2>1. UNCHANGED <<request, stream, cursor, inbox, client, td, disk>>
    BY <1>2 DEF Connection, Flush, Disconnect, CloseConnection
  <2>2. Good(stream, cursor, http', flushed', wire')
    <3>1. Disconnect \/ CloseConnection => wire' = wire
      BY DEF Disconnect, CloseConnection
    <3>2. QED
      BY <1>2, <3>1, FlushKeeps, DisconnectKeeps, CloseConnectionKeeps DEF Connection
  <2>3. Inbox' /\ Environment'
    BY <2>1, SameInbox, SameEnvironment DEF IInv
  <2>4. QED  BY <2>1, <2>2, <2>3, GoodNext DEF IInv
<1>3. CASE Manager \/ TDLib \/ UNCHANGED vars
  <2>1. UNCHANGED <<request, stream, cursor, http, flushed, wire>>
    BY <1>3 DEF Manager, Refuse, Admit, Resolve, ResolveError, TDLib, TdStart, TdProgress,
                TdComplete, TdStop, TdDelete, TdRestart, Report, vars
  <2>2. Inbox' /\ Environment'
    BY <1>3, ManagerKeepsInbox, TdKeepsInbox, TdKeepsEnvironment, SameInbox, SameEnvironment
    DEF IInv, vars
  <2>3. QED  BY <2>1, <2>2, GoodNext DEF IInv
<1>4. QED  BY <1>1, <1>2, <1>3 DEF Next

LEMMA AlwaysIInv == Spec => []IInv
  BY InitIInv, NextIInv, PTL DEF Spec

LEMMA IInvConsistent ==
  ASSUME IInv
  PROVE  Consistent
<1>1. ActorTypes(stream, cursor, http, flushed, wire) /\ cursor \in Cursor /\ wire.body \in Nat
  BY DEF IInv, Good, ActorTypes, Wires
<1>2. TypeOK
  BY <1>1 DEF IInv, ActorTypes, Inbox, Environment, TypeOK, Https, Wires
<1>3. ~stream.finished =>
        \/ Waiting(stream, cursor, http, flushed, wire)
        \/ Streaming(stream, cursor, http, flushed, wire) /\ Stoppable(cursor, http, wire)
  BY <1>1, StreamingStops DEF IInv, Good
<1>4. CommittedAreReceived
  <2>1. stream.finished => CommittedAreReceived
    BY DEF IInv, Good, Ended, Committed, CommittedAreReceived
  <2>2. Waiting(stream, cursor, http, flushed, wire) => CommittedAreReceived
    BY DEF Waiting, FreshCursor, CommittedAreReceived
  <2>3. Stoppable(cursor, http, wire) => CommittedAreReceived
    BY DEF Stoppable, Committed, CommittedAreReceived
  <2>4. QED  BY <1>3, <2>1, <2>2, <2>3
<1>5. ASSUME NEW j \in 1..Len(http.queue), NEW k \in 1..Len(http.queue),
             http.queue[j].kind = "data", http.queue[k].kind = "data"
      PROVE  j = k
  <2>1. \/ http.queue = <<>>
        \/ \E x : http.queue = <<x>>
        \/ \E x : http.queue = <<Headers, x>>
    BY <1>3 DEF IInv, Good, Ended, Waiting, Stoppable
  <2>2. CASE http.queue = <<>>
    BY <2>2
  <2>3. ASSUME NEW x, http.queue = <<x>> PROVE j = k
    BY <2>3
  <2>4. ASSUME NEW x, http.queue = <<Headers, x>> PROVE j = k
    <3>1. Len(http.queue) = 2 /\ http.queue[1] = Headers
      BY <2>4, TwoElements
    <3>2. http.queue[1].kind # "data"
      BY <3>1 DEF Headers
    <3>3. j \in 1..2 /\ k \in 1..2 /\ j # 1 /\ k # 1
      BY <1>5, <3>1, <3>2
    <3>4. QED  BY <3>3
  <2>5. QED  BY <2>1, <2>2, <2>3, <2>4
<1>6. stream.write_in_flight /\ ~stream.finished =>
        CommitOK(cursor, stream.pending_offset, stream.pending_size)
  BY <1>3 DEF Waiting, Streaming
<1>7. QED  BY <1>2, <1>4, <1>5, <1>6 DEF Consistent, OneChunkInFlight

(* The bookkeeping of a stream is always exact: every byte counted as sent *)
(* has been received by the client, at most one chunk waits in the         *)
(* connection, and the commit after its flush never fails (try_read,       *)
(* on_chunk_flushed and FileStreamCursor::commit).                         *)
THEOREM StreamAlwaysConsistent == Spec => []Consistent
  BY AlwaysIInv, IInvConsistent, PTL

-------------------------------------------------------------------------------
(* The bytes of the file. *)
LEMMA EndsFile ==
  ASSUME NEW s \in Streams, NEW c, NEW h \in Https, NEW f, Intact(h), ReadsFirst(s, c),
         Return(s, c, h, f) \/ abort(s, c, h, f) \/ fail(s, c, h, f) \/ finish(s, c, h, f)
  PROVE  ReadsFirst(stream', cursor') /\ Intact(http')
<1>1. h.queue \in Seq(Items)
  BY HttpTypes
<1>2. ASSUME NEW r \in {s, Stop(s), [Stop(s) EXCEPT !.completed_ok = TRUE]}
      PROVE  ReadsFirst(r, c)
  <2>1. r.local_path = s.local_path /\ r.local_file \in {0, s.local_file}
    <3>1. Stop(s).local_path = s.local_path /\ Stop(s).local_file = 0 /\ Stop(s) \in Streams
      BY StopTypes DEF Stop, Streams
    <3>2. LET e == [Stop(s) EXCEPT !.completed_ok = TRUE]
          IN  e.local_path = s.local_path /\ e.local_file = 0
      BY <3>1 DEF Streams
    <3>3. QED  BY <3>1, <3>2
  <2>2. QED  BY <2>1 DEF ReadsFirst
<1>3. ASSUME NEW x \in {"Read", "Close"}
      PROVE  Intact([h EXCEPT !.state = x])
  BY HttpTypes DEF Intact
<1>4. Intact([state |-> "Read", queue |-> Append(h.queue, ErrorBody)])
  <2>1. ErrorBody \in Items /\ ErrorBody.intact
    BY DEF ErrorBody, Items
  <2>2. /\ Len(Append(h.queue, ErrorBody)) = Len(h.queue) + 1
        /\ \A k \in 1..Len(h.queue) : Append(h.queue, ErrorBody)[k] = h.queue[k]
        /\ Append(h.queue, ErrorBody)[Len(h.queue) + 1] = ErrorBody
        /\ Len(h.queue) \in Nat
    BY <1>1, <2>1, AppendProperties
  <2>3. \A k \in 1..(Len(h.queue) + 1) : k \in 1..Len(h.queue) \/ k = Len(h.queue) + 1
    BY <2>2
  <2>4. QED  BY <2>1, <2>2, <2>3 DEF Intact
<1>5. /\ stream' \in {s, Stop(s), [Stop(s) EXCEPT !.completed_ok = TRUE]} /\ cursor' = c
      /\ \/ http' = h \/ http' = [h EXCEPT !.state = "Read"] \/ http' = [h EXCEPT !.state = "Close"]
         \/ http' = [state |-> "Read", queue |-> Append(h.queue, ErrorBody)]
  <2>1. fail(s, c, h, f) => abort(s, c, h, f) \/
          /\ stream' = Stop(s) /\ cursor' = c
          /\ http' = h \/ http' = [state |-> "Read", queue |-> Append(h.queue, ErrorBody)]
    BY DEF fail, Return
  <2>2. abort(s, c, h, f) => /\ stream' = Stop(s) /\ cursor' = c
                             /\ http' = h \/ http' = [h EXCEPT !.state = "Close"]
    BY DEF abort, Return
  <2>3. finish(s, c, h, f) => /\ stream' = [Stop(s) EXCEPT !.completed_ok = TRUE] /\ cursor' = c
                              /\ http' = h \/ http' = [h EXCEPT !.state = "Read"]
    BY DEF finish, Return
  <2>4. Return(s, c, h, f) => stream' = s /\ cursor' = c /\ http' = h
    BY DEF Return
  <2>5. QED  BY <2>1, <2>2, <2>3, <2>4
<1>6. QED  BY <1>2, <1>3, <1>4, <1>5

(* What next_read_size allows lies in the prefix that the file has. *)
LEMMA TryReadFile ==
  ASSUME Environment, NEW s \in Streams, NEW c \in Cursor, NEW h \in Https, NEW f,
         Intact(h), ReadsFirst(s, c), try_read(s, c, h, f)
  PROVE  ReadsFirst(stream', cursor') /\ Intact(http')
<1> DEFINE size == next_read_size(c, ChunkSize)
           g    == IF s.local_file # 0 THEN s.local_file ELSE s.local_path.gen
<1>1. ASSUME NEW r \in {s, [s EXCEPT !.local_file = 0]}, ReadFailed(s, c, h, f, r)
      PROVE  ReadsFirst(stream', cursor') /\ Intact(http')
  <2>1. 0 \in 0..Generations
    BY EnvironmentAssumption
  <2>2. r \in Streams /\ ReadsFirst(r, c)
    BY <1>1, <2>1 DEF Streams, ReadsFirst
  <2>3. QED  BY <1>1, <2>2, EndsFile DEF ReadFailed
<1>2. ASSUME size > 0, s.local_path # NoPath, ReadChunk(s, c, h, f, size)
      PROVE  ReadsFirst(stream', cursor') /\ Intact(http')
  <2>1. size \in Nat /\ CommitOK(c, c.next_offset, size)
    BY <1>2, ReadSizeFits
  <2>2. g = 1 /\ 1 \in 1..Generations
    <3>1. s.local_path \in Paths /\ s.local_file \in 0..Generations
      BY DEF Streams
    <3>2. s.local_path.gen \in 1..Generations
      BY <1>2, <3>1 DEF Paths
    <3>3. QED  BY <3>1, <3>2, EnvironmentAssumption DEF ReadsFirst
  <2>3. c.next_offset \in Int /\ c.contiguous_end \in Int
    BY CursorInts
  <2>4. InPrefix(g, c.next_offset, size)
    <3>1. disk[1].have \in Int
      BY <2>2 DEF Environment
    <3> HIDE DEF size
    <3>2. c.next_offset + size <= disk[1].have
      BY <2>1, <2>3, <3>1 DEF CommitOK, ReadsFirst
    <3>3. QED  BY <2>2, <3>2 DEF InPrefix
  <2> HIDE DEF size, g
  <2>5. ASSUME Return([s EXCEPT !.local_file = g, !.write_in_flight = TRUE,
                                !.pending_offset = c.next_offset, !.pending_size = size],
                      c, write_next_with_promise(h, Chunk(c.next_offset, size, TRUE)),
                      Promised(h, f, "data"))
        PROVE  ReadsFirst(stream', cursor') /\ Intact(http')
    <3> DEFINE r == [s EXCEPT !.local_file = g, !.write_in_flight = TRUE,
                              !.pending_offset = c.next_offset, !.pending_size = size]
               x == Chunk(c.next_offset, size, TRUE)
    <3>1. r.local_path = s.local_path /\ r.local_file = 1
      BY <2>2 DEF Streams
    <3>2. x.intact
      BY DEF Chunk
    <3> HIDE DEF r, x
    <3>3. stream' = r /\ cursor' = c /\ http' = write_next_with_promise(h, x)
      BY <2>5 DEF Return, r, x
    <3>4. ReadsFirst(stream', cursor')
      BY <3>1, <3>3 DEF ReadsFirst
    <3>5. h.queue \in Seq(Items \cup {x})
      <4>1. h.queue \in Seq(Items)
        BY HttpTypes
      <4>2. \A k \in 1..Len(h.queue) : h.queue[k] \in Items \cup {x}
        BY <4>1, ElementOfSeq
      <4>3. QED  BY <4>1, <4>2, LenProperties, SeqDef
    <3>6. /\ Len(Append(h.queue, x)) = Len(h.queue) + 1 /\ Len(h.queue) \in Nat
          /\ \A k \in 1..Len(h.queue) : Append(h.queue, x)[k] = h.queue[k]
          /\ Append(h.queue, x)[Len(h.queue) + 1] = x
      BY <3>2, <3>5, AppendProperties
    <3>7. \A k \in 1..(Len(h.queue) + 1) : k \in 1..Len(h.queue) \/ k = Len(h.queue) + 1
      BY <3>6
    <3>8. http' = h \/ http'.queue = Append(h.queue, x)
      BY <3>3 DEF write_next_with_promise, Https
    <3>9. Intact(http')
      BY <3>2, <3>6, <3>7, <3>8 DEF Intact
    <3>10. QED  BY <3>4, <3>9
  <2>6. QED
    BY <1>1, <1>2, <2>4, <2>5, EndsFile DEF ReadChunk, g
<1>3. QED
  BY <1>2, EndsFile DEF try_read


LEMMA ProgressCursor ==
  ASSUME NEW c \in Cursor, NEW prefix \in Int, NEW completed \in BOOLEAN
  PROVE  LET d == update_progress(c, 0, prefix, completed)
         IN  d \in Cursor /\ d.contiguous_end \in {c.contiguous_end, prefix}
<1> DEFINE d == update_progress(c, 0, prefix, completed)
           a == IF c.end_offset < c.start_offset /\ c.total_size > 0 /\ c.start_offset = 0
                THEN c.total_size - 1 ELSE c.end_offset
           b == IF prefix > c.contiguous_end \/ (completed /\ prefix = c.total_size)
                THEN prefix ELSE c.contiguous_end
<1>1. a \in Int /\ b \in Int /\ b \in {c.contiguous_end, prefix}
  BY CursorInts
<1>2. d = c \/ d = [c EXCEPT !.end_offset = a, !.contiguous_end = b]
  BY DEF update_progress
<1> HIDE DEF a, b, d
<1>3. QED
  <2>1. d \in Cursor /\ d.contiguous_end \in {c.contiguous_end, prefix}
    BY <1>1, <1>2 DEF Cursor
  <2>2. QED  BY <2>1 DEF d

LEMMA SwitchPathFile ==
  ASSUME NEW s \in Streams, NEW path \in Paths, path.gen <= 1, NEW c, ReadsFirst(s, c)
  PROVE  ReadsFirst(SwitchPath(s, path), c)
<1>1. /\ SwitchPath(s, path).local_path \in {s.local_path, path}
      /\ SwitchPath(s, path).local_file \in {0, s.local_file}
  BY DEF SwitchPath, Streams
<1>2. QED  BY <1>1 DEF ReadsFirst

LEMMA HandlersKeepFile ==
  ASSUME IInv, FileInv, "delete" \notin request.faults, FileHandlers \/ WriteHandlers \/ Timeout
  PROVE  ReadsFirst(stream', cursor') /\ Intact(http')
<1>1. /\ stream \in Streams /\ cursor \in Cursor /\ http \in Https /\ Environment
      /\ ReadsFirst(stream, cursor) /\ Intact(http)
      /\ \A k \in 1..Len(inbox) : inbox[k].path.gen <= 1 /\ inbox[k].prefix <= disk[1].have
  BY DEF IInv, Good, ActorTypes, FileInv, OneDownload, KeptFileBytes, OnlyFileBytes, Intact
<1>2. ASSUME NEW s \in Streams, ReadsFirst(s, cursor),
             NEW c \in Cursor, c.contiguous_end <= disk[1].have, NEW h \in Https, Intact(h), NEW f,
             \/ Return(s, c, h, f) \/ abort(s, c, h, f) \/ fail(s, c, h, f) \/ try_read(s, c, h, f)
      PROVE  ReadsFirst(stream', cursor') /\ Intact(http')
  <2>1. ReadsFirst(s, c)
    BY <1>2 DEF ReadsFirst
  <2>2. QED  BY <1>1, <1>2, <2>1, EndsFile, TryReadFile
<1>3. cursor.contiguous_end <= disk[1].have
  BY <1>1 DEF ReadsFirst
<1>4. CASE set_client
  <2>1. [stream EXCEPT !.client = TRUE] \in Streams /\ ReadsFirst([stream EXCEPT !.client = TRUE], cursor)
    BY <1>1 DEF Streams, ReadsFirst
  <2>2. QED  BY <1>1, <1>2, <1>3, <1>4, <2>1 DEF set_client
<1>5. CASE on_file_error \/ Timeout
  BY <1>1, <1>2, <1>3, <1>5 DEF on_file_error, Timeout, timeout_expired
<1>6. ASSUME NEW type, Receive(type)
      PROVE  LET m == Head(inbox)
             IN  /\ m.path \in Paths /\ m.prefix \in 0..TotalSize /\ m.completed \in BOOLEAN
                 /\ m.size \in Nat /\ m.path.gen <= 1 /\ m.prefix <= disk[1].have /\ m.prefix \in Int
                 /\ SwitchPath(stream, m.path) \in Streams
                 /\ ReadsFirst(SwitchPath(stream, m.path), cursor)
  <2>1. Head(inbox) \in Messages /\ Head(inbox) = inbox[1] /\ 1 \in 1..Len(inbox)
    BY <1>6, MessageTaken
  <2>2. /\ Head(inbox).path \in Paths /\ Head(inbox).prefix \in 0..TotalSize
        /\ Head(inbox).completed \in BOOLEAN /\ Head(inbox).size \in Nat
    BY <2>1 DEF Messages
  <2>3. Head(inbox).path.gen <= 1 /\ Head(inbox).prefix <= disk[1].have
    BY <1>1, <2>1
  <2>4. QED  BY <1>1, <2>2, <2>3, SwitchPathTypes, SwitchPathFile
<1>7. CASE on_file_progress
  <2> DEFINE m    == Head(inbox)
             s    == SwitchPath(stream, m.path)
             c    == update_progress(cursor, 0, m.prefix, m.completed)
             done == stream.download_completed \/ m.completed
             t    == [s EXCEPT !.download_completed = done]
  <2>1. /\ m.prefix \in Int /\ m.completed \in BOOLEAN /\ m.prefix <= disk[1].have
        /\ s \in Streams /\ ReadsFirst(s, cursor)
    BY <1>6, <1>7 DEF on_file_progress
  <2>2. done \in BOOLEAN
    BY <1>1, <2>1 DEF Streams
  <2>3. c \in Cursor /\ c.contiguous_end <= disk[1].have
    <3>1. c \in Cursor /\ c.contiguous_end \in {cursor.contiguous_end, m.prefix}
      BY <1>1, <2>1, ProgressCursor
    <3>2. QED  BY <1>3, <2>1, <3>1
  <2> HIDE DEF m, s, c, done
  <2>4. t \in Streams /\ ReadsFirst(t, cursor)
    BY <2>1, <2>2 DEF Streams, ReadsFirst
  <2> HIDE DEF t
  <2>5. QED
    BY <1>1, <1>2, <1>3, <1>7, <2>1, <2>3, <2>4 DEF on_file_progress, m, s, c, done, t
<1>8. CASE on_file_ready
  <2> DEFINE m     == Head(inbox)
             p     == SwitchPath(stream, m.path)
             s     == [p EXCEPT !.file_id = 1]
             sized == [cursor EXCEPT !.total_size = m.size]
             r     == parse_file_stream_range(request.range, m.size)
             e     == set_range(sized, r.start, r.end)
             c     == update_progress(e, 0, m.prefix, m.completed)
             ready == [s EXCEPT !.download_completed = m.completed, !.headers_sent = TRUE]
             h     == write_next_with_promise(http, Headers)
             f     == Promised(http, flushed, "headers")
  <2>1. /\ m.prefix \in Int /\ m.completed \in BOOLEAN /\ m.prefix <= disk[1].have /\ m.size \in Nat
        /\ p \in Streams /\ ReadsFirst(p, cursor)
    BY <1>6, <1>8 DEF on_file_ready
  <2>2. r.start \in Int /\ r.end \in Int
    <3>1. m.size = TotalSize /\ request \in Requests
      BY <1>8, MessageTaken DEF on_file_ready, IInv, Inbox, Environment
    <3>2. QED  BY <3>1, RangeWanted
  <2> HIDE DEF m, p, r
  <2>3. sized \in Cursor /\ sized.contiguous_end = cursor.contiguous_end
    BY <1>1, <2>1 DEF Cursor
  <2> HIDE DEF sized
  <2>4. e \in Cursor /\ e.contiguous_end = cursor.contiguous_end
    BY <2>2, <2>3 DEF set_range, Cursor
  <2> HIDE DEF e
  <2>5. c \in Cursor /\ c.contiguous_end <= disk[1].have
    <3>1. c \in Cursor /\ c.contiguous_end \in {e.contiguous_end, m.prefix}
      BY <2>1, <2>4, ProgressCursor
    <3>2. QED  BY <1>3, <2>1, <2>4, <3>1
  <2> HIDE DEF c
  <2>6. s \in Streams /\ ReadsFirst(s, cursor)
    BY <2>1 DEF Streams, ReadsFirst
  <2> HIDE DEF s
  <2>7. ready \in Streams /\ ReadsFirst(ready, cursor)
    BY <2>1, <2>6 DEF Streams, ReadsFirst
  <2>8. h \in Https /\ Intact(h)
    <3>1. Headers \in Items /\ Headers.intact
      BY DEF Headers, Items
    <3>2. http.queue \in Seq(Items)
      BY <1>1, HttpTypes
    <3>3. /\ Len(Append(http.queue, Headers)) = Len(http.queue) + 1 /\ Len(http.queue) \in Nat
          /\ \A k \in 1..Len(http.queue) : Append(http.queue, Headers)[k] = http.queue[k]
          /\ Append(http.queue, Headers)[Len(http.queue) + 1] = Headers
          /\ Append(http.queue, Headers) \in Seq(Items)
      BY <3>1, <3>2, AppendProperties
    <3>4. \A k \in 1..(Len(http.queue) + 1) : k \in 1..Len(http.queue) \/ k = Len(http.queue) + 1
      BY <3>3
    <3>5. h = http \/ (h \in Https /\ h.queue = Append(http.queue, Headers))
      BY <1>1, <3>3 DEF write_next_with_promise, Https
    <3>6. QED  BY <1>1, <3>1, <3>3, <3>4, <3>5 DEF Intact
  <2> HIDE DEF ready, h, f
  <2>9. \/ fail(s, cursor, http, flushed) \/ fail(s, sized, http, flushed)
        \/ fail(s, c, http, flushed) \/ Return(ready, c, h, f) \/ try_read(ready, c, h, f)
    BY <1>8 DEF on_file_ready, m, p, s, sized, r, e, c, ready, h, f
  <2>10. QED
    BY <1>1, <1>2, <1>3, <2>3, <2>5, <2>6, <2>7, <2>8, <2>9
<1>9. CASE on_headers_flushed
  <2>1. CASE \/ abort(stream, cursor, http, Tail(flushed))
             \/ Return(stream, cursor, http, Tail(flushed))
    BY <1>1, <1>2, <1>3, <2>1
  <2>2. CASE Return(Stop(stream), cursor,
                    IF http.state = "Write" THEN [http EXCEPT !.state = "Read"] ELSE http,
                    Tail(flushed))
    <3>1. Stop(stream) \in Streams /\ ReadsFirst(Stop(stream), cursor)
      <4>1. /\ Stop(stream) \in Streams /\ Stop(stream).local_path = stream.local_path
            /\ Stop(stream).local_file = 0
        BY <1>1, StopTypes DEF Stop, Streams
      <4>2. QED  BY <1>1, <4>1 DEF ReadsFirst
    <3>2. [http EXCEPT !.state = "Read"] \in Https /\ Intact([http EXCEPT !.state = "Read"])
      <4>1. PICK h \in Https : h = [http EXCEPT !.state = "Read"] /\ h.queue = http.queue
        BY <1>1, HttpTypes
      <4>2. Intact(h)
        BY <1>1, <4>1 DEF Intact
      <4>3. QED  BY <4>1, <4>2
    <3>3. QED  BY <1>1, <1>2, <1>3, <2>2, <3>1, <3>2
  <2>3. QED  BY <1>9, <2>1, <2>2 DEF on_headers_flushed
<1>10. CASE on_chunk_flushed
  <2> DEFINE s    == [stream EXCEPT !.write_in_flight = FALSE]
             idle == [s EXCEPT !.pending_offset = -1, !.pending_size = 0]
             sent == [idle EXCEPT !.first_byte_sent = TRUE]
             c    == commit(cursor, stream.pending_offset, stream.pending_size)
  <2>1. s \in Streams /\ ReadsFirst(s, cursor)
    BY <1>1 DEF Streams, ReadsFirst
  <2> HIDE DEF s
  <2>2. idle \in Streams /\ ReadsFirst(idle, cursor)
    <3>1. \A a, b \in Int : LET i == [s EXCEPT !.pending_offset = a, !.pending_size = b]
                            IN  /\ i \in Streams /\ i.local_path = s.local_path
                                /\ i.local_file = s.local_file
      BY <2>1 DEF Streams
    <3>2. -1 \in Int /\ 0 \in Int
      OBVIOUS
    <3>3. /\ idle \in Streams /\ idle.local_path = s.local_path /\ idle.local_file = s.local_file
      BY <3>1, <3>2
    <3>4. QED  BY <2>1, <3>3 DEF ReadsFirst
  <2> HIDE DEF idle
  <2>3. sent \in Streams /\ ReadsFirst(sent, cursor)
    BY <2>2 DEF Streams, ReadsFirst
  <2>4. c \in Cursor /\ c.contiguous_end = cursor.contiguous_end
    <3>1. cursor.next_offset + stream.pending_size \in Int
      BY <1>1, CursorInts, PendingInts
    <3>2. c = cursor \/ c = [cursor EXCEPT !.next_offset = cursor.next_offset + stream.pending_size]
      BY DEF commit
    <3>3. QED  BY <1>1, <3>1, <3>2 DEF Cursor
  <2> HIDE DEF sent, c
  <2>5. QED
    BY <1>1, <1>2, <1>3, <1>10, <2>1, <2>2, <2>3, <2>4 DEF on_chunk_flushed, s, idle, sent, c
<1>11. QED
  BY <1>4, <1>5, <1>7, <1>8, <1>9, <1>10 DEF FileHandlers, WriteHandlers


(* What TDLib reports of the one download. *)
LEMMA TdKeepsFile ==
  ASSUME IInv, FileInv, "delete" \notin request.faults, TDLib, Environment'
  PROVE  /\ td'.gen <= 1
         /\ td'.gen = 0 => disk'[1].have = 0
         /\ td'.gen = 1 => disk'[1].place \in {"temp", "final"}
         /\ disk[1].have <= disk'[1].have
<1>1. /\ Environment /\ td \in [gen : 0..Generations, active : BOOLEAN]
      /\ disk \in [1..Generations ->
                     [place : {"none", "temp", "final", "lost"}, have : 0..TotalSize]]
      /\ td.active => HasFile
      /\ 1 \in 1..Generations /\ Generations \in Nat \ {0} /\ TotalSize \in Nat
  BY EnvironmentAssumption, SizeAssumption DEF IInv, Environment
<1>2. /\ td.gen <= 1 /\ (td.gen = 0 => disk[1].have = 0)
      /\ td.gen = 1 => disk[1].place \in {"temp", "final"}
  BY DEF FileInv, OneDownload
<1>3. td.gen \in {0, 1} /\ (HasFile <=> td.gen = 1)
  BY <1>1, <1>2 DEF HasFile
<1>4. disk[1] \in [place : {"none", "temp", "final", "lost"}, have : 0..TotalSize]
      /\ disk[1].have \in Nat
  BY <1>1
<1>5. CASE TdStart
  <2>1. CASE UNCHANGED <<td, disk>>
    BY <1>2, <1>4, <2>1
  <2>2. CASE td' = [td EXCEPT !.active = TRUE] /\ UNCHANGED disk
    <3>1. td'.gen = td.gen
      BY <1>1, <2>2
    <3>2. QED  BY <1>2, <1>4, <2>2, <3>1
  <2>3. CASE /\ ~HasFile /\ td' = [gen |-> td.gen + 1, active |-> TRUE]
             /\ disk' = [disk EXCEPT ![td.gen + 1] = [place |-> "temp", have |-> 0]]
    <3>1. td.gen = 0 /\ td'.gen = 1
      BY <1>3, <2>3
    <3>2. disk'[1] = [place |-> "temp", have |-> 0]
      BY <1>1, <2>3, <3>1
    <3>3. QED  BY <1>2, <3>1, <3>2
  <2>4. QED  BY <1>5, <2>1, <2>2, <2>3 DEF TdStart
<1>6. CASE TdRestart
  BY <1>1, <1>3, <1>6 DEF TdRestart
<1>7. CASE TdDelete
  BY <1>7 DEF TdDelete
<1>8. CASE TdStop
  <2>1. td'.gen = td.gen /\ disk' = disk
    BY <1>1, <1>8 DEF TdStop
  <2>2. QED  BY <1>2, <1>4, <2>1
<1>9. CASE TdProgress
  <2>1. td.gen = 1 /\ Prefix = disk[1].have /\ td' = td
    BY <1>1, <1>3, <1>9 DEF TdProgress, Prefix
  <2>2. PICK k \in (Prefix + 1)..TotalSize : disk' = [disk EXCEPT ![td.gen].have = k]
    BY <1>9 DEF TdProgress
  <2>3. k \in Int /\ disk[1].have <= k
    BY <1>1, <1>4, <2>1
  <2>4. disk'[1].have = k /\ disk'[1].place = disk[1].place
    <3>1. disk'[1] = [disk[1] EXCEPT !.have = k]
      BY <1>1, <2>1, <2>2
    <3>2. QED  BY <1>4, <3>1
  <2>5. QED  BY <1>2, <2>1, <2>3, <2>4
<1>10. CASE TdComplete
  <2>1. td.gen = 1 /\ td'.gen = 1
    BY <1>1, <1>3, <1>10 DEF TdComplete
  <2>2. disk' = [disk EXCEPT ![1].place = "final"]
    BY <1>10, <2>1 DEF TdComplete
  <2>3. disk'[1].place = "final" /\ disk'[1].have = disk[1].have
    BY <1>1, <1>4, <2>2
  <2>4. QED  BY <1>4, <2>1, <2>3
<1>11. QED
  BY <1>5, <1>6, <1>7, <1>8, <1>9, <1>10 DEF TDLib

LEMMA InitFile ==
  ASSUME Init
  PROVE  FileInv
<1>1. /\ stream.local_path.gen = 0 /\ stream.local_file = 0 /\ cursor.contiguous_end = 0
      /\ Len(inbox) = 0 /\ wire.exact /\ Len(http.queue) = 0
  BY DEF Init, StreamInit, NoPath, FreshCursor
<1>2. /\ 1 \in 1..Generations /\ TotalSize \in Nat
  BY EnvironmentAssumption, SizeAssumption
<1>3. /\ td.gen <= 1 /\ (td.gen = 0 => disk[1].have = 0)
      /\ td.gen = 1 => disk[1].place \in {"temp", "final"}
      /\ 0 <= disk[1].have
  <2>1. CASE td = [gen |-> 0, active |-> FALSE] /\ disk = [g \in 1..Generations |-> NoFile]
    BY <1>2, <2>1 DEF NoFile
  <2>2. ASSUME NEW a \in BOOLEAN, NEW k \in 0..TotalSize, NEW place \in {"temp", "final"},
               td = [gen |-> 1, active |-> a],
               disk = [g \in 1..Generations |->
                         IF g = 1 THEN [place |-> place, have |-> k] ELSE NoFile]
        PROVE  /\ td.gen <= 1 /\ (td.gen = 0 => disk[1].have = 0)
               /\ td.gen = 1 => disk[1].place \in {"temp", "final"}
               /\ 0 <= disk[1].have
    <3>1. disk[1] = [place |-> place, have |-> k] /\ td.gen = 1
      BY <1>2, <2>2
    <3>2. QED  BY <1>2, <3>1
  <2>3. TotalSize \in 0..TotalSize
    BY <1>2
  <2>4. QED  BY <2>1, <2>2, <2>3 DEF Init, TdInit
<1>4. ReadsFirst(stream, cursor)
  BY <1>1, <1>3 DEF ReadsFirst
<1>5. QED  BY <1>1, <1>3, <1>4 DEF FileInv, OneDownload, KeptFileBytes, OnlyFileBytes

LEMMA NextFile ==
  ASSUME IInv, IInv', FileInv, [Next]_vars
  PROVE  FileInv'
<1>1. request' = request
  BY DEF Next, vars, FileHandlers, WriteHandlers, Timeout, Connection, Manager, TDLib,
         set_client, on_file_ready, on_file_progress, on_file_error, Receive, timeout_expired,
         on_headers_flushed, on_chunk_flushed, Settle, Flush, Disconnect, CloseConnection,
         Refuse, Admit, Resolve, ResolveError, TdStart, TdProgress, TdComplete, TdStop,
         TdDelete, TdRestart, Report
<1>2. CASE "delete" \in request.faults
  BY <1>1, <1>2 DEF FileInv, OneDownload, KeptFileBytes
<1>3. CASE "delete" \notin request.faults
  <2>1. /\ td.gen <= 1 /\ (td.gen = 0 => disk[1].have = 0)
        /\ td.gen = 1 => disk[1].place \in {"temp", "final"}
        /\ \A k \in 1..Len(inbox) : inbox[k].path.gen <= 1 /\ inbox[k].prefix <= disk[1].have
        /\ ReadsFirst(stream, cursor) /\ Intact(http) /\ wire.exact
    BY <1>3 DEF FileInv, OneDownload, KeptFileBytes, OnlyFileBytes, Intact
  <2>2. /\ inbox \in Seq(Messages) /\ Len(inbox) \in Nat /\ http \in Https /\ cursor \in Cursor
        /\ disk[1].have \in Int /\ 1 \in 1..Generations
    BY EnvironmentAssumption DEF IInv, Inbox, Environment, Good, ActorTypes
  <2>3. ASSUME td'.gen <= 1 /\ (td'.gen = 0 => disk'[1].have = 0),
               td'.gen = 1 => disk'[1].place \in {"temp", "final"},
               \A k \in 1..Len(inbox') : inbox'[k].path.gen <= 1 /\ inbox'[k].prefix <= disk'[1].have,
               ReadsFirst(stream, cursor)', Intact(http'), wire'.exact
        PROVE  FileInv'
    BY <2>3 DEF FileInv, OneDownload, KeptFileBytes, OnlyFileBytes, Intact
  <2>4. CASE FileHandlers \/ WriteHandlers \/ Timeout
    <3>1. ReadsFirst(stream', cursor') /\ Intact(http')
      BY <1>3, <2>4, HandlersKeepFile
    <3>2. /\ UNCHANGED <<wire, td, disk>>
          /\ inbox' = inbox \/ \E type : Receive(type)
      BY <2>4 DEF FileHandlers, WriteHandlers, Timeout, set_client, on_file_ready, on_file_progress,
                  on_file_error, Receive, timeout_expired, on_headers_flushed, on_chunk_flushed,
                  Settle
    <3>3. ReadsFirst(stream, cursor)'
      BY <3>1, <3>2 DEF ReadsFirst
    <3>4. \A k \in 1..Len(inbox') : \E j \in 1..Len(inbox) : inbox'[k] = inbox[j]
      <4>1. ASSUME NEW type, Receive(type)
            PROVE  \A k \in 1..Len(inbox') : \E j \in 1..Len(inbox) : inbox'[k] = inbox[j]
        <5>1. /\ Len(inbox') = Len(inbox) - 1
              /\ \A k \in 1..Len(inbox') : inbox'[k] = inbox[k + 1]
          BY <4>1, MessageTaken
        <5>2. \A k \in 1..Len(inbox') : k + 1 \in 1..Len(inbox)
          BY <2>2, <5>1
        <5>3. QED  BY <5>1, <5>2
      <4>2. QED  BY <3>2, <4>1
    <3>5. QED  BY <2>1, <2>3, <3>1, <3>2, <3>3, <3>4
  <2>5. CASE Connection
    <3>1. UNCHANGED <<request, stream, cursor, inbox, client, td, disk>>
      BY <2>5 DEF Connection, Flush, Disconnect, CloseConnection
    <3>2. ReadsFirst(stream, cursor)'
      BY <2>1, <3>1 DEF ReadsFirst
    <3>3. Intact(http') /\ wire'.exact
      <4>1. CASE Disconnect \/ CloseConnection
        <5>1. http' = Closing(http) /\ wire' = wire
          BY <4>1 DEF Disconnect, CloseConnection
        <5>2. http'.queue = <<>>
          BY <5>1, ClosedTypes
        <5>3. QED  BY <2>1, <5>1, <5>2 DEF Intact
      <4>2. CASE Flush
        <5>1. /\ http'.queue = Tail(http.queue) /\ (GetsHeaders \/ GetsError \/ GetsChunk)
          BY <4>2, FlushEffect
        <5>2. http.queue \in Seq(Items) /\ http.queue # <<>>
          BY <2>2, <4>2, HttpTypes DEF Flush
        <5>3. /\ Len(http.queue) \in Nat \ {0} /\ Len(Tail(http.queue)) = Len(http.queue) - 1
              /\ \A k \in 1..Len(Tail(http.queue)) : Tail(http.queue)[k] = http.queue[k + 1]
          BY <5>2, HeadTailProperties, EmptySeq
        <5>4. Intact(http')
          BY <2>1, <5>1, <5>3 DEF Intact
        <5>5. 1 \in 1..Len(http.queue)
          BY <5>3
        <5>6. wire'.exact
          BY <2>1, <5>1, <5>5 DEF GetsHeaders, GetsError, GetsChunk, Intact
        <5>7. QED  BY <5>4, <5>6
      <4>3. QED  BY <2>5, <4>1, <4>2 DEF Connection
    <3>4. QED  BY <2>1, <2>3, <3>1, <3>2, <3>3
  <2>6. ASSUME NEW m, inbox' = Append(inbox, m), m \in Messages,
               m.path.gen <= 1, m.prefix <= disk'[1].have, disk[1].have <= disk'[1].have,
               disk'[1].have \in Int
        PROVE  \A k \in 1..Len(inbox') : inbox'[k].path.gen <= 1 /\ inbox'[k].prefix <= disk'[1].have
    <3>1. /\ Len(inbox') = Len(inbox) + 1 /\ inbox'[Len(inbox) + 1] = m
          /\ \A k \in 1..Len(inbox) : inbox'[k] = inbox[k]
      BY <2>2, <2>6, AppendProperties
    <3>2. \A k \in 1..Len(inbox') : k \in 1..Len(inbox) \/ k = Len(inbox) + 1
      BY <2>2, <3>1
    <3>3. \A k \in 1..Len(inbox) : inbox[k].prefix \in Int
      <4>1. \A k \in 1..Len(inbox) : inbox[k] \in Messages
        BY <2>2, ElementOfSeq
      <4>2. \A x \in Messages : x.prefix \in Int
        BY SizeAssumption DEF Messages
      <4>3. QED  BY <4>1, <4>2
    <3>4. QED  BY <2>1, <2>2, <2>6, <3>1, <3>2, <3>3
  <2>7. CASE Manager
    <3>1. UNCHANGED <<stream, cursor, http, wire, td, disk>>
      BY <2>7 DEF Manager, Refuse, Admit, Resolve, ResolveError
    <3>2. PICK m \in Messages : /\ inbox' = Append(inbox, m)
                                /\ m.path.gen <= 1 /\ m.prefix <= disk[1].have
      <4>1. CASE Resolve
        <5>1. inbox' = Append(inbox, FileMessage("on_file_ready", TotalSize))
          BY <4>1 DEF Resolve
        <5>2. FileMessage("on_file_ready", TotalSize) \in Messages
          BY FileMessages DEF IInv
        <5>3. LET m == FileMessage("on_file_ready", TotalSize)
              IN  m.path = LocalPath /\ m.prefix = Prefix
          BY DEF FileMessage
        <5>4. LocalPath.gen <= 1 /\ Prefix <= disk[1].have
          <6>1. td.gen \in 0..Generations /\ 0 <= disk[1].have
            BY <2>2 DEF IInv, Environment
          <6>2. CASE HasFile
            BY <2>1, <2>2, <6>1, <6>2 DEF HasFile, LocalPath, Prefix
          <6>3. CASE ~HasFile
            BY <6>1, <6>3 DEF LocalPath, Prefix, NoPath
          <6>4. QED  BY <6>2, <6>3
        <5>5. QED  BY <5>1, <5>2, <5>3, <5>4
      <4>2. CASE Refuse \/ Admit \/ ResolveError
        <5>1. PICK type \in {"set_client", "on_file_error"}, code \in {0, 400, 429} :
                inbox' = Append(inbox, PlainMessage(type, code))
          BY <4>2 DEF Refuse, Admit, ResolveError
        <5>2. /\ PlainMessage(type, code) \in Messages
              /\ PlainMessage(type, code).path.gen = 0 /\ PlainMessage(type, code).prefix = 0
          <6>1. PlainMessage(type, code) \in Messages
            BY PlainMessages
          <6>2. PlainMessage(type, code).path = NoPath /\ PlainMessage(type, code).prefix = 0
            BY DEF PlainMessage
          <6>3. QED  BY <6>1, <6>2 DEF NoPath
        <5>3. 0 <= disk[1].have
          BY <2>2 DEF IInv, Environment
        <5>4. QED  BY <5>1, <5>2, <5>3
      <4>3. QED  BY <2>7, <4>1, <4>2 DEF Manager
    <3>3. ReadsFirst(stream, cursor)' /\ Intact(http')
      BY <2>1, <3>1 DEF ReadsFirst
    <3>4. \A k \in 1..Len(inbox') : inbox'[k].path.gen <= 1 /\ inbox'[k].prefix <= disk'[1].have
      BY <2>2, <2>6, <3>1, <3>2
    <3>5. QED  BY <2>1, <2>3, <3>1, <3>3, <3>4
  <2>8. CASE TDLib
    <3>1. Environment' /\ disk'[1].have \in Int /\ 0 <= disk'[1].have /\ td'.gen \in 0..Generations
      BY <2>2 DEF IInv, Environment
    <3>2. /\ td'.gen <= 1 /\ (td'.gen = 0 => disk'[1].have = 0)
          /\ td'.gen = 1 => disk'[1].place \in {"temp", "final"}
          /\ disk[1].have <= disk'[1].have
      BY <1>3, <2>8, <3>1, TdKeepsFile
    <3>3. Report
      BY <2>8 DEF TDLib, TdStart, TdProgress, TdComplete, TdStop, TdDelete, TdRestart
    <3>4. UNCHANGED <<stream, cursor, http, wire>>
      BY <3>3 DEF Report
    <3>5. ReadsFirst(stream, cursor)' /\ Intact(http')
      <4>1. cursor.contiguous_end \in Int
        BY <2>2, CursorInts
      <4>2. QED  BY <2>1, <2>2, <3>1, <3>2, <3>4, <4>1 DEF ReadsFirst
    <3>6. \A k \in 1..Len(inbox') : inbox'[k].path.gen <= 1 /\ inbox'[k].prefix <= disk'[1].have
      <4>1. CASE inbox' = inbox
        <5>1. \A k \in 1..Len(inbox) : inbox[k].prefix \in Int
          <6>1. \A k \in 1..Len(inbox) : inbox[k] \in Messages
            BY <2>2, ElementOfSeq
          <6>2. \A x \in Messages : x.prefix \in Int
            BY SizeAssumption DEF Messages
          <6>3. QED  BY <6>1, <6>2
        <5>2. QED  BY <2>1, <2>2, <3>1, <3>2, <4>1, <5>1
      <4>2. ASSUME NEW size \in ReportedSizes,
                   inbox' = Append(inbox, FileMessage("on_file_progress", size)')
            PROVE  \A k \in 1..Len(inbox') :
                     inbox'[k].path.gen <= 1 /\ inbox'[k].prefix <= disk'[1].have
        <5>1. size \in Nat
          BY SizeAssumption DEF ReportedSizes
        <5>2. PICK m \in Messages : m = FileMessage("on_file_progress", size)'
          BY <3>1, <5>1, ReportMessages
        <5>3. m.path = LocalPath' /\ m.prefix = Prefix'
          BY <5>2 DEF FileMessage
        <5>4. LocalPath'.gen <= 1 /\ Prefix' <= disk'[1].have
          <6>1. CASE HasFile'
            BY <3>1, <3>2, <6>1 DEF HasFile, LocalPath, Prefix
          <6>2. CASE ~HasFile'
            BY <3>1, <6>2 DEF LocalPath, Prefix, NoPath
          <6>3. QED  BY <6>1, <6>2
        <5>5. QED  BY <2>6, <3>1, <3>2, <4>2, <5>2, <5>3, <5>4
      <4>3. QED  BY <3>3, <4>1, <4>2 DEF Report
    <3>7. QED  BY <2>1, <2>3, <3>2, <3>4, <3>5, <3>6
  <2>9. CASE UNCHANGED vars
    BY <2>1, <2>3, <2>9 DEF vars, ReadsFirst
  <2>10. QED  BY <2>4, <2>5, <2>7, <2>8, <2>9 DEF Next
<1>4. QED  BY <1>2, <1>3

(* As long as TDLib keeps the file, what a client receives and what waits  *)
(* in its connection are bytes of the file, in order from the start of the *)
(* range on: whatever the reports, the renames and the chunks, try_read    *)
(* never reads past what has been downloaded.                              *)
THEOREM FileBytesAlwaysKept == Spec => []KeptFileBytes
<1>1. Init => FileInv
  BY InitFile
<1>2. IInv /\ IInv' /\ FileInv /\ [Next]_vars => FileInv'
  BY NextFile
<1>3. FileInv => KeptFileBytes
  BY DEF FileInv
<1>4. QED  BY <1>1, <1>2, <1>3, AlwaysIInv, PTL DEF Spec

-------------------------------------------------------------------------------
(* The refinement. *)
LEMMA SeenValues ==
  ASSUME IInv
  PROVE  /\ wire.responses \in {<<>>, <<"ok">>, <<"error">>}
         /\ wire.responses = <<>> <=> SeenResponse = "none"
         /\ wire.responses = <<"ok">> <=> SeenResponse = "ok"
         /\ wire.responses = <<"error">> <=> SeenResponse = "error"
         /\ wire.responses # <<"ok">> => wire.body = 0
         /\ wire.responses = <<"ok">> => RangeSet(cursor)
         /\ wire.body \in Nat /\ cursor \in Cursor
<1>1. /\ <<>> # <<"ok">> /\ <<>> # <<"error">> /\ <<"ok">> # <<"error">>
  OBVIOUS
<1>2. /\ wire.body \in Nat /\ cursor \in Cursor
  BY DEF IInv, Good, ActorTypes, Wires
<1>3. /\ wire.responses \in {<<>>, <<"ok">>, <<"error">>}
      /\ wire.responses # <<"ok">> => wire.body = 0
      /\ wire.responses = <<"ok">> => RangeSet(cursor)
  BY <1>1 DEF IInv, Good, Ended, Waiting, Streaming
<1>4. QED  BY <1>1, <1>2, <1>3 DEF SeenResponse

LEMMA IntervalEnds ==
  ASSUME NEW a \in Int, NEW b \in Int, NEW c \in Int, NEW d \in Int, a <= b, c <= d, a..b = c..d
  PROVE  a = c /\ b = d
<1>1. a \in a..b /\ b \in a..b /\ c \in c..d /\ d \in c..d
  OBVIOUS
<1>2. a \in c..d /\ b \in c..d /\ c \in a..b /\ d \in a..b
  BY <1>1
<1>3. QED  BY <1>2

(* The response does not change while nothing is received. *)
LEMMA SameResponse ==
  ASSUME IInv, IInv', UNCHANGED <<request, wire>>
  PROVE  UNCHANGED <<Wanted, request.head_only, SeenResponse, SeenLength, SeenBytes>>
<1>1. Wanted' = Wanted /\ SeenResponse' = SeenResponse
  BY DEF Wanted, SeenResponse
<1>2. /\ wire.responses # <<"ok">> => wire.body = 0
      /\ wire.responses = <<"ok">> => RangeSet(cursor)
      /\ wire.body \in Nat /\ cursor \in Cursor
  BY SeenValues
<1>3. cursor' \in Cursor
  BY DEF IInv, Good, ActorTypes
<1>4. CASE wire.responses = <<"ok">>
  <2>1. RangeSet(cursor)'
    <3>1. <<>> # <<"ok">>
      OBVIOUS
    <3>2. wire'.responses = <<"ok">>
      BY <1>4
    <3>3. QED  BY <3>1, <3>2 DEF IInv, Good, Ended, Waiting, Streaming
  <2>2. /\ cursor'.start_offset <= cursor'.end_offset
        /\ cursor'.start_offset..cursor'.end_offset = Wanted
    BY <1>1, <2>1 DEF RangeSet
  <2>3. /\ cursor.start_offset <= cursor.end_offset
        /\ cursor.start_offset..cursor.end_offset = Wanted
    BY <1>2, <1>4 DEF RangeSet
  <2>4. /\ cursor.start_offset \in Int /\ cursor.end_offset \in Int
        /\ cursor'.start_offset \in Int /\ cursor'.end_offset \in Int
    BY <1>2, <1>3 DEF Cursor
  <2>5. cursor'.start_offset = cursor.start_offset /\ cursor'.end_offset = cursor.end_offset
    BY <2>2, <2>3, <2>4, IntervalEnds
  <2>6. QED  BY <1>1, <2>5 DEF SeenLength, SeenBytes
<1>5. CASE wire.responses # <<"ok">>
  <2>1. wire.body = 0 /\ wire'.body = 0
    BY <1>2, <1>5
  <2>2. cursor.start_offset \in Int /\ cursor'.start_offset \in Int
    BY <1>2, <1>3 DEF Cursor
  <2>3. \A a \in Int : a..(a + 0 - 1) = {}
    OBVIOUS
  <2>4. SeenBytes = {} /\ SeenBytes' = {}
    BY <2>1, <2>2, <2>3 DEF SeenBytes
  <2>5. SeenLength' = SeenLength
    BY <1>5 DEF SeenLength
  <2>6. QED  BY <1>1, <2>4, <2>5
<1>6. QED  BY <1>4, <1>5

LEMMA ResponseInit ==
  ASSUME Init
  PROVE  Response!Init
<1>1. Wanted \subseteq Nat
  <2>1. 0..(TotalSize - 1) \subseteq Nat
    BY SizeAssumption
  <2>2. QED  BY <2>1 DEF Wanted, Selected
<1>2. request.head_only \in BOOLEAN
  BY RequestAssumption DEF Init
<1>3. SeenResponse = "none" /\ SeenLength = 0
  <2>1. wire.responses = <<>> /\ <<>> # <<"ok">>
    BY DEF Init
  <2>2. QED  BY <2>1 DEF SeenResponse, SeenLength
<1>4. SeenBytes = {}
  <2>1. wire.body = 0 /\ cursor.start_offset = 0 /\ 0..(0 + 0 - 1) = {}
    BY DEF Init, FreshCursor
  <2>2. QED  BY <2>1 DEF SeenBytes
<1>5. SeenConnection = "busy"
  BY DEF Init, SeenConnection
<1>6. QED  BY <1>1, <1>2, <1>3, <1>4, <1>5 DEF Response!Init


ResponseNext ==
  Response!Begin \/ Response!Refuse \/ Response!Send \/ Response!Finish \/ Response!Drop

(* A write that reaches the client. *)
LEMMA FlushResponds ==
  ASSUME IInv, IInv', Flush
  PROVE  ResponseNext \/ UNCHANGED Response!vars
<1>1. /\ http'.state = http.state /\ http'.queue = Tail(http.queue)
      /\ GetsHeaders \/ GetsError \/ GetsChunk
  BY FlushEffect
<1>2. UNCHANGED <<request, cursor>> /\ http.queue # <<>>
  BY DEF Flush
<1>3. /\ <<>> # <<"ok">> /\ <<>> # <<"error">> /\ <<"ok">> # <<"error">>
  OBVIOUS
<1>4. wire.body \in Nat /\ cursor \in Cursor
  BY SeenValues
<1>5. Wanted' = Wanted /\ request'.head_only = request.head_only
  BY <1>2 DEF Wanted
<1>6. cursor.start_offset \in Int /\ cursor.end_offset \in Int
  BY <1>4, CursorInts
<1>7. CASE GetsHeaders
  <2>1. SeenConnection = "busy" /\ SeenConnection' = "busy"
    BY <1>1, <1>7 DEF GetsHeaders, SeenConnection
  <2>2. SeenResponse = "none" /\ SeenResponse' = "ok"
    BY <1>3, <1>7 DEF GetsHeaders, SeenResponse
  <2>3. SeenLength' = cursor.end_offset - cursor.start_offset + 1
    BY <1>2, <1>7 DEF GetsHeaders, SeenLength
  <2>4. /\ cursor.start_offset..cursor.end_offset = Wanted
        /\ cursor.start_offset <= cursor.end_offset
    BY <1>7 DEF GetsHeaders, RangeSet
  <2>5. Cardinality(Wanted) = cursor.end_offset - cursor.start_offset + 1
    BY <1>6, <2>4, FS_Interval
  <2>6. Wanted # {}
    BY <1>6, <2>4
  <2>7. SeenBytes' = SeenBytes
    BY <1>2, <1>7 DEF GetsHeaders, SeenBytes
  <2>8. Response!Begin
    <3>1. Response!Cardinality(Wanted) = Cardinality(Wanted)
      BY DEF Cardinality, Response!Cardinality
    <3>2. QED  BY <1>5, <2>1, <2>2, <2>3, <2>5, <2>6, <2>7, <3>1 DEF Response!Begin
  <2>9. QED  BY <2>8 DEF ResponseNext
<1>8. CASE GetsError
  <2>1. SeenConnection = "busy" /\ SeenConnection' = "idle"
    BY <1>1, <1>2, <1>8 DEF GetsError, SeenConnection
  <2>2. SeenResponse = "none" /\ SeenResponse' = "error"
    BY <1>3, <1>8 DEF GetsError, SeenResponse
  <2>3. SeenLength' = SeenLength
    BY <1>3, <1>8 DEF GetsError, SeenLength
  <2>4. SeenBytes' = SeenBytes
    BY <1>2, <1>8 DEF GetsError, SeenBytes
  <2>5. Response!Refuse
    BY <1>5, <2>1, <2>2, <2>3, <2>4 DEF Response!Refuse
  <2>6. QED  BY <2>5 DEF ResponseNext
<1>9. CASE GetsChunk
  <2>1. SeenResponse = "ok" /\ SeenResponse' = "ok"
    BY <1>3, <1>9 DEF GetsChunk, SeenResponse
  <2>2. SeenLength' = SeenLength
    BY <1>2, <1>9 DEF GetsChunk, SeenLength
  <2>3. SeenConnection = "busy"
    BY <1>2, <1>9 DEF GetsChunk, SeenConnection
  <2>4. SeenConnection' = IF http.state = "Read" THEN "idle" ELSE "busy"
    BY <1>1, <1>9 DEF GetsChunk, SeenConnection
  <2>5. CASE request.head_only
    <3>1. SeenBytes' = SeenBytes
      BY <1>2, <2>5 DEF SeenBytes
    <3>2. http.state = "Read" => Response!Finish
      BY <1>5, <2>1, <2>2, <2>3, <2>4, <2>5, <3>1 DEF Response!Finish
    <3>3. http.state # "Read" => UNCHANGED Response!vars
      BY <1>5, <2>1, <2>2, <2>3, <2>4, <3>1 DEF Response!vars
    <3>4. QED  BY <3>2, <3>3 DEF ResponseNext
  <2>6. CASE ~request.head_only
    <3>1. SeenConnection' = "busy"
      BY <2>4, <2>6, <1>9 DEF GetsChunk
    <3> DEFINE a == cursor.start_offset
               n == http.queue[1].size
               k == a + wire.body + n - 1
    <3>2. /\ n \in Nat /\ n > 0 /\ wire.body + n <= cursor.end_offset - a + 1
          /\ wire'.body = wire.body + n
      <4>1. http.queue[1] \in Items /\ http.queue[1].kind = "data"
        BY <1>9 DEF GetsChunk, Fits
      <4>2. n \in Nat
        BY <4>1 DEF Items
      <4>3. QED  BY <1>9, <4>2 DEF GetsChunk, Fits, Length
    <3>3. a..cursor.end_offset = Wanted
      BY <1>9 DEF GetsChunk, RangeSet
    <3> HIDE DEF n
    <3>4. SeenBytes = a..(a + wire.body - 1) /\ SeenBytes' = a..(a + wire'.body - 1)
      BY <1>2, <2>6 DEF SeenBytes
    <3>5. k \in Wanted \ SeenBytes
      <4>1. k \in a..cursor.end_offset
        BY <1>4, <1>6, <3>2
      <4>2. k \notin a..(a + wire.body - 1)
        BY <1>4, <1>6, <3>2
      <4>3. QED  BY <3>3, <3>4, <4>1, <4>2
    <3>6. SeenBytes' = {b \in Wanted : b <= k}
      <4>1. a..(a + wire'.body - 1) = {b \in a..cursor.end_offset : b <= k}
        BY <1>4, <1>6, <3>2
      <4>2. QED  BY <3>3, <3>4, <4>1
    <3> HIDE DEF k
    <3>7. Response!Send
      BY <1>5, <2>1, <2>2, <2>3, <2>6, <3>1, <3>5, <3>6 DEF Response!Send
    <3>8. QED  BY <3>7 DEF ResponseNext
  <2>7. QED  BY <2>5, <2>6
<1>10. QED  BY <1>1, <1>7, <1>8, <1>9

(* The handlers leave a lost connection lost, and lose none. *)
LEMMA DeadLeft ==
  ASSUME NEW s, NEW c, NEW h \in Https, NEW f,
         \/ Return(s, c, h, f) \/ abort(s, c, h, f) \/ fail(s, c, h, f) \/ try_read(s, c, h, f)
  PROVE  http'.state = "Dead" <=> h.state = "Dead"
<1>1. ASSUME NEW r, NEW g, Return(r, c, h, g) PROVE http' = h
  BY <1>1 DEF Return
<1>2. abort(s, c, h, f) => (http'.state = "Dead" <=> h.state = "Dead")
  BY DEF abort, Return, Https
<1>3. fail(s, c, h, f) => (http'.state = "Dead" <=> h.state = "Dead")
  BY <1>2 DEF fail, Return
<1>4. finish(s, c, h, f) => (http'.state = "Dead" <=> h.state = "Dead")
  BY DEF finish, Return, Https
<1>5. ASSUME NEW r, ReadFailed(s, c, h, f, r) PROVE http'.state = "Dead" <=> h.state = "Dead"
  BY <1>1, <1>2, <1>5 DEF ReadFailed
<1>6. ASSUME NEW r, NEW x, NEW g, Return(r, c, write_next_with_promise(h, x), g)
      PROVE  http'.state = "Dead" <=> h.state = "Dead"
  BY <1>6 DEF Return, write_next_with_promise, Https
<1>7. ASSUME NEW size, ReadChunk(s, c, h, f, size)
      PROVE  http'.state = "Dead" <=> h.state = "Dead"
  BY <1>2, <1>5, <1>6, <1>7 DEF ReadChunk
<1>8. try_read(s, c, h, f) => (http'.state = "Dead" <=> h.state = "Dead")
  BY <1>1, <1>4, <1>7 DEF try_read
<1>9. QED  BY <1>1, <1>2, <1>3, <1>8


LEMMA HandlersRespond ==
  ASSUME IInv, IInv', FileHandlers \/ WriteHandlers \/ Timeout
  PROVE  ResponseNext \/ UNCHANGED Response!vars
<1>1. ~stream.finished /\ UNCHANGED <<request, wire>>
  BY DEF FileHandlers, WriteHandlers, Timeout, timeout_expired, set_client, on_file_ready,
         on_file_progress, on_file_error, on_headers_flushed, on_chunk_flushed, Receive, Settle
<1>2. http \in Https /\ http.state \in {"Write", "Dead"} /\ wire.responses \in {<<>>, <<"ok">>}
  BY <1>1 DEF IInv, Good, ActorTypes, Waiting, Streaming
<1>3. http'.state = "Dead" <=> http.state = "Dead"
  <2>1. /\ write_next_with_promise(http, Headers) \in Https
        /\ write_next_with_promise(http, Headers).state = http.state
    <3>1. Headers \in Items
      BY DEF Headers, Items
    <3>2. Append(http.queue, Headers) \in Seq(Items)
      BY <1>2, <3>1, HttpTypes, AppendProperties
    <3>3. QED  BY <1>2, <3>2 DEF write_next_with_promise, Https
  <2>2. PICK h \in Https : h = write_next_with_promise(http, Headers)
    BY <2>1
  <2>3. CASE on_file_ready
    <3>1. \E s, c, f, i : /\ i \in {http, h}
                          /\ fail(s, c, i, f) \/ Return(s, c, i, f) \/ try_read(s, c, i, f)
      BY <2>2, <2>3 DEF on_file_ready
    <3>2. QED  BY <1>2, <2>1, <2>2, <3>1, DeadLeft
  <2>4. CASE on_headers_flushed
    <3>1. CASE Return(Stop(stream), cursor,
                      IF http.state = "Write" THEN [http EXCEPT !.state = "Read"] ELSE http,
                      Tail(flushed))
      BY <1>2, <3>1 DEF Return, Https
    <3>2. CASE \/ abort(stream, cursor, http, Tail(flushed))
               \/ Return(stream, cursor, http, Tail(flushed))
      BY <1>2, <3>2, DeadLeft
    <3>3. QED  BY <2>4, <3>1, <3>2 DEF on_headers_flushed
  <2>5. CASE on_file_progress
    BY <1>2, <2>5, DeadLeft DEF on_file_progress
  <2>6. CASE on_chunk_flushed
    BY <1>2, <2>6, DeadLeft DEF on_chunk_flushed
  <2>7. CASE set_client \/ on_file_error \/ Timeout
    BY <1>2, <2>7, DeadLeft DEF set_client, on_file_error, Timeout, timeout_expired
  <2>8. QED
    BY <2>3, <2>4, <2>5, <2>6, <2>7 DEF FileHandlers, WriteHandlers
<1>4. UNCHANGED <<Wanted, request.head_only, SeenResponse, SeenLength, SeenBytes>>
  BY <1>1, SameResponse
<1>5. CASE http'.state = "Read" /\ http'.queue = <<>>
  <2>1. stream'.finished /\ Ended(cursor, http, wire)'
    BY <1>5 DEF IInv, Good, Waiting, Streaming
  <2>2. /\ wire'.responses # <<>>
        /\ wire'.responses = <<"ok">> => request'.head_only \/ wire'.body = Length(cursor')
    BY <1>5, <2>1 DEF Ended, Length
  <2>3. wire.responses = <<"ok">>
    BY <1>1, <1>2, <2>2
  <2>4. SeenResponse = "ok"
    BY <2>3, SeenValues
  <2>5. SeenConnection = "busy" /\ SeenConnection' = "idle"
    BY <1>2, <1>3, <1>5 DEF SeenConnection
  <2>6. request.head_only \/ SeenBytes = Wanted
    <3>1. ASSUME ~request.head_only PROVE SeenBytes' = Wanted'
      <4>1. wire'.body = cursor'.end_offset - cursor'.start_offset + 1
        BY <1>1, <2>2, <2>3, <3>1 DEF Length
      <4>2. RangeSet(cursor)' /\ cursor' \in Cursor
        BY <1>1, <2>1, <2>3 DEF Ended, IInv, Good, ActorTypes
      <4>3. cursor'.start_offset \in Int /\ cursor'.end_offset \in Int
        BY <4>2 DEF Cursor
      <4>4. cursor'.start_offset + wire'.body - 1 = cursor'.end_offset
        BY <4>1, <4>3
      <4>5. cursor'.start_offset..cursor'.end_offset = Wanted'
        BY <4>2 DEF RangeSet
      <4>6. QED  BY <1>1, <3>1, <4>4, <4>5 DEF SeenBytes
    <3>2. QED  BY <1>4, <3>1
  <2>7. Response!Finish
    BY <1>4, <2>4, <2>5, <2>6 DEF Response!Finish
  <2>8. QED  BY <2>7 DEF ResponseNext
<1>6. CASE ~(http'.state = "Read" /\ http'.queue = <<>>)
  <2>1. SeenConnection' = SeenConnection
    BY <1>2, <1>3, <1>6 DEF SeenConnection
  <2>2. QED  BY <1>4, <2>1 DEF Response!vars
<1>7. QED  BY <1>5, <1>6

LEMMA NextResponds ==
  ASSUME IInv, IInv', [Next]_vars
  PROVE  [ResponseNext]_(Response!vars)
<1>1. CASE FileHandlers \/ WriteHandlers \/ Timeout
  BY <1>1, HandlersRespond
<1>2. CASE Flush
  BY <1>2, FlushResponds
<1>3. CASE Disconnect \/ CloseConnection
  <2>1. /\ http.state \in {"Write", "Read", "Close"} /\ http' = Closing(http)
        /\ UNCHANGED <<request, wire>>
    BY <1>3 DEF Disconnect, CloseConnection
  <2>2. UNCHANGED <<Wanted, request.head_only, SeenResponse, SeenLength, SeenBytes>>
    BY <2>1, SameResponse
  <2>3. http'.state = "Dead"
    BY <2>1, ClosedTypes
  <2>4. SeenConnection # "dropped" /\ SeenConnection' = "dropped"
    BY <2>1, <2>3 DEF SeenConnection
  <2>5. Response!Drop
    BY <2>2, <2>4 DEF Response!Drop
  <2>6. QED  BY <2>5 DEF ResponseNext
<1>4. CASE Manager \/ TDLib \/ UNCHANGED vars
  <2>1. UNCHANGED <<request, wire, http>>
    BY <1>4 DEF Manager, Refuse, Admit, Resolve, ResolveError, TDLib, TdStart, TdProgress,
                TdComplete, TdStop, TdDelete, TdRestart, Report, vars
  <2>2. UNCHANGED <<Wanted, request.head_only, SeenResponse, SeenLength, SeenBytes>>
    BY <2>1, SameResponse
  <2>3. SeenConnection' = SeenConnection
    BY <2>1 DEF SeenConnection
  <2>4. QED  BY <2>2, <2>3 DEF Response!vars
<1>5. QED  BY <1>1, <1>2, <1>3, <1>4 DEF Next, Connection

(* A stream implements StreamedResponse: whatever TDLib, the disk, the     *)
(* timer and the client do, the client sees one response, of the length    *)
(* that its range selects, with those bytes in order, and gets the         *)
(* connection back only after the last of them.                            *)
THEOREM StreamImplementsResponse == Spec => ImplementsResponse
<1>1. Init => Response!Init
  BY ResponseInit
<1>2. IInv /\ IInv' /\ [Next]_vars => [ResponseNext]_(Response!vars)
  BY NextResponds
<1>3. QED
  BY <1>1, <1>2, AlwaysIInv, PTL
  DEF Spec, ImplementsResponse, Response!Spec, ResponseNext

===============================================================================
