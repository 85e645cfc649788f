------------------------- MODULE FileStreamConnection -------------------------
(***************************************************************************)
(* One streamed response: the actor FileStreamConnection of                *)
(* server/FileStream.cpp, the HTTP connection it writes to                 *)
(* (td/net/HttpConnectionBase) and the local file that TDLib downloads     *)
(* while the actor reads it.                                               *)
(*                                                                         *)
(* Two queues feed the actor and are interleaved arbitrarily: inbox, the   *)
(* closures sent by ClientManager and Client from their scheduler, in      *)
(* order; and flushed, the results of the write promises, in order.  A     *)
(* handler runs to completion, so a handler is one action; a call from the *)
(* actor to its connection runs at once (both live on one scheduler) and   *)
(* is part of the action.  read_in_flight_ is set and cleared inside       *)
(* try_read and is never seen by another handler, so it is not a variable. *)
(***************************************************************************)
EXTENDS FileStreamRoute, Sequences

CONSTANTS
  TotalSize,    \* the exact size TDLib reports for the file
  ChunkSize,    \* min(chunk_size, write_high_watermark)
  Requests,     \* the requests tried, each with its size limit and the faults it meets
  Initial,      \* what TDLib already has of the file: subset of {"nothing", "part", "all"}
  Generations,  \* how many times TDLib may download the file
  MaxInbox      \* bound on the closures waiting in inbox

ASSUME SizeAssumption == /\ TotalSize \in Nat \ {0} /\ TotalSize <= MaxInt64
                         /\ ChunkSize \in Nat \ {0}
ASSUME RequestAssumption ==
  Requests \subseteq
    [head_only : BOOLEAN, range : RangeHeaders, max_size : Nat,
     faults : SUBSET {"reject", "timeout", "disconnect", "stop", "resize", "io", "delete"}]
ASSUME EnvironmentAssumption ==
  /\ Initial \subseteq {"nothing", "part", "all"}
  /\ Generations \in Nat \ {0}
  /\ MaxInbox \in Nat \ {0}

VARIABLES
  request,   \* route_.head_only, route_.range, config_.max_size (0: no limit), and
             \* the faults that may happen while it is served
  stream,    \* the members of FileStreamConnection
  cursor,    \* its member cursor_
  inbox,     \* closures sent to the actor by ClientManager and Client
  flushed,   \* results of its write promises, not yet handled
  http,      \* the HTTP connection: state_ and the data not yet written
  wire,      \* what the HTTP client has received
  client,    \* how far ClientManager and Client are with this stream
  td,        \* the download as TDLib sees it
  disk       \* the files TDLib made: one per download of the file

vars == <<request, stream, cursor, inbox, flushed, http, wire, client, td, disk>>

-------------------------------------------------------------------------------
(* Files.  Download g writes a temporary file that is renamed when it is   *)
(* complete.  An open descriptor is the number of the file (0 when closed):*)
(* it survives the rename and the removal of the path.                     *)

NoPath == [gen |-> 0, place |-> "none"]
Paths  == {NoPath} \cup [gen : 1..Generations, place : {"temp", "final"}]

Exists(path) == path # NoPath /\ disk[path.gen].place = path.place

(* The local part of the file object that TDLib reports. *)
HasFile   == td.gen > 0 /\ disk[td.gen].place \in {"temp", "final"}
Completed == HasFile /\ disk[td.gen].place = "final"
LocalPath == IF HasFile THEN [gen |-> td.gen, place |-> disk[td.gen].place] ELSE NoPath
Prefix    == IF HasFile THEN disk[td.gen].have ELSE 0

FileMessage(type, size) ==
  [type |-> type, code |-> 0, size |-> size, path |-> LocalPath,
   prefix |-> Prefix, completed |-> Completed, active |-> td.active]

PlainMessage(type, code) ==
  [type |-> type, code |-> code, size |-> 0, path |-> NoPath,
   prefix |-> 0, completed |-> FALSE, active |-> FALSE]

Messages == [type : {"set_client", "on_file_ready", "on_file_progress", "on_file_error"},
             code : 0..599, size : Nat, path : Paths, prefix : 0..TotalSize,
             completed : BOOLEAN, active : BOOLEAN]

-------------------------------------------------------------------------------
(* The HTTP connection. *)

Items == [kind : {"headers", "error"}, offset : {0}, size : {0}, intact : {TRUE}]
         \cup [kind : {"data"}, offset : Nat, size : Nat, intact : BOOLEAN]

Headers   == [kind |-> "headers", offset |-> 0, size |-> 0, intact |-> TRUE]
ErrorBody == [kind |-> "error",   offset |-> 0, size |-> 0, intact |-> TRUE]
Chunk(offset, size, intact) ==
  [kind |-> "data", offset |-> offset, size |-> size, intact |-> intact]

Promises == [kind : {"headers", "data"}, ok : BOOLEAN]

(* write_next_with_promise: the data is queued; the closure sent to a      *)
(* connection that is gone is dropped and its promise fails.               *)
write_next_with_promise(h, item) ==
  IF h.state = "Write" THEN [h EXCEPT !.queue = Append(@, item)] ELSE h

Promised(h, f, kind) ==
  IF h.state = "Write" THEN f ELSE Append(f, [kind |-> kind, ok |-> FALSE])

(* fulfill_write_promises after item has been written: only data written   *)
(* with a promise has one, and write_error has failed those left.          *)
Fulfilled(h, f, item) ==
  IF h.state = "Write" THEN Append(f, [kind |-> item.kind, ok |-> TRUE]) ELSE f

(* fulfill_write_promises(error) in tear_down. *)
LostSilently(q) == <<>>
Lost(q) == [k \in 1..Len(q) |-> [kind |-> q[k].kind, ok |-> FALSE]]

(* What the client has received: exact says that its body is, so far, the  *)
(* bytes of the file from the start of the range on, in order.             *)
Received(w, item) ==
  CASE item.kind = "headers" -> [w EXCEPT !.responses = Append(@, "ok")]
    [] item.kind = "error"   -> [w EXCEPT !.responses = Append(@, "error")]
    [] item.kind = "data"    ->
         [w EXCEPT !.body  = @ + item.size,
                   !.exact = @ /\ item.intact
                               /\ item.offset = cursor.start_offset + w.body]

-------------------------------------------------------------------------------
(* The ways a handler ends.  s, c, h and f stand for stream, cursor, http  *)
(* and flushed as the statements before the call have left them.           *)

Return(s, c, h, f) == stream' = s /\ cursor' = c /\ http' = h /\ flushed' = f

(* Every end of the stream calls stop(), so tear_down is part of it: the   *)
(* file is closed, the path released, the slot and the listener given up   *)
(* (the arguments of those calls are members of stream).                   *)
Stop(s) == [s EXCEPT !.finished = TRUE, !.local_file = 0]

(* abort: write_error fails the pending promises, which reach no one, and  *)
(* closes the connection after one last attempt to write.                  *)
abort(s, c, h, f) ==
  Return(Stop(s), c, IF h.state = "Write" THEN [h EXCEPT !.state = "Close"] ELSE h, f)

(* fail: an error response, unless a response has begun. *)
FirstByteSent(s) == s.first_byte_sent
ResponseBegun(s) == s.headers_sent

fail(s, c, h, f) ==
  IF ResponseBegun(s) THEN abort(s, c, h, f)
  ELSE Return(Stop(s), c,
              IF h.state = "Write"
              THEN [state |-> "Read", queue |-> Append(h.queue, ErrorBody)]
              ELSE h, f)

finish(s, c, h, f) ==
  Return([Stop(s) EXCEPT !.completed_ok = TRUE], c,
         IF h.state = "Write" THEN [h EXCEPT !.state = "Read"] ELSE h, f)

-------------------------------------------------------------------------------
(* try_read: read one chunk from the local file and hand it to the         *)
(* connection.                                                             *)

(* pread of [offset, offset + size) of file g.  The bytes below have are   *)
(* there; what lies above may be missing (a short read), a hole, or a part *)
(* that arrived out of order.                                              *)
InPrefix(g, offset, size) == offset + size <= disk[g].have

ReadFailed(s, c, h, f, retry) ==
  IF s.download_completed THEN abort(s, c, h, f) ELSE Return(retry, c, h, f)

ReadChunk(s, c, h, f, size) ==
  LET g == IF s.local_file # 0 THEN s.local_file ELSE s.local_path.gen
  IN  \/ /\ s.local_file = 0 /\ ~Exists(s.local_path)
         /\ ReadFailed(s, c, h, f, s)
      \/ /\ s.local_file # 0 \/ Exists(s.local_path)
         /\ \/ \E intact \in IF InPrefix(g, c.next_offset, size) THEN {TRUE} ELSE BOOLEAN :
                 Return([s EXCEPT !.local_file = g, !.write_in_flight = TRUE,
                                  !.pending_offset = c.next_offset, !.pending_size = size],
                        c,
                        write_next_with_promise(h, Chunk(c.next_offset, size, intact)),
                        Promised(h, f, "data"))
            \/ /\ ~InPrefix(g, c.next_offset, size)
               /\ ReadFailed(s, c, h, f, [s EXCEPT !.local_file = 0])
            \/ /\ "io" \in request.faults
               /\ abort(s, c, h, f)

NeverBusy(s) == FALSE
Busy(s) == s.write_in_flight

try_read(s, c, h, f) ==
  LET size == next_read_size(c, ChunkSize)
  IN  \/ /\ Busy(s)
         /\ Return(s, c, h, f)
      \/ /\ ~Busy(s) /\ is_complete(c)
         /\ finish(s, c, h, f)
      \/ /\ ~Busy(s) /\ ~is_complete(c)
         /\ \/ /\ size = 0 \/ s.local_path = NoPath
               /\ Return(s, c, h, f)
            \/ /\ size > 0 /\ s.local_path # NoPath
               /\ ReadChunk(s, c, h, f, size)

-------------------------------------------------------------------------------
(* Handlers of the closures in inbox. *)

Receive(type) ==
  /\ ~stream.finished
  /\ inbox # <<>>
  /\ Head(inbox).type = type
  /\ inbox' = Tail(inbox)
  /\ UNCHANGED <<request, wire, client, td, disk>>

set_client ==
  /\ Receive("set_client")
  /\ Return([stream EXCEPT !.client = TRUE], cursor, http, flushed)

(* A new local path replaces the old one; the file is reopened there. *)
KeepFirstPath(s, path) ==
  IF s.local_path = NoPath THEN [s EXCEPT !.local_path = path] ELSE s
SwitchPath(s, path) ==
  IF path # NoPath /\ path # s.local_path
  THEN [s EXCEPT !.local_path = path, !.local_file = 0] ELSE s

on_file_ready ==
  /\ Receive("on_file_ready")
  /\ LET m     == Head(inbox)
         s     == [SwitchPath(stream, m.path) EXCEPT !.file_id = 1]
         sized == [cursor EXCEPT !.total_size = m.size]
         r     == parse_file_stream_range(request.range, m.size)
         c     == update_progress(set_range(sized, r.start, r.end), 0, m.prefix, m.completed)
         ready == [s EXCEPT !.download_completed = m.completed, !.headers_sent = TRUE]
         h     == write_next_with_promise(http, Headers)
         f     == Promised(http, flushed, "headers")
         large == request.max_size > 0 /\ m.size > request.max_size
     IN  \/ /\ large
            /\ fail(s, cursor, http, flushed)
         \/ /\ ~large
            /\ \/ /\ ~r.ok
                  /\ fail(s, sized, http, flushed)
               \/ /\ r.ok
                  /\ \/ /\ \/ ~ProgressOK(sized, 0, m.prefix)
                           \/ m.completed /\ c.contiguous_end < c.total_size
                        /\ fail(s, c, http, flushed)
                     \/ /\ ProgressOK(sized, 0, m.prefix)
                        /\ ~(m.completed /\ c.contiguous_end < c.total_size)
                        /\ IF request.head_only
                           THEN Return(ready, c, h, f)
                           ELSE try_read(ready, c, h, f)

on_file_progress ==
  /\ Receive("on_file_progress")
  /\ LET m    == Head(inbox)
         s    == SwitchPath(stream, m.path)
         c    == update_progress(cursor, 0, m.prefix, m.completed)
         done == stream.download_completed \/ m.completed
     IN  \/ /\ cursor.total_size < 0
            /\ Return(stream, cursor, http, flushed)
         \/ /\ cursor.total_size >= 0
            /\ \/ /\ m.size > 0 /\ m.size # cursor.total_size
                  /\ abort(stream, cursor, http, flushed)
               \/ /\ m.size = 0 \/ m.size = cursor.total_size
                  /\ \/ /\ \/ ~ProgressOK(cursor, 0, m.prefix)
                           \/ ~done /\ ~m.active
                           \/ done /\ c.contiguous_end < c.total_size
                        /\ abort(s, c, http, flushed)
                     \/ /\ ProgressOK(cursor, 0, m.prefix)
                        /\ done \/ m.active
                        /\ done => c.contiguous_end >= c.total_size
                        /\ try_read([s EXCEPT !.download_completed = done],
                                    c, http, flushed)

on_file_error ==
  /\ Receive("on_file_error")
  /\ fail(stream, cursor, http, flushed)

(* set_timeout_in arms one timer from start_up to the end of the stream;   *)
(* how far it has run is abstracted away.                                  *)
timeout_expired ==
  /\ ~stream.finished
  /\ fail(stream, cursor, http, flushed)
  /\ UNCHANGED <<request, inbox, wire, client, td, disk>>

-------------------------------------------------------------------------------
(* Handlers of the write promises. *)

Settle(kind) ==
  /\ ~stream.finished
  /\ flushed # <<>>
  /\ Head(flushed).kind = kind
  /\ UNCHANGED <<request, inbox, wire, client, td, disk>>

on_headers_flushed ==
  /\ Settle("headers")
  /\ \/ /\ ~Head(flushed).ok
        /\ abort(stream, cursor, http, Tail(flushed))
     \/ /\ Head(flushed).ok /\ request.head_only
        /\ Return(Stop(stream), cursor,
                  IF http.state = "Write" THEN [http EXCEPT !.state = "Read"] ELSE http,
                  Tail(flushed))
     \/ /\ Head(flushed).ok /\ ~request.head_only
        /\ Return(stream, cursor, http, Tail(flushed))

on_chunk_flushed ==
  /\ Settle("data")
  /\ LET s    == [stream EXCEPT !.write_in_flight = FALSE]
         idle == [s EXCEPT !.pending_offset = -1, !.pending_size = 0]
         f    == Tail(flushed)
     IN  \/ /\ ~Head(flushed).ok
            /\ abort(s, cursor, http, f)
         \/ /\ Head(flushed).ok
            /\ ~CommitOK(cursor, stream.pending_offset, stream.pending_size)
            /\ abort(idle, cursor, http, f)
         \/ /\ Head(flushed).ok
            /\ CommitOK(cursor, stream.pending_offset, stream.pending_size)
            /\ try_read([idle EXCEPT !.first_byte_sent = TRUE],
                        commit(cursor, stream.pending_offset, stream.pending_size),
                        http, f)

-------------------------------------------------------------------------------
(* The HTTP connection: fulfill_write_promises after a successful write,   *)
(* the loss of the peer, and the end of a closing connection.              *)

Flush ==
  /\ http.state # "Dead" /\ http.queue # <<>>
  /\ http' = [http EXCEPT !.queue = Tail(@)]
  /\ wire' = Received(wire, Head(http.queue))
  /\ flushed' = Fulfilled(http, flushed, Head(http.queue))
  /\ UNCHANGED <<request, stream, cursor, inbox, client, td, disk>>

Closing(h) == [state |-> "Dead", queue |-> <<>>]

Disconnect ==
  /\ "disconnect" \in request.faults
  /\ http.state \in {"Write", "Read"}
  /\ http' = Closing(http)
  /\ flushed' = IF http.state = "Write" THEN flushed \o Lost(http.queue) ELSE flushed
  /\ UNCHANGED <<request, stream, cursor, inbox, wire, client, td, disk>>

CloseConnection ==
  /\ http.state = "Close"
  /\ http' = Closing(http)
  /\ UNCHANGED <<request, stream, cursor, inbox, flushed, wire, client, td, disk>>

-------------------------------------------------------------------------------
(* The environment: ClientManager and Client (modelled in full by          *)
(* FileStreamSlots and FileStreamListeners) and TDLib.                     *)

Env == ~stream.finished /\ Len(inbox) < MaxInbox

(* send_file_stream: the stream is refused, or gets its client. *)
Refuse ==
  /\ Env /\ client = "new" /\ "reject" \in request.faults
  /\ client' = "refused"
  /\ inbox' = Append(inbox, PlainMessage("on_file_error", 429))
  /\ UNCHANGED <<request, stream, cursor, flushed, http, wire, td, disk>>

Admit ==
  /\ Env /\ client = "new"
  /\ client' = "admitted"
  /\ inbox' = Append(inbox, PlainMessage("set_client", 0))
  /\ UNCHANGED <<request, stream, cursor, flushed, http, wire, td, disk>>

(* The answer to getRemoteFile: the stream becomes a listener and is told  *)
(* what TDLib has; downloadFile is sent.                                   *)
Resolve ==
  /\ Env /\ client = "admitted"
  /\ client' = "resolved"
  /\ inbox' = Append(inbox, FileMessage("on_file_ready", TotalSize))
  /\ UNCHANGED <<request, stream, cursor, flushed, http, wire, td, disk>>

ResolveError ==
  /\ Env /\ client = "admitted" /\ "reject" \in request.faults
  /\ client' = "refused"
  /\ inbox' = Append(inbox, PlainMessage("on_file_error", 400))
  /\ UNCHANGED <<request, stream, cursor, flushed, http, wire, td, disk>>

(* on_update_file: a listener is told the new state of the file; the size  *)
(* of the file object is 0 when TDLib does not know it.                    *)
ReportedSizes == {TotalSize} \cup (IF "resize" \in request.faults THEN {0, TotalSize + 1} ELSE {})

Report ==
  /\ IF client \in {"resolved", "listening"}
     THEN \E size \in ReportedSizes :
            inbox' = Append(inbox, FileMessage("on_file_progress", size)')
     ELSE inbox' = inbox
  /\ UNCHANGED <<request, stream, cursor, flushed, http, wire>>

(* downloadFile: nothing to do when the file is complete or on its way. *)
TdStart ==
  /\ Env /\ client = "resolved"
  /\ client' = "listening"
  /\ \/ Completed /\ UNCHANGED <<td, disk>>
     \/ /\ ~Completed /\ HasFile
        /\ td' = [td EXCEPT !.active = TRUE]
        /\ UNCHANGED disk
     \/ /\ ~HasFile /\ td.gen < Generations
        /\ td' = [gen |-> td.gen + 1, active |-> TRUE]
        /\ disk' = [disk EXCEPT ![td.gen + 1] = [place |-> "temp", have |-> 0]]
  /\ Report

TdProgress ==
  /\ Env /\ td.active
  /\ \E k \in (Prefix + 1)..TotalSize : disk' = [disk EXCEPT ![td.gen].have = k]
  /\ UNCHANGED <<client, td>>
  /\ Report

TdComplete ==
  /\ Env /\ td.active /\ Prefix = TotalSize
  /\ td' = [td EXCEPT !.active = FALSE]
  /\ disk' = [disk EXCEPT ![td.gen].place = "final"]
  /\ UNCHANGED client
  /\ Report

(* The download fails or is cancelled. *)
TdStop ==
  /\ Env /\ td.active /\ "stop" \in request.faults
  /\ td' = [td EXCEPT !.active = FALSE]
  /\ UNCHANGED <<client, disk>>
  /\ Report

(* deleteFile (asked for by another stream of the file) or the loss of the *)
(* file to the workdir cleanup, and the download that follows.             *)
TdDelete ==
  /\ Env /\ HasFile /\ td.gen < Generations /\ "delete" \in request.faults
  /\ td' = [td EXCEPT !.active = FALSE]
  /\ disk' = [disk EXCEPT ![td.gen].place = "lost"]
  /\ UNCHANGED client
  /\ Report

TdRestart ==
  /\ Env /\ ~HasFile /\ td.gen \in 1..(Generations - 1) /\ client = "listening"
  /\ td' = [gen |-> td.gen + 1, active |-> TRUE]
  /\ disk' = [disk EXCEPT ![td.gen + 1] = [place |-> "temp", have |-> 0]]
  /\ UNCHANGED client
  /\ Report

-------------------------------------------------------------------------------
StreamInit == [client |-> FALSE, file_id |-> 0, local_path |-> NoPath, local_file |-> 0,
               headers_sent |-> FALSE, write_in_flight |-> FALSE,
               download_completed |-> FALSE, first_byte_sent |-> FALSE,
               completed_ok |-> FALSE, finished |-> FALSE,
               pending_offset |-> -1, pending_size |-> 0]

NoFile == [place |-> "none", have |-> 0]

(* TDLib may hold nothing of the file, a part of it (with a download for   *)
(* another consumer running or not), or all of it.                         *)
TdInit ==
  \/ /\ "nothing" \in Initial
     /\ td = [gen |-> 0, active |-> FALSE]
     /\ disk = [g \in 1..Generations |-> NoFile]
  \/ /\ "part" \in Initial
     /\ \E active \in BOOLEAN : td = [gen |-> 1, active |-> active]
     /\ \E k \in 0..TotalSize :
          disk = [g \in 1..Generations |->
                    IF g = 1 THEN [place |-> "temp", have |-> k] ELSE NoFile]
  \/ /\ "all" \in Initial
     /\ td = [gen |-> 1, active |-> FALSE]
     /\ disk = [g \in 1..Generations |->
                  IF g = 1 THEN [place |-> "final", have |-> TotalSize] ELSE NoFile]

Init ==
  /\ request \in Requests
  /\ stream = StreamInit
  /\ cursor = FreshCursor
  /\ inbox = <<>>
  /\ flushed = <<>>
  /\ http = [state |-> "Write", queue |-> <<>>]
  /\ wire = [responses |-> <<>>, body |-> 0, exact |-> TRUE]
  /\ client = "new"
  /\ TdInit

FileHandlers  == set_client \/ on_file_ready \/ on_file_progress \/ on_file_error
WriteHandlers == on_headers_flushed \/ on_chunk_flushed
Timeout    == "timeout" \in request.faults /\ timeout_expired
Connection == Flush \/ Disconnect \/ CloseConnection
Manager    == Refuse \/ Admit \/ Resolve \/ ResolveError
TDLib      == TdStart \/ TdProgress \/ TdComplete \/ TdStop
              \/ TdDelete \/ TdRestart

Next == FileHandlers \/ WriteHandlers \/ Timeout \/ Connection \/ Manager \/ TDLib

(* Fairness: an actor with a message runs (its mailbox is one queue, so    *)
(* neither source starves the other), and so do ClientManager and Client;  *)
(* TDLib keeps downloading; the client keeps reading (or, where            *)
(* "disconnect" is a fault, goes away).  The timer has no fairness.        *)
Spec == Init /\ [][Next]_vars
FairSpec == /\ Spec /\ WF_vars(FileHandlers) /\ WF_vars(WriteHandlers)
            /\ WF_vars(Flush)
            /\ WF_vars(Admit) /\ WF_vars(Resolve)
            /\ WF_vars(TdStart) /\ WF_vars(TdProgress) /\ WF_vars(TdComplete)

-------------------------------------------------------------------------------
(* Properties. *)

Streams == [client : BOOLEAN, file_id : 0..1, local_path : Paths, local_file : 0..Generations,
            headers_sent : BOOLEAN, write_in_flight : BOOLEAN,
            download_completed : BOOLEAN, first_byte_sent : BOOLEAN,
            completed_ok : BOOLEAN, finished : BOOLEAN,
            pending_offset : Int, pending_size : Int]

(* Every variable has its type. *)
TypeOK ==
  /\ request \in Requests
  /\ stream \in Streams
  /\ cursor \in Cursor
  /\ inbox \in Seq(Messages)
  /\ flushed \in Seq(Promises)
  /\ http \in [state : {"Write", "Read", "Close", "Dead"}, queue : Seq(Items)]
  /\ wire \in [responses : Seq({"ok", "error"}), body : Nat, exact : BOOLEAN]
  /\ client \in {"new", "refused", "admitted", "resolved", "listening"}
  /\ td \in [gen : 0..Generations, active : BOOLEAN]
  /\ disk \in [1..Generations ->
                 [place : {"none", "temp", "final", "lost"}, have : 0..TotalSize]]

(* The body received is always the bytes of the file from the start of the *)
(* range on: nothing skipped, repeated, or read past what TDLib has        *)
(* written to the file that is open.                                       *)
OnlyFileBytes == wire.exact /\ \A k \in 1..Len(http.queue) : http.queue[k].intact

(* So it is as long as the file is not deleted under the stream. *)
KeptFileBytes == "delete" \notin request.faults => OnlyFileBytes

(* Every byte counted by next_offset has been received: a chunk is         *)
(* committed only after the connection has flushed it.                     *)
CommittedAreReceived ==
  cursor.total_size >= 0 => cursor.next_offset - cursor.start_offset <= wire.body

(* At most one chunk waits in the connection, and the commit that follows  *)
(* its flush cannot fail: the branch for an out-of-order block is dead.    *)
OneChunkInFlight ==
  /\ \A j, k \in 1..Len(http.queue) :
       http.queue[j].kind = "data" /\ http.queue[k].kind = "data" => j = k
  /\ stream.write_in_flight /\ ~stream.finished =>
       CommitOK(cursor, stream.pending_offset, stream.pending_size)

(* The bookkeeping of the cursor and of the write in flight is exact:      *)
(* types, CommittedAreReceived and OneChunkInFlight.                       *)
Consistent == TypeOK /\ CommittedAreReceived /\ OneChunkInFlight

(* The HTTP client's view of the response, which implements                *)
(* StreamedResponse: whatever the interleaving and the fault, the response *)
(* begins at most once, only for a range that selects a byte, the length   *)
(* it promises is the one that is sent, and the connection is handed back  *)
(* only after the last byte; every other end closes it.  The body that a   *)
(* HEAD request may get is left out here: see HeadHasNoBody.               *)
Wanted ==
  IF request.range.unit = "none" THEN 0..(TotalSize - 1)
  ELSE IF WellFormed(request.range) THEN Selected(request.range, TotalSize) ELSE {}

SeenResponse ==
  CASE wire.responses = <<>> -> "none"
    [] wire.responses = <<"ok">> -> "ok"
    [] wire.responses = <<"error">> -> "error"
    [] OTHER -> "several"

SeenLength ==
  IF wire.responses = <<"ok">> THEN cursor.end_offset - cursor.start_offset + 1 ELSE 0

SeenBytes ==
  IF request.head_only THEN {}
  ELSE cursor.start_offset..(cursor.start_offset + wire.body - 1)

SeenConnection ==
  CASE http.state = "Dead" -> "dropped"
    [] http.state = "Read" /\ http.queue = <<>> -> "idle"
    [] OTHER -> "busy"

Response == INSTANCE StreamedResponse WITH
  want     <- Wanted,       head   <- request.head_only,
  response <- SeenResponse, length <- SeenLength,
  got      <- SeenBytes,    conn   <- SeenConnection

ImplementsResponse == Response!Spec

(* HEAD is answered with headers only. *)
HeadHasNoBody == request.head_only => wire.body = 0

(* No failure needs the timer: whatever TDLib, the disk and the client do, *)
(* if TDLib keeps downloading and the connection keeps writing or fails,   *)
(* the stream ends by itself, since every failure is reported to it.       *)
EndsWithoutTimer == "timeout" \notin request.faults => <>stream.finished

(* No lost wake-up: when nothing fails and no timer fires, every stream    *)
(* ends by itself with a whole response.  A read that found the file moved *)
(* or short waits for an update that does come.                            *)
Served ==
  request.faults = {} => <>(stream.finished /\ http.state = "Read" /\ http.queue = <<>>)
===============================================================================
