---------------------- MODULE FileStreamListenersProofs ----------------------
(***************************************************************************)
(* Proofs about FileStreamListeners, for any streams and getFile queries   *)
(* of the file, any of them with the No-Cache header, and any faults.  The *)
(* properties speak of the states in which nothing is under way; the       *)
(* invariants say what the messages under way have to look like.           *)
(***************************************************************************)
EXTENDS FileStreamListeners, SequenceTheorems, TLAPS

MailType == [type : {"set_client", "on_file_ready", "on_file_progress", "on_file_error"},
             snap : Snapshots]
Who == Streams \cup Queries \cup {Nobody, "stream", "query"}
RequestType == [type : {"getRemoteFile", "downloadFile", "cancelDownloadFile", "deleteFile"},
                who : Who]
ResultType == [type : {"remoteFile", "remoteError", "file", "downloadError", "updateFile"},
               who : Who, snap : Snapshots]

(* The end of the client: as long as it has not come, an open stream is    *)
(* one of active_file_streams_, and afterwards it is about to be told.     *)
Ended == {"closed", "closed_unauthorized"}
Told(s) == \E k \in 1..Len(mail[s]) : mail[s][k].type = "on_file_error"

EndInv ==
  /\ \A s \in Streams : Open(s) /\ state \notin Ended => s \in active
  /\ \A r \in removals : st[r.stream].phase = "closed"
  /\ state = "closed" => \A s \in Streams : Open(s) => Told(s)
  /\ "logged_out" \notin Faults => state # "closed_unauthorized"

(* Before the authorization nothing has been asked of TDLib. *)
BeforeReady ==
  /\ ~WasAuthorized => /\ requests = <<>> /\ results = <<>>
                       /\ listeners = {} /\ waiting = {} /\ ~td.active
  /\ WasAuthorized => pending = <<>>

(* Every request for the file is answered once, and nobody asks twice. *)
AskTypes == {"getRemoteFile"}
AnswerTypes == {"remoteFile", "remoteError"}
Names(q, types, w) == \E k \in 1..Len(q) : q[k].type \in types /\ q[k].who = w
NamesOnce(q, types) ==
  \A j, k \in 1..Len(q) :
    q[j].type \in types /\ q[k].type \in types /\ q[j].who = q[k].who => j = k

Pends(s) == \E k \in 1..Len(pending) : pending[k] = s
Asks(w) == Names(requests, AskTypes, w)
Answered(w) == Names(results, AnswerTypes, w)
Asked(w) == Pends(w) \/ Asks(w) \/ Answered(w)

PendsOnce == \A j, k \in 1..Len(pending) : pending[j] = pending[k] => j = k

TokenInv ==
  /\ PendsOnce /\ NamesOnce(requests, AskTypes) /\ NamesOnce(results, AnswerTypes)
  /\ \A w \in Who : ~(Asks(w) /\ Answered(w))
  /\ \A s \in Streams : Asked(s) => st[s].phase # "new"
  /\ \A q \in Queries : Asks(q) \/ Answered(q) => answers[q] = "asked" /\ q \notin waiting
  /\ \A q \in waiting : answers[q] = "asked"

(* The life of a stream.  One that waits for the answer to its             *)
(* getRemoteFile has been told nothing; a listener is told of the file     *)
(* before anything else; one that ends has itself removed, once.           *)
Introduced(s) ==
  /\ st[s].ready => st[s].client
  /\ Open(s) /\ ~st[s].client => 1 \in 1..Len(mail[s]) /\ mail[s][1].type = "set_client"
Unborn(s) ==
  st[s].phase = "new" =>
    /\ mail[s] = <<>> /\ ~st[s].client /\ ~st[s].ready
    /\ s \notin active /\ s \notin listeners
NotYetTold(s) ==
  Asked(s) => /\ Open(s) /\ ~st[s].ready /\ s \notin listeners
              /\ \A k \in 1..Len(mail[s]) : mail[s][k].type = "set_client"
FileFirst(s) ==
  s \in listeners /\ Open(s) /\ ~st[s].ready =>
    \E k \in 1..Len(mail[s]) :
      /\ mail[s][k].type = "on_file_ready"
      /\ \A j \in 1..(k - 1) : mail[s][j].type = "set_client"
Removed(s) ==
  st[s].phase = "closed" =>
    /\ s \in active => \E r \in removals : r.stream = s
    /\ s \in listeners => \E r \in removals : r.stream = s /\ r.file
Life(s) == Introduced(s) /\ Unborn(s) /\ NotYetTold(s) /\ FileFirst(s) /\ Removed(s)
RemovedOnce == \A r, t \in removals : r.stream = t.stream => r = t
PendingActive == \A k \in 1..Len(pending) : pending[k] \in active

Lives == (\A s \in Streams : Life(s)) /\ RemovedOnce /\ PendingActive
LifeInv == Faults \cap EarlyEnds = {} => Lives

(* The requests q on their way to TDLib.  They give up the download or     *)
(* start it; what comes last counts.                                       *)
Gives(r) == r.type \in {"cancelDownloadFile", "deleteFile"}
Starts(r) == r.type = "downloadFile"
ForQuery(r) == r.who = "query"

Deletes(q) == \E k \in 1..Len(q) : q[k].type = "deleteFile"
NoGives(q) == \A k \in 1..Len(q) : ~Gives(q[k])
HasStart(q) == \E k \in 1..Len(q) : Starts(q[k])
StartsLast(q) == \E k \in 1..Len(q) : Starts(q[k]) /\ \A j \in 1..Len(q) : j > k => ~Gives(q[j])
GivesLast(q) == \E k \in 1..Len(q) : Gives(q[k]) /\ \A j \in 1..Len(q) : j > k => ~Starts(q[j])
HasQuery(q) == \E k \in 1..Len(q) : Starts(q[k]) /\ ForQuery(q[k])
QueryLast(q) == \A k \in 1..Len(q) : Starts(q[k]) /\ ForQuery(q[k]) =>
                  \A j \in 1..Len(q) : j > k => ~Gives(q[j])

(* The results q on their way to Client. *)
Reports(r) == r.type \in {"file", "updateFile"}
Stopped(r) == Reports(r) /\ ~r.snap.active /\ ~r.snap.completed
StartedQuery(r) == r.type = "file" /\ ForQuery(r)
NoFault(r) == r.type \notin {"remoteError", "downloadError"} /\ ~r.snap.big

AllClean(q) == \A k \in 1..Len(q) : NoFault(q[k])
SomeComplete(q) == \E k \in 1..Len(q) : q[k].snap.completed
AllComplete(q) == \A k \in 1..Len(q) : q[k].snap.completed
OnceComplete(q) == \A k \in 1..Len(q) : q[k].snap.completed =>
                     \A j \in 1..Len(q) : j > k => q[j].snap.completed
ReportsEnd(q) == \E k \in 1..Len(q) : Reports(q[k]) /\ q[k].snap.completed
NoStop(q) == \A k \in 1..Len(q) : ~Stopped(q[k])
HasAnswer(q) == \E k \in 1..Len(q) : StartedQuery(q[k])
NoStopAfter(q) == \A k \in 1..Len(q) : StartedQuery(q[k]) =>
                    \A j \in 1..Len(q) : j >= k => ~Stopped(q[j])

(* While TDLib does not fail, what is on its way says so. *)
NoTdFault == Faults \cap TdFaults = {}
Clean == ~td.big /\ ~(td.active /\ td.completed) /\ AllClean(results)

(* A download is on for whoever listens or waits, or will be once TDLib    *)
(* has handled its requests; a query that waits will hear of its end.      *)
Runs == td.active \/ td.completed
Fed == (Runs /\ NoGives(requests)) \/ StartsLast(requests)
EndReported == td.active \/ HasStart(requests) \/ ReportsEnd(results)
FedInv ==
  /\ listeners # {} \/ waiting # {} => Fed
  /\ waiting # {} => EndReported

(* Why no query fails.  Before the first one is answered: behind its       *)
(* downloadFile nobody stops the download, nor is a stop reported behind   *)
(* the answer.  Afterwards the file is complete, unless it is deleted.     *)
Deleted == \E s \in NoCache : st[s].served
SomeOk == \E q \in Queries : answers[q] = "ok"

DeletesKnown ==
  /\ \A s \in Streams : st[s].served => st[s].phase = "closed"
  /\ \A r \in removals : r.delete => r.stream \in NoCache /\ st[r.stream].served
  /\ Deletes(requests) => Deleted
StaysComplete ==
  /\ OnceComplete(results)
  /\ SomeComplete(results) => td.completed
  /\ SomeOk => td.completed /\ AllComplete(results)
AskedByQuery ==
  /\ QueryLast(requests) /\ NoStopAfter(results)
  /\ HasQuery(requests) \/ HasAnswer(results) \/ started => waiting # {}
  /\ HasAnswer(results) \/ started => Runs /\ NoGives(requests)
  /\ started => NoStop(results)
HarmInv ==
  /\ ~Deleted => StaysComplete
  /\ ~SomeOk => AskedByQuery
  /\ ~(Deleted /\ SomeOk) => \A q \in Queries : answers[q] # "failed"

(* A download that runs or will run is wanted, or is about to be given up. *)
Wanted == listeners # {} \/ waiting # {} \/ GivesLast(requests)
CancelInv == ~Deleted /\ ~td.completed /\ (td.active \/ HasStart(requests)) => Wanted

Working == NoTdFault /\ ~Closing
DownloadInv == (NoTdFault => Clean) /\ (Working => FedInv /\ HarmInv /\ CancelInv)

-------------------------------------------------------------------------------
(* Sequences that grow at the end and shrink at the front. *)
LEMMA Appending ==
  ASSUME NEW S, NEW q \in Seq(S), NEW x \in S
  PROVE  /\ Append(q, x) \in Seq(S)
         /\ Len(q) \in Nat /\ Len(Append(q, x)) = Len(q) + 1
         /\ \A k \in 1..Len(q) : Append(q, x)[k] = q[k]
         /\ Append(q, x)[Len(q) + 1] = x
         /\ \A k \in 1..Len(Append(q, x)) : k \in 1..Len(q) \/ k = Len(q) + 1
<1>1. Append(q, x) \in Seq(S) /\ Len(q) \in Nat /\ Len(Append(q, x)) = Len(q) + 1
  BY AppendProperties, LenProperties
<1>2. \A k \in 1..Len(q) : Append(q, x)[k] = q[k]
  BY AppendProperties
<1>3. Append(q, x)[Len(q) + 1] = x
  BY AppendProperties
<1> QED
  BY <1>1, <1>2, <1>3

LEMMA Taking ==
  ASSUME NEW S, NEW q \in Seq(S), q # <<>>
  PROVE  /\ Len(q) \in Nat \ {0} /\ Head(q) = q[1] /\ Head(q) \in S /\ 1 \in 1..Len(q)
         /\ Tail(q) \in Seq(S) /\ Len(Tail(q)) = Len(q) - 1
         /\ \A k \in 1..Len(Tail(q)) : k + 1 \in 1..Len(q) /\ Tail(q)[k] = q[k + 1]
         /\ \A k \in 1..Len(q) : k # 1 => k - 1 \in 1..Len(Tail(q)) /\ Tail(q)[k - 1] = q[k]
<1>1. Len(q) \in Nat \ {0} /\ 1 \in 1..Len(q)
  BY EmptySeq, LenProperties
<1>2. Head(q) = q[1] /\ Tail(q) \in Seq(S) /\ Len(Tail(q)) = Len(q) - 1
  BY HeadTailProperties
<1>3. Head(q) \in S
  BY <1>1, <1>2, ElementOfSeq
<1>4. \A k \in 1..(Len(q) - 1) : Tail(q)[k] = q[k + 1]
  BY HeadTailProperties
<1>5. \A k \in 1..Len(Tail(q)) : k + 1 \in 1..Len(q) /\ Tail(q)[k] = q[k + 1]
  BY <1>1, <1>2, <1>4
<1>6. \A k \in 1..Len(q) : k # 1 => k - 1 \in 1..Len(Tail(q)) /\ Tail(q)[k - 1] = q[k]
  <2> SUFFICES ASSUME NEW k \in 1..Len(q), k # 1
               PROVE  k - 1 \in 1..Len(Tail(q)) /\ Tail(q)[k - 1] = q[k]
    OBVIOUS
  <2>1. k - 1 \in 1..Len(Tail(q)) /\ (k - 1) + 1 = k
    BY <1>1, <1>2
  <2> QED
    BY <1>5, <2>1
<1> QED
  BY <1>1, <1>2, <1>3, <1>5, <1>6

-------------------------------------------------------------------------------
(* Types, part by part. *)
StreamType == [phase : {"new", "open", "closed"}, client : BOOLEAN, ready : BOOLEAN,
               completed : BOOLEAN, served : BOOLEAN]
RemovalType == [stream : Streams, file : BOOLEAN, delete : BOOLEAN]

StreamTypes ==
  /\ st \in [Streams -> StreamType] /\ mail \in [Streams -> Seq(MailType)]
  /\ removals \subseteq RemovalType
ClientTypes ==
  /\ state \in {"authorizing", "ready", "closing", "closed", "closed_unauthorized"}
  /\ active \subseteq Streams /\ listeners \subseteq Streams /\ pending \in Seq(Streams)
  /\ waiting \subseteq Queries /\ started \in BOOLEAN
  /\ answers \in [Queries -> {"new", "asked", "ok", "failed"}]
TdTypes ==
  requests \in Seq(RequestType) /\ results \in Seq(ResultType) /\ td \in Snapshots

LEMMA TypesAre == TypeOK <=> scenario \in Scenarios /\ StreamTypes /\ ClientTypes /\ TdTypes
  BY DEF TypeOK, StreamTypes, ClientTypes, TdTypes, StreamType, MailType, RemovalType, Who,
         RequestType, ResultType

LEMMA NoSnapType == NoSnap \in Snapshots
  BY DEF NoSnap, Snapshots

LEMMA MailTypes ==
  ASSUME NEW snap \in Snapshots
  PROVE  \A type \in {"set_client", "on_file_ready", "on_file_progress", "on_file_error"} :
           Message(type, snap) \in MailType
  BY DEF Message, MailType

LEMMA ClosedType ==
  ASSUME StreamTypes, NEW s \in Streams, NEW ok \in BOOLEAN, Close(s, ok)
  PROVE  st' \in [Streams -> StreamType] /\ removals' \subseteq RemovalType
<1>1. st \in [Streams -> StreamType] /\ st[s] \in StreamType /\ removals \subseteq RemovalType
  BY DEF StreamTypes
<1>2. st' = [st EXCEPT ![s] = [st[s] EXCEPT !.phase = "closed", !.served = ok]]
  BY <1>1 DEF Close
<1>3. [st[s] EXCEPT !.phase = "closed", !.served = ok] \in StreamType
  BY <1>1 DEF StreamType
<1>4. st' \in [Streams -> StreamType]
  BY <1>1, <1>2, <1>3
<1>5. Removal(s, ok) \in RemovalType
  <2>1. st[s].ready \in BOOLEAN
    BY <1>1 DEF StreamType
  <2> QED
    BY <2>1 DEF Removal, RemovalType
<1>6. removals' = removals \/ removals' = removals \cup {Removal(s, ok)}
  BY DEF Close
<1> QED
  BY <1>1, <1>4, <1>5, <1>6

(* The steps of a stream. *)
LEMMA StreamTyped ==
  ASSUME StreamTypes, NEW s \in Streams, StreamStep(s) \/ EndStream(s)
  PROVE  StreamTypes'
<1>1. st \in [Streams -> StreamType] /\ st[s] \in StreamType /\ mail \in [Streams -> Seq(MailType)]
  BY DEF StreamTypes
<1>2. ASSUME NEW type, TakeMail(s, type)
      PROVE  mail' \in [Streams -> Seq(MailType)] /\ mail[s] # <<>> /\ Head(mail[s]).snap \in Snapshots
  <2>1. mail[s] \in Seq(MailType) /\ mail[s] # <<>> /\ mail' = [mail EXCEPT ![s] = Tail(mail[s])]
    BY <1>1, <1>2 DEF TakeMail
  <2>2. Tail(mail[s]) \in Seq(MailType) /\ Head(mail[s]) \in MailType
    BY <2>1, Taking
  <2> QED
    BY <1>1, <2>1, <2>2 DEF MailType
<1>3. CASE set_client(s)
  <2>1. st' = [st EXCEPT ![s] = [st[s] EXCEPT !.client = TRUE]]
    BY <1>1, <1>3 DEF set_client
  <2>2. [st[s] EXCEPT !.client = TRUE] \in StreamType
    BY <1>1 DEF StreamType
  <2> QED
    BY <1>1, <1>2, <1>3, <2>1, <2>2 DEF set_client, StreamTypes
<1>4. CASE on_file_ready(s)
  <2>1. PICK snap : snap = Head(mail[s]).snap
    OBVIOUS
  <2>2. /\ st' = [st EXCEPT ![s] = [st[s] EXCEPT !.ready = TRUE, !.completed = snap.completed]]
        /\ snap \in Snapshots
    BY <1>1, <1>2, <1>4, <2>1 DEF on_file_ready
  <2>3. snap.completed \in BOOLEAN
    BY <2>2 DEF Snapshots
  <2>4. [st[s] EXCEPT !.ready = TRUE, !.completed = snap.completed] \in StreamType
    BY <1>1, <2>3 DEF StreamType
  <2> QED
    BY <1>1, <1>2, <1>4, <2>2, <2>4 DEF on_file_ready, StreamTypes
<1>5. CASE on_file_progress(s)
  <2>1. CASE Close(s, FALSE)
    BY <1>2, <1>5, <2>1, ClosedType DEF on_file_progress, StreamTypes
  <2>2. CASE ~Close(s, FALSE)
    <3>1. PICK done : done = (st[s].completed \/ Head(mail[s]).snap.completed)
      OBVIOUS
    <3>2. st' = [st EXCEPT ![s] = [st[s] EXCEPT !.completed = done]] /\ removals' = removals
      BY <1>1, <1>5, <2>2, <3>1 DEF on_file_progress
    <3>3. [st[s] EXCEPT !.completed = done] \in StreamType
      BY <1>1, <3>1 DEF StreamType
    <3> QED
      BY <1>1, <1>2, <1>5, <3>2, <3>3 DEF on_file_progress, StreamTypes
  <2> QED
    BY <2>1, <2>2
<1>6. CASE on_file_error(s)
  BY <1>2, <1>6, ClosedType DEF on_file_error, StreamTypes
<1>7. CASE EndStream(s)
  BY <1>7, ClosedType DEF EndStream, StreamTypes
<1> QED
  BY <1>3, <1>4, <1>5, <1>6, <1>7 DEF StreamStep


(* What is sent to a stream, to several, and to TDLib. *)
LEMMA SendTyped ==
  ASSUME NEW m \in [Streams -> Seq(MailType)], NEW s \in Streams, NEW snap \in Snapshots,
         NEW type \in {"set_client", "on_file_ready", "on_file_progress", "on_file_error"}
  PROVE  /\ Send(m, s, type, snap) \in [Streams -> Seq(MailType)]
         /\ Send(m, s, type, snap)[s] = Append(m[s], Message(type, snap))
         /\ \A t \in Streams : t # s => Send(m, s, type, snap)[t] = m[t]
<1>1. Append(m[s], Message(type, snap)) \in Seq(MailType)
  BY MailTypes, Appending
<1>2. Send(m, s, type, snap) = [m EXCEPT ![s] = Append(m[s], Message(type, snap))]
  BY DEF Send
<1> QED
  BY <1>1, <1>2

(* The same for a message without a snapshot, as one mailbox to name. *)
LEMMA SendPlain ==
  ASSUME NEW m \in [Streams -> Seq(MailType)], NEW s \in Streams,
         NEW type \in {"set_client", "on_file_ready", "on_file_progress", "on_file_error"}
  PROVE  \E n \in [Streams -> Seq(MailType)] :
            /\ n = Send(m, s, type, NoSnap)
            /\ n[s] = Append(m[s], Message(type, NoSnap))
            /\ \A t \in Streams : t # s => n[t] = m[t]
<1>1. PICK snap \in Snapshots : snap = NoSnap
  BY NoSnapType
<1>2. /\ Send(m, s, type, snap) \in [Streams -> Seq(MailType)]
      /\ Send(m, s, type, snap)[s] = Append(m[s], Message(type, snap))
      /\ \A t \in Streams : t # s => Send(m, s, type, snap)[t] = m[t]
  BY SendTyped
<1> QED
  BY <1>1, <1>2

Tells(m, n, who, type, snap) ==
  n = [s \in Streams |-> IF s \in who THEN Append(m[s], Message(type, snap)) ELSE m[s]]

LEMMA TellsTyped ==
  ASSUME NEW m \in [Streams -> Seq(MailType)], NEW n, NEW who, NEW snap \in Snapshots,
         NEW type \in {"on_file_progress", "on_file_error"}, Tells(m, n, who, type, snap)
  PROVE  /\ n \in [Streams -> Seq(MailType)]
         /\ \A s \in Streams :
              n[s] = IF s \in who THEN Append(m[s], Message(type, snap)) ELSE m[s]
<1>1. \A s \in Streams : Append(m[s], Message(type, snap)) \in Seq(MailType)
  BY MailTypes, Appending
<1> QED
  BY <1>1 DEF Tells

LEMMA RequestTypes ==
  ASSUME NEW who \in Who
  PROVE  \A type \in {"getRemoteFile", "downloadFile", "cancelDownloadFile", "deleteFile"} :
           Request(type, who) \in RequestType
  BY DEF Request, RequestType

LEMMA RequestIs == \A type, who : Request(type, who).type = type /\ Request(type, who).who = who
  BY DEF Request

LEMMA WhoAre == Nobody \in Who /\ "stream" \in Who /\ "query" \in Who
                /\ Streams \subseteq Who /\ Queries \subseteq Who
  BY DEF Who

LEMMA Requested ==
  ASSUME TdTypes, NEW who \in Who,
         NEW type \in {"getRemoteFile", "downloadFile", "cancelDownloadFile", "deleteFile"}
  PROVE  Append(requests, Request(type, who)) \in Seq(RequestType)
  BY RequestTypes, Appending DEF TdTypes

(* The result that Client takes. *)
LEMMA ResultTaken ==
  ASSUME TdTypes, NEW type, TakeResult(type)
  PROVE  /\ results # <<>> /\ Head(results) = results[1] /\ Head(results) \in ResultType
         /\ Head(results).type = type /\ Head(results).who \in Who
         /\ Head(results).snap \in Snapshots
         /\ results' = Tail(results) /\ results' \in Seq(ResultType)
         /\ UNCHANGED <<td, state, active, pending>>
<1>1. results \in Seq(ResultType) /\ results # <<>> /\ results' = Tail(results)
  BY DEF TdTypes, TakeResult
<1>2. /\ Head(results) = results[1] /\ Head(results) \in ResultType
      /\ Tail(results) \in Seq(ResultType)
  BY <1>1, Taking
<1> QED
  BY <1>1, <1>2 DEF ResultType, TakeResult

LEMMA AnswersTyped ==
  ASSUME ClientTypes, NEW queries, NEW answer \in {"ok", "failed"},
         on_file_download(queries, answer)
  PROVE  /\ answers' \in [Queries -> {"new", "asked", "ok", "failed"}]
         /\ waiting' = {} /\ started' = FALSE
  BY DEF ClientTypes, on_file_download

(* on_update_file, as its two callers use it: the streams are told, and    *)
(* the queries are answered or go on waiting.                              *)
LEMMA UpdateTyped ==
  ASSUME StreamTypes, ClientTypes, TdTypes, StartedMarksWaiting,
         NEW snap \in Snapshots, NEW b \in BOOLEAN, b => waiting # {}, on_update_file(snap, b)
  PROVE  /\ mail' \in [Streams -> Seq(MailType)] /\ UNCHANGED <<st, removals, listeners>>
         /\ answers' \in [Queries -> {"new", "asked", "ok", "failed"}]
         /\ waiting' \subseteq Queries /\ started' \in BOOLEAN /\ StartedMarksWaiting'
         /\ requests' \in Seq(RequestType)
<1>1. mail' \in [Streams -> Seq(MailType)]
  <2>1. Tells(mail, mail', listeners, "on_file_progress", snap)
    BY DEF on_update_file, Tells
  <2> QED
    BY <2>1, TellsTyped DEF StreamTypes
<1>2. /\ UNCHANGED <<st, removals, listeners>>
      /\ \/ on_file_download(waiting, "failed") \/ on_file_download(waiting, "ok")
         \/ UNCHANGED <<answers, waiting>> /\ started' = b
  BY DEF on_update_file
<1>3. /\ answers' \in [Queries -> {"new", "asked", "ok", "failed"}]
      /\ waiting' \subseteq Queries /\ started' \in BOOLEAN /\ StartedMarksWaiting'
  <2>1. CASE on_file_download(waiting, "failed") \/ on_file_download(waiting, "ok")
    BY <2>1, AnswersTyped DEF StartedMarksWaiting
  <2>2. CASE UNCHANGED <<answers, waiting>> /\ started' = b
    BY <2>2 DEF ClientTypes, StartedMarksWaiting
  <2> QED
    BY <1>2, <2>1, <2>2
<1>4. requests' \in Seq(RequestType)
  <2>1. \/ requests' = requests
        \/ requests' = Append(requests, Request("cancelDownloadFile", Nobody))
    BY DEF on_update_file
  <2> QED
    BY <2>1, Requested, WhoAre DEF TdTypes
<1> QED
  BY <1>1, <1>2, <1>3, <1>4

Typed == StreamTypes /\ ClientTypes /\ TdTypes /\ StartedMarksWaiting

LEMMA ResultsTyped ==
  ASSUME Typed, ClientResult
  PROVE  Typed'
<1>0. StreamTypes /\ ClientTypes /\ TdTypes /\ StartedMarksWaiting
  BY DEF Typed
<1>1. PICK type : TakeResult(type)
  BY DEF ClientResult, on_remote_file, on_remote_error, do_get_file, on_update,
         on_download_result, on_download_error
<1>2. /\ Head(results).who \in Who /\ Head(results).snap \in Snapshots
      /\ results' \in Seq(ResultType) /\ UNCHANGED <<td, state, active, pending>>
  BY <1>0, <1>1, ResultTaken
<1>3. PICK snap \in Snapshots : snap = Head(results).snap
  BY <1>2
<1>4. PICK w \in Who : w = Head(results).who
  BY <1>2
<1>5. mail \in [Streams -> Seq(MailType)] /\ listeners \subseteq Streams /\ active \subseteq Streams
  BY <1>0 DEF StreamTypes, ClientTypes
<1>6. CASE on_remote_file
  <2>1. w \in Streams /\ UNCHANGED <<st, removals, waiting, started, answers>>
    BY <1>4, <1>6 DEF on_remote_file
  <2>2. listeners' \subseteq Streams
    BY <1>4, <1>5, <1>6, <2>1 DEF on_remote_file
  <2>3. mail' \in [Streams -> Seq(MailType)]
    <3>1. \/ mail' = mail \/ mail' = Send(mail, w, "on_file_ready", snap)
          \/ mail' = Send(Send(mail, w, "on_file_ready", snap), w, "on_file_error", snap)
      BY <1>3, <1>4, <1>6 DEF on_remote_file
    <3>2. Send(mail, w, "on_file_ready", snap) \in [Streams -> Seq(MailType)]
      BY <1>5, <2>1, SendTyped
    <3>3. Send(Send(mail, w, "on_file_ready", snap), w, "on_file_error", snap)
            \in [Streams -> Seq(MailType)]
      BY <2>1, <3>2, SendTyped
    <3> QED
      BY <1>5, <3>1, <3>2, <3>3
  <2>4. requests' \in Seq(RequestType)
    <3>1. requests' = requests \/ requests' = Append(requests, Request("downloadFile", "stream"))
      BY <1>6 DEF on_remote_file
    <3> QED
      BY <1>0, <3>1, Requested, WhoAre DEF TdTypes
  <2> QED
    BY <1>0, <1>2, <2>1, <2>2, <2>3, <2>4
    DEF Typed, StreamTypes, ClientTypes, TdTypes, StartedMarksWaiting
<1>7. CASE on_remote_error
  <2>1. UNCHANGED <<st, removals, listeners, waiting, started, requests>>
    BY <1>7 DEF on_remote_error
  <2>2. \/ mail' = mail /\ answers' = [answers EXCEPT ![w] = "failed"]
        \/ /\ answers' = answers /\ w \in Streams
           /\ mail' = mail \/ mail' = Send(mail, w, "on_file_error", NoSnap)
    BY <1>4, <1>7 DEF on_remote_error
  <2>3. mail' \in [Streams -> Seq(MailType)]
    BY <1>5, <2>2, SendTyped, NoSnapType
  <2>4. answers' \in [Queries -> {"new", "asked", "ok", "failed"}]
    BY <1>0, <2>2 DEF ClientTypes
  <2> QED
    BY <1>0, <1>2, <2>1, <2>3, <2>4
    DEF Typed, StreamTypes, ClientTypes, TdTypes, StartedMarksWaiting
<1>8. CASE do_get_file
  <2>1. w \in Queries /\ UNCHANGED <<st, mail, removals, listeners>>
    BY <1>4, <1>8 DEF do_get_file, streamVars
  <2>2. \/ /\ answers' = [answers EXCEPT ![w] = "failed"]
           /\ UNCHANGED <<waiting, started, requests>>
        \/ on_file_download(waiting \cup {w}, "failed") /\ UNCHANGED requests
        \/ /\ waiting' = waiting \cup {w} /\ requests' = requests \o AskForDownload
           /\ UNCHANGED <<answers, started>>
    BY <1>4, <1>8 DEF do_get_file
  <2>3. requests \o AskForDownload = Append(requests, Request("downloadFile", "query"))
    BY <1>0, AppendIsConcat, RequestTypes, WhoAre DEF TdTypes, AskForDownload
  <2>4. requests' \in Seq(RequestType)
    BY <1>0, <2>2, <2>3, Requested, WhoAre DEF TdTypes
  <2>5. /\ answers' \in [Queries -> {"new", "asked", "ok", "failed"}]
        /\ waiting' \subseteq Queries /\ started' \in BOOLEAN /\ StartedMarksWaiting'
    <3>1. CASE on_file_download(waiting \cup {w}, "failed")
      BY <1>0, <3>1, AnswersTyped DEF StartedMarksWaiting
    <3>2. CASE ~on_file_download(waiting \cup {w}, "failed")
      BY <1>0, <2>1, <2>2, <3>2 DEF ClientTypes, StartedMarksWaiting
    <3> QED
      BY <3>1, <3>2
  <2> QED
    BY <1>0, <1>2, <2>1, <2>4, <2>5 DEF Typed, StreamTypes, ClientTypes, TdTypes
<1>9. CASE on_update \/ on_download_result
  <2>1. PICK b \in BOOLEAN : (b => waiting # {}) /\ on_update_file(snap, b)
    BY <1>0, <1>3, <1>9 DEF on_update, on_download_result, MarksStarted, StartedMarksWaiting,
                            ClientTypes
  <2> QED
    BY <1>0, <1>2, <2>1, UpdateTyped DEF Typed, StreamTypes, ClientTypes, TdTypes
<1>10. CASE on_download_error
  <2>1. UNCHANGED <<st, removals, listeners, requests>>
    BY <1>10 DEF on_download_error
  <2>2. \/ on_file_download(waiting, "failed") /\ mail' = mail
        \/ Tells(mail, mail', listeners, "on_file_error", NoSnap)
           /\ UNCHANGED <<answers, waiting, started>>
    BY <1>10 DEF on_download_error, Tells
  <2>3. mail' \in [Streams -> Seq(MailType)]
    BY <1>5, <2>2, TellsTyped, NoSnapType
  <2>4. /\ answers' \in [Queries -> {"new", "asked", "ok", "failed"}]
        /\ waiting' \subseteq Queries /\ started' \in BOOLEAN /\ StartedMarksWaiting'
    <3>1. CASE on_file_download(waiting, "failed")
      BY <1>0, <3>1, AnswersTyped DEF StartedMarksWaiting
    <3>2. CASE UNCHANGED <<answers, waiting, started>>
      BY <1>0, <3>2 DEF ClientTypes, StartedMarksWaiting
    <3> QED
      BY <2>2, <3>1, <3>2
  <2> QED
    BY <1>0, <1>2, <2>1, <2>3, <2>4 DEF Typed, StreamTypes, ClientTypes, TdTypes
<1> QED
  BY <1>6, <1>7, <1>8, <1>9, <1>10 DEF ClientResult


(* pending_file_streams_ without a stream. *)
LEMMA ErasedIs ==
  ASSUME pending \in Seq(Streams), NEW s, Pends(s)
  PROVE  \E i \in 1..Len(pending) :
           /\ pending[i] = s
           /\ Erased(s) \in Seq(Streams) /\ Len(Erased(s)) = Len(pending) - 1
           /\ \A j \in 1..Len(Erased(s)) :
                /\ j < i => j \in 1..Len(pending) /\ Erased(s)[j] = pending[j]
                /\ j >= i => j + 1 \in 1..Len(pending) /\ Erased(s)[j] = pending[j + 1]
<1>0. PICK i : i = CHOOSE k \in 1..Len(pending) : pending[k] = s
  OBVIOUS
<1>1. i \in 1..Len(pending) /\ pending[i] = s
  BY <1>0 DEF Pends
<1>2. Len(pending) \in Nat \ {0}
  BY <1>1, LenProperties
<1>3. PICK n \in Nat : n = Len(pending) - 1
  BY <1>2
<1>4. Erased(s) = [j \in 1..n |-> pending[IF j < i THEN j ELSE j + 1]]
  BY <1>0, <1>3 DEF Erased
<1>5. \A j \in 1..n : /\ j \in 1..Len(pending) /\ j + 1 \in 1..Len(pending)
                      /\ pending[j] \in Streams /\ pending[j + 1] \in Streams
  <2>1. \A j \in 1..n : j \in 1..Len(pending) /\ j + 1 \in 1..Len(pending)
    BY <1>2, <1>3
  <2> QED
    BY <2>1, ElementOfSeq
<1>6. \A j \in 1..n : pending[IF j < i THEN j ELSE j + 1] \in Streams
  BY <1>5
<1>7. Erased(s) \in [1..n -> Streams]
  BY <1>4, <1>6
<1>8. Erased(s) \in Seq(Streams) /\ Len(Erased(s)) = n
  BY <1>3, <1>7, IsASeq, LenProperties
<1>9. \A j \in 1..n : (j < i => Erased(s)[j] = pending[j]) /\ (j >= i => Erased(s)[j] = pending[j + 1])
  BY <1>1, <1>2, <1>4
<1> QED
  BY <1>1, <1>3, <1>5, <1>8, <1>9

LEMMA ClientTyped ==
  ASSUME Typed,
         \/ \E s \in Streams : start_file_stream(s)
         \/ \E r \in removals : remove_file_stream(r)
         \/ \E q \in Queries : getFile(q)
         \/ Authorize \/ BeginClosing \/ on_closed
  PROVE  Typed'
<1>0. StreamTypes /\ ClientTypes /\ TdTypes /\ StartedMarksWaiting
  BY DEF Typed
<1>1. /\ mail \in [Streams -> Seq(MailType)] /\ listeners \subseteq Streams /\ active \subseteq Streams
      /\ pending \in Seq(Streams) /\ requests \in Seq(RequestType)
  BY <1>0 DEF StreamTypes, ClientTypes, TdTypes
<1>2. ASSUME NEW s \in Streams, start_file_stream(s) PROVE Typed'
  <2>1. /\ UNCHANGED <<removals, state, listeners, waiting, started, answers, results, td>>
        /\ active' = active \cup {s} /\ st' = [st EXCEPT ![s].phase = "open"]
    BY <1>2 DEF start_file_stream
  <2>2. st' \in [Streams -> StreamType]
    <3>1. st \in [Streams -> StreamType] /\ st[s] \in StreamType
      BY <1>0 DEF StreamTypes
    <3>2. [st[s] EXCEPT !.phase = "open"] \in StreamType
      BY <3>1 DEF StreamType
    <3>3. st' = [st EXCEPT ![s] = [st[s] EXCEPT !.phase = "open"]]
      BY <2>1, <3>1
    <3> QED
      BY <3>1, <3>2, <3>3
  <2>3. PICK m : m = Send(mail, s, "set_client", NoSnap)
    OBVIOUS
  <2>4. m \in [Streams -> Seq(MailType)] /\ Send(m, s, "on_file_error", NoSnap) \in [Streams -> Seq(MailType)]
    BY <1>1, <2>3, SendTyped, NoSnapType
  <2>5. /\ mail' = m \/ mail' = Send(m, s, "on_file_error", NoSnap)
        /\ pending' = pending \/ pending' = Append(pending, s)
        /\ requests' = requests \/ requests' = Append(requests, Request("getRemoteFile", s))
    BY <1>2, <2>3 DEF start_file_stream
  <2>6. mail' \in [Streams -> Seq(MailType)] /\ pending' \in Seq(Streams) /\ requests' \in Seq(RequestType)
    <3>1. mail' \in [Streams -> Seq(MailType)]
      BY <2>4, <2>5
    <3>2. Append(pending, s) \in Seq(Streams)
      BY <1>1, AppendProperties
    <3>3. pending' \in Seq(Streams)
      BY <1>1, <2>5, <3>2
    <3> QED
      BY <1>0, <1>1, <2>5, <3>1, <3>3, Requested, WhoAre
  <2> QED
    BY <1>0, <1>1, <2>1, <2>2, <2>6
    DEF Typed, StreamTypes, ClientTypes, TdTypes, StartedMarksWaiting
<1>3. ASSUME NEW r \in removals, remove_file_stream(r) PROVE Typed'
  <2>1. /\ UNCHANGED <<st, mail, state, waiting, started, answers, results, td>>
        /\ active' \subseteq active /\ removals' \subseteq removals /\ listeners' \subseteq listeners
        /\ pending' = pending \/ (Pends(r.stream) /\ pending' = Erased(r.stream))
        /\ requests' = requests \/ requests' = Append(requests, Request(RemovalRequest(r), Nobody))
    BY <1>3 DEF remove_file_stream, Pends
  <2>2. pending' \in Seq(Streams)
    BY <1>1, <2>1, ErasedIs
  <2>3. requests' \in Seq(RequestType)
    BY <1>0, <1>1, <2>1, Requested, WhoAre DEF RemovalRequest
  <2> QED
    BY <1>0, <1>1, <2>1, <2>2, <2>3
    DEF Typed, StreamTypes, ClientTypes, TdTypes, StartedMarksWaiting
<1>4. ASSUME NEW q \in Queries, getFile(q) PROVE Typed'
  <2>1. /\ UNCHANGED <<st, mail, removals, state, active, pending, listeners, waiting, started, results, td>>
        /\ answers' = [answers EXCEPT ![q] = "asked"]
        /\ requests' = Append(requests, Request("getRemoteFile", q))
    BY <1>4 DEF getFile, streamVars
  <2>2. requests' \in Seq(RequestType)
    BY <1>0, <2>1, Requested, WhoAre
  <2> QED
    BY <1>0, <2>1, <2>2 DEF Typed, StreamTypes, ClientTypes, TdTypes, StartedMarksWaiting
<1>5. CASE Authorize
  <2>1. /\ UNCHANGED <<st, mail, removals, active, listeners, waiting, started, answers, results, td>>
        /\ state' = "ready" /\ pending' = <<>>
        /\ requests' = requests \o [k \in 1..Len(pending) |-> Request("getRemoteFile", pending[k])]
    BY <1>5 DEF Authorize, streamVars
  <2>2. [k \in 1..Len(pending) |-> Request("getRemoteFile", pending[k])] \in Seq(RequestType)
    <3>1. Len(pending) \in Nat /\ \A k \in 1..Len(pending) : pending[k] \in Who
      BY <1>1, LenProperties, ElementOfSeq, WhoAre
    <3>2. \A k \in 1..Len(pending) : Request("getRemoteFile", pending[k]) \in RequestType
      BY <3>1, RequestTypes
    <3> QED
      BY <3>1, <3>2, IsASeq
  <2>3. requests' \in Seq(RequestType)
    BY <1>1, <2>1, <2>2, ConcatProperties
  <2> QED
    BY <1>0, <2>1, <2>3 DEF Typed, StreamTypes, ClientTypes, TdTypes, StartedMarksWaiting
<1>6. CASE BeginClosing
  BY <1>0, <1>6
  DEF Typed, StreamTypes, ClientTypes, TdTypes, StartedMarksWaiting, BeginClosing, streamVars, tdVars
<1>7. CASE on_closed
  <2>1. /\ UNCHANGED <<st, removals>>
        /\ state' \in {"closed", "closed_unauthorized"}
        /\ Tells(mail, mail', active, "on_file_error", NoSnap)
        /\ active' = {} /\ pending' = <<>> /\ listeners' = {} /\ waiting' = {} /\ started' = FALSE
        /\ requests' = <<>> /\ results' = <<>> /\ td' = [td EXCEPT !.active = FALSE]
        /\ answers' = [q \in Queries |-> IF answers[q] \in {"ok", "new"} THEN answers[q] ELSE "failed"]
    BY <1>7 DEF on_closed, Tells, ToldOfTheEnd
  <2>2. mail' \in [Streams -> Seq(MailType)]
    BY <1>1, <2>1, TellsTyped, NoSnapType
  <2>3. td' \in Snapshots
    BY <1>0, <2>1 DEF TdTypes, Snapshots
  <2>4. answers' \in [Queries -> {"new", "asked", "ok", "failed"}]
    BY <1>0, <2>1 DEF ClientTypes
  <2>5. pending' \in Seq(Streams) /\ requests' \in Seq(RequestType) /\ results' \in Seq(ResultType)
    BY <2>1
  <2> QED
    BY <1>0, <2>1, <2>2, <2>3, <2>4, <2>5
    DEF Typed, StreamTypes, ClientTypes, TdTypes, StartedMarksWaiting
<1> QED
  BY <1>2, <1>3, <1>4, <1>5, <1>6, <1>7

(* What a step of TDLib does to its queues and to the file. *)
TdStepIs ==
  /\ UNCHANGED <<st, mail, removals, state, active, pending, listeners, waiting, started, answers>>
  /\ td' \in Snapshots
  /\ requests' = requests \/ (requests # <<>> /\ requests' = Tail(requests))
  /\ \/ results' = results
     \/ \E x \in ResultType : results' = Append(results, x)

LEMMA SnapshotsOf ==
  ASSUME NEW s \in Snapshots
  PROVE  /\ [s EXCEPT !.active = FALSE] \in Snapshots
         /\ [s EXCEPT !.exists = TRUE, !.active = TRUE] \in Snapshots
         /\ [s EXCEPT !.completed = TRUE, !.active = FALSE] \in Snapshots
         /\ [s EXCEPT !.big = TRUE] \in Snapshots
         /\ [NoSnap EXCEPT !.big = s.big] \in Snapshots
<1>1. s.big \in BOOLEAN
  BY DEF Snapshots
<1> QED
  BY <1>1, NoSnapType DEF Snapshots

LEMMA ResultTypes ==
  ASSUME NEW who \in Who, NEW snap \in Snapshots
  PROVE  \A type \in {"remoteFile", "remoteError", "file", "downloadError", "updateFile"} :
           Result(type, who, snap) \in ResultType
  BY DEF Result, ResultType

LEMMA TdStepsAre ==
  ASSUME TdTypes, TdRequest \/ TdComplete \/ TdStop \/ TdGrow
  PROVE  TdStepIs
<1>1. requests \in Seq(RequestType) /\ td \in Snapshots
  BY DEF TdTypes
<1>2. ASSUME td' \in Snapshots, Update
      PROVE  \/ results' = results
             \/ \E x \in ResultType : results' = Append(results, x)
  <2>1. Result("updateFile", Nobody, td') \in ResultType
    BY <1>2, ResultTypes, WhoAre
  <2> QED
    BY <1>2, <2>1 DEF Update, Emit
<1>3. ASSUME NEW new \in Snapshots, TdStep(new)
      PROVE  TdStepIs
  BY <1>2, <1>3 DEF TdStep, TdStepIs, streamVars, clientVars
<1>4. CASE TdComplete \/ TdStop \/ TdGrow
  BY <1>1, <1>3, <1>4, SnapshotsOf DEF TdComplete, TdStop, TdGrow
<1>5. ASSUME NEW type, TakeRequest(type)
      PROVE  /\ requests # <<>> /\ requests' = Tail(requests) /\ Head(requests).who \in Who
             /\ UNCHANGED <<st, mail, removals, state, active, pending, listeners, waiting, started, answers>>
  <2>1. Head(requests) \in RequestType
    BY <1>1, <1>5, Taking DEF TakeRequest
  <2> QED
    BY <1>5, <2>1 DEF TakeRequest, RequestType, streamVars, clientVars
<1>6. CASE TdGetRemoteFile
  <2>1. TakeRequest("getRemoteFile") /\ td' = td
    BY <1>6 DEF TdGetRemoteFile
  <2>2. \/ results' = Append(results, Result("remoteFile", Head(requests).who, td))
        \/ results' = Append(results, Result("remoteError", Head(requests).who, NoSnap))
    BY <1>6 DEF TdGetRemoteFile, Emit
  <2>3. \E x \in ResultType : results' = Append(results, x)
    BY <1>1, <1>5, <2>1, <2>2, ResultTypes, NoSnapType
  <2> QED
    BY <1>1, <1>5, <2>1, <2>3 DEF TdStepIs
<1>7. CASE TdDownloadFile
  <2>1. TakeRequest("downloadFile")
    BY <1>7 DEF TdDownloadFile
  <2>2. td' \in Snapshots
    BY <1>1, <1>7, SnapshotsOf DEF TdDownloadFile
  <2>3. \/ results' = Append(results, Result("file", Head(requests).who, td'))
        \/ results' = Append(results, Result("downloadError", Head(requests).who, NoSnap))
    BY <1>7 DEF TdDownloadFile, Emit
  <2>4. \E x \in ResultType : results' = Append(results, x)
    BY <1>5, <2>1, <2>2, <2>3, ResultTypes, NoSnapType
  <2> QED
    BY <1>5, <2>1, <2>2, <2>4 DEF TdStepIs
<1>8. CASE TdCancelDownloadFile \/ TdDeleteFile
  <2>1. (TakeRequest("cancelDownloadFile") \/ TakeRequest("deleteFile")) /\ Update
    BY <1>8 DEF TdCancelDownloadFile, TdDeleteFile
  <2>2. td' \in Snapshots
    BY <1>1, <1>8, SnapshotsOf DEF TdCancelDownloadFile, TdDeleteFile
  <2> QED
    BY <1>2, <1>5, <2>1, <2>2 DEF TdStepIs
<1> QED
  BY <1>4, <1>6, <1>7, <1>8 DEF TdRequest

LEMMA TdTyped ==
  ASSUME Typed, TdStepIs
  PROVE  Typed'
<1>1. StreamTypes' /\ ClientTypes' /\ StartedMarksWaiting'
  BY DEF Typed, TdStepIs, StreamTypes, ClientTypes, StartedMarksWaiting
<1>2. requests' \in Seq(RequestType)
  BY Taking DEF Typed, TdTypes, TdStepIs
<1>3. results' \in Seq(ResultType)
  BY Appending DEF Typed, TdTypes, TdStepIs
<1> QED
  BY <1>1, <1>2, <1>3 DEF Typed, TdTypes, TdStepIs


LEMMA StepTyped == Typed /\ [Next]_vars => Typed'
<1> SUFFICES ASSUME Typed, [Next]_vars PROVE Typed'
  OBVIOUS
<1>1. CASE UNCHANGED vars
  BY <1>1 DEF Typed, StreamTypes, ClientTypes, TdTypes, StartedMarksWaiting, vars, system,
              streamVars, clientVars, tdVars
<1>2. ASSUME NEW s \in Streams, StreamStep(s) \/ EndStream(s) PROVE Typed'
  <2>1. UNCHANGED <<clientVars, tdVars>>
    BY <1>2 DEF StreamStep, EndStream, set_client, on_file_ready, on_file_progress,
                on_file_error, TakeMail
  <2>2. StreamTypes'
    BY <1>2, StreamTyped DEF Typed
  <2> QED
    BY <2>1, <2>2 DEF Typed, ClientTypes, TdTypes, StartedMarksWaiting, clientVars, tdVars
<1>3. CASE TdRequest \/ TdComplete \/ TdStop \/ TdGrow
  BY <1>3, TdStepsAre, TdTyped DEF Typed
<1> QED
  BY <1>1, <1>2, <1>3, ResultsTyped, ClientTyped DEF Next

LEMMA InitTyped == Init => Typed /\ scenario \in Scenarios
<1> SUFFICES ASSUME Init PROVE Typed /\ scenario \in Scenarios
  OBVIOUS
<1>1. /\ [exists |-> TRUE, completed |-> FALSE, active |-> FALSE, big |-> FALSE] \in Snapshots
      /\ [exists |-> TRUE, completed |-> TRUE, active |-> FALSE, big |-> FALSE] \in Snapshots
  BY DEF Snapshots
<1>2. td \in Snapshots
  BY <1>1, NoSnapType DEF Init, NoSnap
<1>3. StreamTypes
  BY DEF Init, StreamTypes, StreamType
<1>4. ClientTypes /\ StartedMarksWaiting
  <2>1. /\ state = "authorizing" /\ active = {} /\ listeners = {} /\ waiting = {}
        /\ pending = <<>> /\ started = FALSE /\ answers = [q \in Queries |-> "new"]
    BY DEF Init
  <2>2. pending \in Seq(Streams)
    BY <2>1
  <2> QED
    BY <2>1, <2>2 DEF ClientTypes, StartedMarksWaiting
<1>5. TdTypes /\ scenario \in Scenarios
  BY <1>2 DEF Init, TdTypes
<1> QED
  BY <1>3, <1>4, <1>5 DEF Typed

(* The types, and the mark of a started download: download_started_file_ids_ *)
(* never holds a file that no getFile query waits for.                       *)
THEOREM MarkAlwaysExact == Spec => []Consistent
<1>1. scenario \in Scenarios /\ [Next]_vars => (scenario \in Scenarios)'
  BY DEF Next, vars
<1>2. Typed /\ scenario \in Scenarios => Consistent
  BY TypesAre DEF Typed, Consistent
<1> QED
  BY <1>1, <1>2, InitTyped, StepTyped, PTL DEF Spec


-------------------------------------------------------------------------------
(* What a step of a stream does: it goes on, or it closes. *)
OthersSame(s) ==
  \A t \in Streams : t # s => st'[t] = st[t] /\ mail'[t] = mail[t]

GoesOn(s, type) ==
  /\ Open(s) /\ OthersSame(s) /\ removals' = removals
  /\ mail[s] # <<>> /\ mail[s][1].type = type /\ mail'[s] = Tail(mail[s])
  /\ type # "on_file_error"
  /\ st'[s].phase = "open" /\ st'[s].served = st[s].served
  /\ st'[s].client <=> st[s].client \/ type = "set_client"
  /\ st'[s].ready <=> st[s].ready \/ type = "on_file_ready"

(* tear_down is called by the actor itself or by on_file_progress or       *)
(* on_file_error, which handle the first message.                          *)
EndsItself(s) ==
  /\ mail' = mail
  /\ st[s].ready \/ Faults \cap EarlyEnds # {}
EndsOnMessage(s) ==
  /\ mail[s] # <<>> /\ mail[s][1].type \in {"on_file_progress", "on_file_error"}
  /\ mail'[s] = Tail(mail[s])

Closes(s, ok) ==
  /\ Open(s) /\ OthersSame(s)
  /\ st'[s].phase = "closed" /\ st'[s].served = ok
  /\ st'[s].client = st[s].client /\ st'[s].ready = st[s].ready
  /\ removals' = IF st[s].client THEN removals \cup {Removal(s, ok)} ELSE removals
  /\ EndsItself(s) \/ EndsOnMessage(s)

LEMMA CloseIs ==
  ASSUME StreamTypes, NEW s \in Streams, NEW ok \in BOOLEAN, Close(s, ok)
  PROVE  /\ \A t \in Streams : t # s => st'[t] = st[t]
         /\ st'[s].phase = "closed" /\ st'[s].served = ok
         /\ st'[s].client = st[s].client /\ st'[s].ready = st[s].ready
         /\ removals' = IF st[s].client THEN removals \cup {Removal(s, ok)} ELSE removals
<1>1. st \in [Streams -> StreamType] /\ st[s] \in StreamType
  BY DEF StreamTypes
<1>2. st' = [st EXCEPT ![s] = [st[s] EXCEPT !.phase = "closed", !.served = ok]]
  BY <1>1 DEF Close
<1>3. st'[s] = [st[s] EXCEPT !.phase = "closed", !.served = ok]
      /\ \A t \in Streams : t # s => st'[t] = st[t]
  BY <1>1, <1>2
<1> QED
  BY <1>1, <1>3 DEF StreamType, Close

LEMMA MailTaken ==
  ASSUME StreamTypes, NEW s \in Streams, NEW type, TakeMail(s, type)
  PROVE  /\ Open(s) /\ mail[s] # <<>> /\ mail[s][1].type = type /\ Head(mail[s]) = mail[s][1]
         /\ mail'[s] = Tail(mail[s])
         /\ \A t \in Streams : t # s => mail'[t] = mail[t]
<1>1. mail \in [Streams -> Seq(MailType)] /\ mail[s] \in Seq(MailType) /\ mail[s] # <<>>
  BY DEF StreamTypes, TakeMail
<1>2. Head(mail[s]) = mail[s][1]
  BY <1>1, Taking
<1>3. mail' = [mail EXCEPT ![s] = Tail(mail[s])]
  BY DEF TakeMail
<1> QED
  BY <1>1, <1>2, <1>3 DEF TakeMail

LEMMA StreamStepIs ==
  ASSUME StreamTypes, NEW s \in Streams, StreamStep(s) \/ EndStream(s)
  PROVE  (\E type : GoesOn(s, type)) \/ (\E ok \in BOOLEAN : Closes(s, ok))
<1>1. st \in [Streams -> StreamType] /\ st[s] \in StreamType
  BY DEF StreamTypes
<1>2. CASE set_client(s)
  <2>1. TakeMail(s, "set_client") /\ removals' = removals
    BY <1>2 DEF set_client
  <2>2. st' = [st EXCEPT ![s] = [st[s] EXCEPT !.client = TRUE]]
    BY <1>1, <1>2 DEF set_client
  <2>3. /\ st'[s] = [st[s] EXCEPT !.client = TRUE] /\ \A t \in Streams : t # s => st'[t] = st[t]
    BY <1>1, <2>2
  <2>4. /\ st'[s].phase = st[s].phase /\ st'[s].served = st[s].served
        /\ st'[s].client /\ st'[s].ready = st[s].ready
    BY <1>1, <2>3 DEF StreamType
  <2> QED
    BY <2>1, <2>3, <2>4, MailTaken DEF GoesOn, OthersSame, Open
<1>3. CASE on_file_ready(s)
  <2>1. TakeMail(s, "on_file_ready") /\ removals' = removals
    BY <1>3 DEF on_file_ready
  <2>2. PICK c : c = Head(mail[s]).snap.completed
    OBVIOUS
  <2>3. st' = [st EXCEPT ![s] = [st[s] EXCEPT !.ready = TRUE, !.completed = c]]
    BY <1>1, <1>3, <2>2 DEF on_file_ready
  <2>4. /\ st'[s] = [st[s] EXCEPT !.ready = TRUE, !.completed = c]
        /\ \A t \in Streams : t # s => st'[t] = st[t]
    BY <1>1, <2>3
  <2>5. /\ st'[s].phase = st[s].phase /\ st'[s].served = st[s].served
        /\ st'[s].client = st[s].client /\ st'[s].ready
    BY <1>1, <2>4 DEF StreamType
  <2> QED
    BY <2>1, <2>4, <2>5, MailTaken DEF GoesOn, OthersSame, Open
<1>4. CASE on_file_progress(s)
  <2>1. TakeMail(s, "on_file_progress")
    BY <1>4 DEF on_file_progress
  <2>2. CASE Close(s, FALSE)
    <3>1. EndsOnMessage(s) /\ Open(s) /\ OthersSame(s)
      BY <2>1, <2>2, MailTaken, CloseIs DEF EndsOnMessage, OthersSame
    <3>2. Closes(s, FALSE)
      BY <2>2, <3>1, CloseIs DEF Closes
    <3> QED
      BY <3>2
  <2>3. CASE ~Close(s, FALSE)
    <3>1. PICK c : c = (st[s].completed \/ Head(mail[s]).snap.completed)
      OBVIOUS
    <3>2. st' = [st EXCEPT ![s] = [st[s] EXCEPT !.completed = c]] /\ removals' = removals
      BY <1>1, <1>4, <2>3, <3>1 DEF on_file_progress
    <3>3. st'[s] = [st[s] EXCEPT !.completed = c] /\ \A t \in Streams : t # s => st'[t] = st[t]
      BY <1>1, <3>2
    <3>4. /\ st'[s].phase = st[s].phase /\ st'[s].served = st[s].served
          /\ st'[s].client = st[s].client /\ st'[s].ready = st[s].ready
      BY <1>1, <3>3 DEF StreamType
    <3> QED
      BY <2>1, <3>2, <3>3, <3>4, MailTaken DEF GoesOn, OthersSame, Open
  <2> QED
    BY <2>2, <2>3
<1>5. CASE on_file_error(s)
  <2>1. TakeMail(s, "on_file_error") /\ Close(s, FALSE)
    BY <1>5 DEF on_file_error
  <2>2. EndsOnMessage(s) /\ Open(s) /\ OthersSame(s)
    BY <2>1, MailTaken, CloseIs DEF EndsOnMessage, OthersSame
  <2>3. Closes(s, FALSE)
    BY <2>1, <2>2, CloseIs DEF Closes
  <2> QED
    BY <2>3
<1>6. CASE EndStream(s)
  <2>1. PICK ok \in BOOLEAN : Close(s, ok)
    BY <1>6 DEF EndStream
  <2>2. Open(s) /\ EndsItself(s)
    BY <1>6 DEF EndStream, EndsItself, EarlyEnds
  <2>3. OthersSame(s)
    BY <2>1, <2>2, CloseIs DEF OthersSame, EndsItself
  <2>4. Closes(s, ok)
    BY <2>1, <2>2, <2>3, CloseIs DEF Closes
  <2> QED
    BY <2>4
<1> QED
  BY <1>2, <1>3, <1>4, <1>5, <1>6 DEF StreamStep


-------------------------------------------------------------------------------
(* The end of the client reaches every stream. *)
LEMMA EndKept ==
  ASSUME EndInv, UNCHANGED <<st, mail, active, state, scenario>>, removals' \subseteq removals
  PROVE  EndInv'
  BY DEF EndInv, Open, Told, Faults

(* As long as the client has not ended, what streams are told is no matter. *)
LEMMA EndKeptBefore ==
  ASSUME EndInv, UNCHANGED <<st, removals, active, state, scenario>>, state \notin Ended
  PROVE  EndInv'
  BY DEF EndInv, Open, Told, Faults, Ended

LEMMA EndStreamSteps ==
  ASSUME Typed, EndInv, NEW s \in Streams, StreamStep(s) \/ EndStream(s), scenario' = scenario
  PROVE  EndInv'
<1>0. StreamTypes /\ mail[s] \in Seq(MailType) /\ removals \subseteq RemovalType
  BY DEF Typed, StreamTypes
<1>1. UNCHANGED <<active, state>>
  BY DEF StreamStep, EndStream, set_client, on_file_ready, on_file_progress,
         on_file_error, TakeMail, clientVars
<1>2. ASSUME NEW type, GoesOn(s, type) PROVE EndInv'
  <2>1. \A t \in Streams : Open(t)' <=> Open(t)
    BY <1>2 DEF GoesOn, OthersSame, Open
  <2>2. \A r \in removals : r.stream \in Streams /\ r.stream # s
    BY <1>0, <1>2 DEF GoesOn, EndInv, Open, RemovalType
  <2>3. \A r \in removals' : st'[r.stream].phase = "closed"
    BY <1>2, <2>2 DEF GoesOn, EndInv, OthersSame
  <2>4. Told(s) => Told(s)'
    <3> SUFFICES ASSUME Told(s) PROVE Told(s)'
      OBVIOUS
    <3>1. PICK k \in 1..Len(mail[s]) : mail[s][k].type = "on_file_error"
      BY DEF Told
    <3>2. k # 1 /\ mail[s] # <<>> /\ mail'[s] = Tail(mail[s])
      BY <1>2, <3>1 DEF GoesOn
    <3>3. k - 1 \in 1..Len(Tail(mail[s])) /\ Tail(mail[s])[k - 1] = mail[s][k]
      BY <1>0, <3>1, <3>2, Taking
    <3> QED
      BY <3>1, <3>2, <3>3 DEF Told
  <2>5. \A t \in Streams : Told(t) => Told(t)'
    BY <1>2, <2>4 DEF GoesOn, OthersSame, Told
  <2> QED
    BY <1>1, <2>1, <2>3, <2>5 DEF EndInv, Faults
<1>3. ASSUME NEW ok \in BOOLEAN, Closes(s, ok) PROVE EndInv'
  <2>1. /\ ~Open(s)' /\ \A t \in Streams : Open(t)' => Open(t) /\ t # s
    BY <1>3 DEF Closes, OthersSame, Open
  <2>2. \A r \in removals' : r \in removals \/ r.stream = s
    BY <1>3 DEF Closes, Removal
  <2>3. \A r \in removals' : st'[r.stream].phase = "closed"
    BY <1>0, <1>3, <2>2 DEF Closes, EndInv, OthersSame, RemovalType
  <2>4. \A t \in Streams : t # s => (Told(t)' <=> Told(t))
    BY <1>3 DEF Closes, OthersSame, Told
  <2> QED
    BY <1>1, <2>1, <2>3, <2>4 DEF EndInv, Faults
<1> QED
  BY <1>0, <1>2, <1>3, StreamStepIs

(* A stream that comes to a client that has closed is told at once. *)
LEMMA EndStart ==
  ASSUME Typed, EndInv, NEW s \in Streams, start_file_stream(s), scenario' = scenario
  PROVE  EndInv'
<1>0. /\ st \in [Streams -> StreamType] /\ st[s] \in StreamType
      /\ mail \in [Streams -> Seq(MailType)] /\ removals \subseteq RemovalType
  BY DEF Typed, StreamTypes
<1>1. /\ UNCHANGED <<removals, state>> /\ active' = active \cup {s} /\ st[s].phase = "new"
      /\ st' = [st EXCEPT ![s] = [st[s] EXCEPT !.phase = "open"]]
  BY <1>0 DEF start_file_stream
<1>2. /\ \A t \in Streams : t # s => st'[t] = st[t]
      /\ \A r \in removals : r.stream \in Streams /\ r.stream # s
  BY <1>0, <1>1 DEF EndInv, RemovalType
<1>3. PICK m \in [Streams -> Seq(MailType)] :
         /\ m = Send(mail, s, "set_client", NoSnap)
         /\ m[s] = Append(mail[s], Message("set_client", NoSnap))
         /\ \A t \in Streams : t # s => m[t] = mail[t]
  BY <1>0, SendPlain
<1>4. PICK n \in [Streams -> Seq(MailType)] :
         /\ n = Send(m, s, "on_file_error", NoSnap)
         /\ n[s] = Append(m[s], Message("on_file_error", NoSnap))
         /\ \A t \in Streams : t # s => n[t] = m[t]
  BY SendPlain
<1>5. mail' = m \/ mail' = n
  BY <1>3, <1>4 DEF start_file_stream
<1>6. state = "closed" => mail' = n
  BY <1>3, <1>4 DEF start_file_stream, WasAuthorized, Closing
<1>7. state = "closed" => Told(s)'
  <2>1. Message("on_file_error", NoSnap) \in MailType
    BY MailTypes, NoSnapType
  <2>2. /\ Len(m[s]) \in Nat /\ Len(n[s]) = Len(m[s]) + 1
        /\ n[s][Len(m[s]) + 1] = Message("on_file_error", NoSnap)
    BY <1>4, <2>1, Appending
  <2>3. Len(m[s]) + 1 \in 1..Len(n[s])
    BY <2>2
  <2>4. Message("on_file_error", NoSnap).type = "on_file_error"
    BY DEF Message
  <2> QED
    BY <1>6, <2>2, <2>3, <2>4 DEF Told
<1>8. \A t \in Streams : t # s => (Open(t)' <=> Open(t)) /\ (Told(t)' <=> Told(t))
  BY <1>2, <1>3, <1>4, <1>5 DEF Open, Told
<1> QED
  BY <1>1, <1>2, <1>7, <1>8 DEF EndInv, Faults

LEMMA EndClosed ==
  ASSUME Typed, EndInv, on_closed, scenario' = scenario
  PROVE  EndInv'
<1>0. mail \in [Streams -> Seq(MailType)]
  BY DEF Typed, StreamTypes
<1>1. /\ UNCHANGED <<st, removals>> /\ state \notin Ended
      /\ state' = "closed" \/ (state' = "closed_unauthorized" /\ "logged_out" \in Faults)
      /\ Tells(mail, mail', active, "on_file_error", NoSnap)
  BY DEF on_closed, Ended, Tells, ToldOfTheEnd
<1>2. ASSUME NEW s \in Streams, Open(s) PROVE Told(s)'
  <2>1. s \in active
    BY <1>1, <1>2 DEF EndInv
  <2>2. mail'[s] = Append(mail[s], Message("on_file_error", NoSnap))
    BY <1>0, <1>1, <2>1 DEF Tells
  <2>3. Message("on_file_error", NoSnap) \in MailType
    BY MailTypes, NoSnapType
  <2>4. /\ Len(mail[s]) \in Nat /\ Len(mail'[s]) = Len(mail[s]) + 1
        /\ mail'[s][Len(mail[s]) + 1] = Message("on_file_error", NoSnap)
    BY <1>0, <2>2, <2>3, Appending
  <2>5. Len(mail[s]) + 1 \in 1..Len(mail'[s])
    BY <2>4
  <2> QED
    BY <2>4, <2>5 DEF Told, Message
<1>3. \A s \in Streams : Open(s)' <=> Open(s)
  BY <1>1 DEF Open
<1> QED
  BY <1>1, <1>2, <1>3 DEF EndInv, Faults, Ended

LEMMA StepEnds == Typed /\ EndInv /\ [Next]_vars => EndInv'
<1> SUFFICES ASSUME Typed, EndInv, [Next]_vars PROVE EndInv'
  OBVIOUS
<1>0. scenario' = scenario
  BY DEF Next, vars
<1>1. CASE UNCHANGED vars
  BY <1>1, EndKept DEF vars, system, streamVars, clientVars
<1>2. ASSUME NEW s \in Streams, StreamStep(s) \/ EndStream(s) PROVE EndInv'
  BY <1>0, <1>2, EndStreamSteps
<1>3. ASSUME NEW s \in Streams, start_file_stream(s) PROVE EndInv'
  BY <1>0, <1>3, EndStart
<1>4. ASSUME NEW r \in removals, remove_file_stream(r) PROVE EndInv'
  <2>1. /\ UNCHANGED <<st, mail, state>> /\ removals' \subseteq removals
        /\ active' = active \ {r.stream}
    BY <1>4 DEF remove_file_stream
  <2>2. ~Open(r.stream)
    BY DEF EndInv, Open
  <2> QED
    BY <1>0, <2>1, <2>2 DEF EndInv, Open, Told, Faults
<1>5. CASE (\E q \in Queries : getFile(q)) \/ TdRequest \/ TdComplete \/ TdStop \/ TdGrow
  <2>1. UNCHANGED <<st, mail, active, state, removals>>
    BY <1>5, TdStepsAre DEF Typed, TdStepIs, getFile, streamVars
  <2> QED
    BY <1>0, <2>1, EndKept
<1>6. CASE ClientResult
  <2>1. /\ UNCHANGED <<st, removals, active, state>> /\ state \notin Ended
    BY <1>6 DEF ClientResult, on_remote_file, on_remote_error, do_get_file, on_update,
                on_download_result, on_download_error, on_update_file, TakeResult, streamVars, Ended
  <2> QED
    BY <1>0, <2>1, EndKeptBefore
<1>7. CASE Authorize \/ BeginClosing
  <2>1. /\ UNCHANGED <<st, removals, active>> /\ state \notin Ended
        /\ state' \in {"ready", "closing"}
    BY <1>7 DEF Authorize, BeginClosing, streamVars, Ended
  <2> QED
    BY <1>0, <2>1 DEF EndInv, Open, Faults, Ended
<1>8. CASE on_closed
  BY <1>0, <1>8, EndClosed
<1> QED
  BY <1>1, <1>2, <1>3, <1>4, <1>5, <1>6, <1>7, <1>8 DEF Next

(* A client that has closed holds no open stream, once nothing is under    *)
(* way: on_closed tells those of active_file_streams_, start_file_stream   *)
(* the later ones.                                                         *)
THEOREM EndAlwaysReachesAll == Spec => []EndReachesAll
<1>1. Init => EndInv
  BY DEF Init, EndInv, Open, Ended
<1>2. EndInv => EndReachesAll
  <2> SUFFICES ASSUME EndInv, "logged_out" \notin Faults, Quiet,
                      state \in {"closed", "closed_unauthorized"}, NEW s \in Streams, Open(s)
               PROVE  FALSE
    BY DEF EndReachesAll, ClosedClientHoldsNoStream, Without
  <2>1. Told(s) /\ mail[s] = <<>>
    BY DEF EndInv, Quiet
  <2>2. Len(mail[s]) = 0 /\ \A k \in 1..0 : FALSE
    BY <2>1
  <2> QED
    BY <2>1, <2>2 DEF Told
<1> QED
  BY <1>1, <1>2, InitTyped, StepTyped, StepEnds, PTL DEF Spec


-------------------------------------------------------------------------------
(* Before the authorization Client has nothing to do with TDLib. *)
LEMMA StepBefore == Typed /\ BeforeReady /\ [Next]_vars => BeforeReady'
<1> SUFFICES ASSUME Typed, BeforeReady, [Next]_vars PROVE BeforeReady'
  OBVIOUS
<1>0. TdTypes /\ td \in Snapshots
  BY DEF Typed, TdTypes
<1>1. ASSUME UNCHANGED <<state, pending, requests, results, listeners, waiting, td>>
      PROVE  BeforeReady'
  BY <1>1 DEF BeforeReady, WasAuthorized
<1>2. ASSUME WasAuthorized, UNCHANGED <<state, pending>> PROVE BeforeReady'
  BY <1>2 DEF BeforeReady, WasAuthorized
<1>3. CASE UNCHANGED vars
  BY <1>1, <1>3 DEF vars, system, clientVars, tdVars
<1>4. ASSUME NEW s \in Streams, StreamStep(s) \/ EndStream(s) PROVE BeforeReady'
  BY <1>1, <1>4 DEF StreamStep, EndStream, set_client, on_file_ready, on_file_progress,
                    on_file_error, TakeMail, clientVars, tdVars
<1>5. ASSUME NEW s \in Streams, start_file_stream(s) PROVE BeforeReady'
  BY <1>5 DEF start_file_stream, BeforeReady, WasAuthorized
<1>6. ASSUME NEW r \in removals, remove_file_stream(r) PROVE BeforeReady'
  <2>1. UNCHANGED <<state, results, waiting, td>>
    BY <1>6 DEF remove_file_stream
  <2>2. CASE WasAuthorized
    <3>1. Len(pending) = 0 /\ \A k \in 1..0 : FALSE
      BY <2>2 DEF BeforeReady
    <3>2. pending' = pending
      BY <1>6, <3>1 DEF remove_file_stream
    <3> QED
      BY <1>2, <2>1, <2>2, <3>2
  <2>3. CASE ~WasAuthorized
    <3>1. UNCHANGED <<listeners, requests>>
      BY <1>6, <2>3 DEF remove_file_stream, BeforeReady
    <3> QED
      BY <2>1, <2>3, <3>1 DEF BeforeReady, WasAuthorized
  <2> QED
    BY <2>2, <2>3
<1>7. ASSUME NEW q \in Queries, getFile(q) PROVE BeforeReady'
  BY <1>2, <1>7 DEF getFile, WasAuthorized
<1>8. CASE ClientResult
  <2>1. PICK type : TakeResult(type)
    BY <1>8 DEF ClientResult, on_remote_file, on_remote_error, do_get_file, on_update,
                on_download_result, on_download_error
  <2> QED
    BY <1>2, <2>1 DEF TakeResult, BeforeReady
<1>9. CASE Authorize \/ BeginClosing
  BY <1>9 DEF Authorize, BeginClosing, BeforeReady, WasAuthorized
<1>10. CASE on_closed
  <2>1. td'.active = FALSE
    BY <1>0, <1>10 DEF on_closed, Snapshots
  <2> QED
    BY <1>10, <2>1 DEF on_closed, BeforeReady, WasAuthorized
<1>11. CASE TdRequest \/ TdComplete \/ TdStop \/ TdGrow
  <2>1. requests # <<>> \/ td.active
    BY <1>11 DEF TdRequest, TdGetRemoteFile, TdDownloadFile, TdCancelDownloadFile, TdDeleteFile,
                 TakeRequest, TdComplete, TdStop, TdGrow, TdStep
  <2>2. WasAuthorized
    BY <2>1 DEF BeforeReady
  <2> QED
    BY <1>0, <1>2, <1>11, <2>2, TdStepsAre DEF TdStepIs
<1> QED
  BY <1>3, <1>4, <1>5, <1>6, <1>7, <1>8, <1>9, <1>10, <1>11 DEF Next


-------------------------------------------------------------------------------
(* What a request or a result more, or one less, does to the queues. *)
LEMMA StartNoGive == \A r : ~(Starts(r) /\ Gives(r))
  BY DEF Starts, Gives

LEMMA MoreRequests ==
  ASSUME NEW q \in Seq(RequestType), NEW x \in RequestType
  PROVE  LET n == Append(q, x)
         IN  /\ Deletes(n) <=> Deletes(q) \/ x.type = "deleteFile"
             /\ NoGives(n) <=> NoGives(q) /\ ~Gives(x)
             /\ HasStart(n) <=> HasStart(q) \/ Starts(x)
             /\ StartsLast(n) <=> Starts(x) \/ (StartsLast(q) /\ ~Gives(x))
             /\ GivesLast(n) <=> Gives(x) \/ (GivesLast(q) /\ ~Starts(x))
             /\ HasQuery(n) <=> HasQuery(q) \/ (Starts(x) /\ ForQuery(x))
             /\ QueryLast(n) <=> QueryLast(q) /\ (Gives(x) => ~HasQuery(q))
<1>1. PICK n : n = Append(q, x)
  OBVIOUS
<1>2. /\ Len(q) \in Nat /\ Len(n) = Len(q) + 1 /\ n[Len(q) + 1] = x
      /\ \A k \in 1..Len(q) : n[k] = q[k] /\ k \in 1..Len(n) /\ k < Len(q) + 1
      /\ \A k \in 1..Len(n) : k \in 1..Len(q) \/ k = Len(q) + 1
      /\ Len(q) + 1 \in 1..Len(n)
  BY <1>1, Appending
<1>3. NoGives(n) <=> NoGives(q) /\ ~Gives(x)
  BY <1>2 DEF NoGives
<1>4. HasStart(n) <=> HasStart(q) \/ Starts(x)
  BY <1>2 DEF HasStart
<1>5. StartsLast(n) <=> Starts(x) \/ (StartsLast(q) /\ ~Gives(x))
  BY <1>2, StartNoGive DEF StartsLast
<1>6. GivesLast(n) <=> Gives(x) \/ (GivesLast(q) /\ ~Starts(x))
  BY <1>2, StartNoGive DEF GivesLast
<1>7. HasQuery(n) <=> HasQuery(q) \/ (Starts(x) /\ ForQuery(x))
  BY <1>2 DEF HasQuery
<1>8. QueryLast(n) <=> QueryLast(q) /\ (Gives(x) => ~HasQuery(q))
  BY <1>2, StartNoGive DEF QueryLast, HasQuery
<1>9. Deletes(n) <=> Deletes(q) \/ x.type = "deleteFile"
  BY <1>2 DEF Deletes
<1> QED
  BY <1>9, <1>1, <1>3, <1>4, <1>5, <1>6, <1>7, <1>8

LEMMA FewerRequests ==
  ASSUME NEW q \in Seq(RequestType), q # <<>>
  PROVE  LET h == Head(q)
             t == Tail(q)
         IN  /\ Deletes(q) <=> Deletes(t) \/ h.type = "deleteFile"
             /\ NoGives(q) <=> NoGives(t) /\ ~Gives(h)
             /\ HasStart(q) <=> HasStart(t) \/ Starts(h)
             /\ StartsLast(q) => StartsLast(t) \/ (Starts(h) /\ NoGives(t))
             /\ GivesLast(q) => GivesLast(t) \/ (Gives(h) /\ ~HasStart(t))
             /\ HasQuery(q) <=> HasQuery(t) \/ (Starts(h) /\ ForQuery(h))
             /\ QueryLast(q) => QueryLast(t) /\ (Starts(h) /\ ForQuery(h) => NoGives(t))
<1>1. PICK t : t = Tail(q)
  OBVIOUS
<1>2. PICK h : h = Head(q)
  OBVIOUS
<1>3. /\ Len(t) \in Nat /\ Len(q) = Len(t) + 1 /\ q[1] = h /\ 1 \in 1..Len(q)
      /\ \A k \in 1..Len(t) : k + 1 \in 1..Len(q) /\ t[k] = q[k + 1] /\ k + 1 > 1
      /\ \A k \in 1..Len(q) : k = 1 \/ (k - 1 \in 1..Len(t) /\ k = (k - 1) + 1)
      /\ \A j, k \in 1..Len(t) : j > k <=> j + 1 > k + 1
  BY <1>1, <1>2, Taking
<1>10. \A k \in 1..Len(q) : k = 1 \/ \E i \in 1..Len(t) : k = i + 1
  BY <1>3
<1>4. NoGives(q) <=> NoGives(t) /\ ~Gives(h)
  BY <1>3 DEF NoGives
<1>5. HasStart(q) <=> HasStart(t) \/ Starts(h)
  BY <1>3 DEF HasStart
<1>6. StartsLast(q) => StartsLast(t) \/ (Starts(h) /\ NoGives(t))
  BY <1>3, <1>10 DEF StartsLast, NoGives
<1>7. GivesLast(q) => GivesLast(t) \/ (Gives(h) /\ ~HasStart(t))
  BY <1>3, <1>10 DEF GivesLast, HasStart
<1>8. HasQuery(q) <=> HasQuery(t) \/ (Starts(h) /\ ForQuery(h))
  BY <1>3 DEF HasQuery
<1>9. QueryLast(q) => QueryLast(t) /\ (Starts(h) /\ ForQuery(h) => NoGives(t))
  <2> SUFFICES ASSUME QueryLast(q)
               PROVE  QueryLast(t) /\ (Starts(h) /\ ForQuery(h) => NoGives(t))
    OBVIOUS
  <2>1. ASSUME NEW k \in 1..Len(t), Starts(t[k]), ForQuery(t[k]), NEW j \in 1..Len(t), j > k
        PROVE  ~Gives(t[j])
    <3>1. /\ k + 1 \in 1..Len(q) /\ j + 1 \in 1..Len(q) /\ j + 1 > k + 1
          /\ t[k] = q[k + 1] /\ t[j] = q[j + 1]
      BY <1>3, <2>1
    <3> QED
      BY <2>1, <3>1 DEF QueryLast
  <2>2. QueryLast(t)
    BY <2>1 DEF QueryLast
  <2>3. Starts(h) /\ ForQuery(h) => NoGives(t)
    BY <1>3 DEF QueryLast, NoGives
  <2> QED
    BY <2>2, <2>3
<1>11. Deletes(q) <=> Deletes(t) \/ h.type = "deleteFile"
  BY <1>3 DEF Deletes
<1> QED
  BY <1>11, <1>1, <1>2, <1>4, <1>5, <1>6, <1>7, <1>8, <1>9


LEMMA MoreResults ==
  ASSUME NEW q \in Seq(ResultType), NEW x \in ResultType
  PROVE  LET n == Append(q, x)
         IN  /\ AllClean(n) <=> AllClean(q) /\ NoFault(x)
             /\ SomeComplete(n) <=> SomeComplete(q) \/ x.snap.completed
             /\ AllComplete(n) <=> AllComplete(q) /\ x.snap.completed
             /\ OnceComplete(q) /\ (SomeComplete(q) => x.snap.completed) => OnceComplete(n)
             /\ ReportsEnd(n) <=> ReportsEnd(q) \/ (Reports(x) /\ x.snap.completed)
             /\ NoStop(n) <=> NoStop(q) /\ ~Stopped(x)
             /\ HasAnswer(n) <=> HasAnswer(q) \/ StartedQuery(x)
             /\ NoStopAfter(q) /\ (HasAnswer(q) \/ StartedQuery(x) => ~Stopped(x)) => NoStopAfter(n)
<1>1. PICK n : n = Append(q, x)
  OBVIOUS
<1>2. /\ Len(q) \in Nat /\ Len(n) = Len(q) + 1 /\ n[Len(q) + 1] = x
      /\ \A k \in 1..Len(q) : n[k] = q[k] /\ k \in 1..Len(n) /\ ~(k >= Len(q) + 1)
      /\ \A k \in 1..Len(n) : k \in 1..Len(q) \/ k = Len(q) + 1
      /\ Len(q) + 1 \in 1..Len(n)
  BY <1>1, Appending
<1>3. AllClean(n) <=> AllClean(q) /\ NoFault(x)
  BY <1>2 DEF AllClean
<1>4. SomeComplete(n) <=> SomeComplete(q) \/ x.snap.completed
  BY <1>2 DEF SomeComplete
<1>5. AllComplete(n) <=> AllComplete(q) /\ x.snap.completed
  BY <1>2 DEF AllComplete
<1>6. OnceComplete(q) /\ (SomeComplete(q) => x.snap.completed) => OnceComplete(n)
  BY <1>2 DEF OnceComplete, SomeComplete
<1>7. ReportsEnd(n) <=> ReportsEnd(q) \/ (Reports(x) /\ x.snap.completed)
  BY <1>2 DEF ReportsEnd
<1>8. NoStop(n) <=> NoStop(q) /\ ~Stopped(x)
  BY <1>2 DEF NoStop
<1>9. HasAnswer(n) <=> HasAnswer(q) \/ StartedQuery(x)
  BY <1>2 DEF HasAnswer
<1>10. NoStopAfter(q) /\ (HasAnswer(q) \/ StartedQuery(x) => ~Stopped(x)) => NoStopAfter(n)
  BY <1>2 DEF NoStopAfter, HasAnswer
<1> QED
  BY <1>1, <1>3, <1>4, <1>5, <1>6, <1>7, <1>8, <1>9, <1>10

LEMMA FewerResults ==
  ASSUME NEW q \in Seq(ResultType), q # <<>>
  PROVE  LET h == Head(q)
             t == Tail(q)
         IN  /\ AllClean(q) <=> AllClean(t) /\ NoFault(h)
             /\ SomeComplete(q) <=> SomeComplete(t) \/ h.snap.completed
             /\ AllComplete(q) <=> AllComplete(t) /\ h.snap.completed
             /\ OnceComplete(q) => OnceComplete(t) /\ (h.snap.completed => AllComplete(t))
             /\ ReportsEnd(q) <=> ReportsEnd(t) \/ (Reports(h) /\ h.snap.completed)
             /\ NoStop(q) <=> NoStop(t) /\ ~Stopped(h)
             /\ HasAnswer(q) <=> HasAnswer(t) \/ StartedQuery(h)
             /\ NoStopAfter(q) => NoStopAfter(t) /\ (StartedQuery(h) => NoStop(t) /\ ~Stopped(h))
<1>1. PICK t : t = Tail(q)
  OBVIOUS
<1>2. PICK h : h = Head(q)
  OBVIOUS
<1>3. /\ Len(t) \in Nat /\ Len(q) = Len(t) + 1 /\ q[1] = h /\ 1 \in 1..Len(q) /\ 1 >= 1
      /\ \A k \in 1..Len(t) : k + 1 \in 1..Len(q) /\ t[k] = q[k + 1] /\ k + 1 > 1 /\ k + 1 >= 1
      /\ \A k \in 1..Len(q) : k = 1 \/ (k - 1 \in 1..Len(t) /\ t[k - 1] = q[k])
      /\ \A j, k \in 1..Len(t) : (j > k => j + 1 > k + 1) /\ (j >= k => j + 1 >= k + 1)
  BY <1>1, <1>2, Taking
<1>4. AllClean(q) <=> AllClean(t) /\ NoFault(h)
  BY <1>3 DEF AllClean
<1>5. SomeComplete(q) <=> SomeComplete(t) \/ h.snap.completed
  BY <1>3 DEF SomeComplete
<1>6. AllComplete(q) <=> AllComplete(t) /\ h.snap.completed
  BY <1>3 DEF AllComplete
<1>7. OnceComplete(q) => OnceComplete(t) /\ (h.snap.completed => AllComplete(t))
  <2> SUFFICES ASSUME OnceComplete(q)
               PROVE  OnceComplete(t) /\ (h.snap.completed => AllComplete(t))
    OBVIOUS
  <2>1. ASSUME NEW k \in 1..Len(t), t[k].snap.completed, NEW j \in 1..Len(t), j > k
        PROVE  t[j].snap.completed
    <3>1. /\ k + 1 \in 1..Len(q) /\ j + 1 \in 1..Len(q) /\ j + 1 > k + 1
          /\ t[k] = q[k + 1] /\ t[j] = q[j + 1]
      BY <1>3, <2>1
    <3> QED
      BY <2>1, <3>1 DEF OnceComplete
  <2>2. OnceComplete(t)
    BY <2>1 DEF OnceComplete
  <2>3. h.snap.completed => AllComplete(t)
    BY <1>3 DEF OnceComplete, AllComplete
  <2> QED
    BY <2>2, <2>3
<1>8. ReportsEnd(q) <=> ReportsEnd(t) \/ (Reports(h) /\ h.snap.completed)
  BY <1>3 DEF ReportsEnd
<1>9. NoStop(q) <=> NoStop(t) /\ ~Stopped(h)
  BY <1>3 DEF NoStop
<1>10. HasAnswer(q) <=> HasAnswer(t) \/ StartedQuery(h)
  BY <1>3 DEF HasAnswer
<1>11. NoStopAfter(q) => NoStopAfter(t) /\ (StartedQuery(h) => NoStop(t) /\ ~Stopped(h))
  <2> SUFFICES ASSUME NoStopAfter(q)
               PROVE  NoStopAfter(t) /\ (StartedQuery(h) => NoStop(t) /\ ~Stopped(h))
    OBVIOUS
  <2>1. ASSUME NEW k \in 1..Len(t), StartedQuery(t[k]), NEW j \in 1..Len(t), j >= k
        PROVE  ~Stopped(t[j])
    <3>1. /\ k + 1 \in 1..Len(q) /\ j + 1 \in 1..Len(q) /\ j + 1 >= k + 1
          /\ t[k] = q[k + 1] /\ t[j] = q[j + 1]
      BY <1>3, <2>1
    <3> QED
      BY <2>1, <3>1 DEF NoStopAfter
  <2>2. NoStopAfter(t)
    BY <2>1 DEF NoStopAfter
  <2>3. StartedQuery(h) => NoStop(t) /\ ~Stopped(h)
    BY <1>3 DEF NoStopAfter, NoStop
  <2> QED
    BY <2>2, <2>3
<1> QED
  BY <1>1, <1>2, <1>4, <1>5, <1>6, <1>7, <1>8, <1>9, <1>10, <1>11


-------------------------------------------------------------------------------
(* Who has asked for the file, and who is about to be answered. *)
LEMMA NamedMore ==
  ASSUME NEW S, NEW q \in Seq(S), NEW x \in S, NEW T
  PROVE  LET n == Append(q, x)
         IN  /\ \A w : Names(n, T, w) <=> Names(q, T, w) \/ (x.type \in T /\ x.who = w)
             /\ NamesOnce(q, T) /\ (x.type \in T => ~Names(q, T, x.who)) => NamesOnce(n, T)
<1>1. PICK n : n = Append(q, x)
  OBVIOUS
<1>2. /\ Len(q) \in Nat /\ Len(n) = Len(q) + 1 /\ n[Len(q) + 1] = x
      /\ \A k \in 1..Len(q) : n[k] = q[k] /\ k \in 1..Len(n)
      /\ \A k \in 1..Len(n) : k \in 1..Len(q) \/ k = Len(q) + 1
      /\ Len(q) + 1 \in 1..Len(n)
  BY <1>1, Appending
<1>3. \A w : Names(n, T, w) <=> Names(q, T, w) \/ (x.type \in T /\ x.who = w)
  BY <1>2 DEF Names
<1>4. NamesOnce(q, T) /\ (x.type \in T => ~Names(q, T, x.who)) => NamesOnce(n, T)
  BY <1>2 DEF NamesOnce, Names
<1> QED
  BY <1>1, <1>3, <1>4

LEMMA NamedLess ==
  ASSUME NEW S, NEW q \in Seq(S), q # <<>>, NEW T
  PROVE  LET h == Head(q)
             t == Tail(q)
         IN  /\ \A w : Names(q, T, w) <=> Names(t, T, w) \/ (h.type \in T /\ h.who = w)
             /\ NamesOnce(q, T) => NamesOnce(t, T) /\ (h.type \in T => ~Names(t, T, h.who))
<1>1. PICK t : t = Tail(q)
  OBVIOUS
<1>2. PICK h : h = Head(q)
  OBVIOUS
<1>3. /\ Len(t) \in Nat /\ Len(q) = Len(t) + 1 /\ q[1] = h /\ 1 \in 1..Len(q)
      /\ \A k \in 1..Len(t) : k + 1 \in 1..Len(q) /\ t[k] = q[k + 1] /\ k + 1 # 1
      /\ \A k \in 1..Len(q) : k = 1 \/ (k - 1 \in 1..Len(t) /\ t[k - 1] = q[k])
  BY <1>1, <1>2, Taking
<1>4. ASSUME NEW w PROVE Names(q, T, w) <=> Names(t, T, w) \/ (h.type \in T /\ h.who = w)
  <2>1. Names(q, T, w) => Names(t, T, w) \/ (h.type \in T /\ h.who = w)
    BY <1>3 DEF Names
  <2>2. Names(t, T, w) \/ (h.type \in T /\ h.who = w) => Names(q, T, w)
    BY <1>3 DEF Names
  <2> QED
    BY <2>1, <2>2
<1>5. ASSUME NamesOnce(q, T) PROVE NamesOnce(t, T)
  <2> SUFFICES ASSUME NEW j \in 1..Len(t), NEW k \in 1..Len(t), t[j].type \in T, t[k].type \in T,
                      t[j].who = t[k].who
               PROVE  j = k
    BY DEF NamesOnce
  <2>1. /\ k + 1 \in 1..Len(q) /\ j + 1 \in 1..Len(q) /\ t[k] = q[k + 1] /\ t[j] = q[j + 1]
    BY <1>3
  <2>2. j + 1 = k + 1
    BY <1>5, <2>1 DEF NamesOnce
  <2> QED
    BY <2>2
<1>6. ASSUME NamesOnce(q, T), h.type \in T PROVE ~Names(t, T, h.who)
  BY <1>3, <1>6 DEF NamesOnce, Names
<1> QED
  BY <1>1, <1>2, <1>4, <1>5, <1>6


(* The parts of TokenInv that a step has to keep. *)
LEMMA TokensKept ==
  ASSUME TokenInv, PendsOnce', NamesOnce(requests, AskTypes)', NamesOnce(results, AnswerTypes)',
         \A w \in Who : (Asks(w)' => Asks(w)) /\ (Answered(w)' => Answered(w)),
         \A s \in Streams : (Pends(s)' => Pends(s)) /\ (st[s].phase = "new")' = (st[s].phase = "new"),
         \A q \in Queries : Asks(q)' \/ Answered(q)' => answers'[q] = answers[q] /\ q \notin waiting',
         \A q \in waiting' : answers'[q] = "asked"
  PROVE  TokenInv'
  BY WhoAre DEF TokenInv, Asked

LEMMA AsksKept ==
  ASSUME TdTypes, NamesOnce(requests, AskTypes), NEW x \in RequestType, x.type # "getRemoteFile",
         requests' = requests \/ requests' = Append(requests, x)
  PROVE  NamesOnce(requests, AskTypes)' /\ \A w : Asks(w)' <=> Asks(w)
<1>1. x.type \notin AskTypes /\ requests \in Seq(RequestType)
  BY DEF AskTypes, TdTypes
<1>2. CASE requests' = requests
  BY <1>2 DEF Asks, Names, NamesOnce
<1>3. CASE requests' = Append(requests, x)
  <2>1. NamesOnce(Append(requests, x), AskTypes)
    BY <1>1, NamedMore
  <2>2. \A w : Names(Append(requests, x), AskTypes, w) <=> Names(requests, AskTypes, w)
    BY <1>1, NamedMore
  <2> QED
    BY <1>3, <2>1, <2>2 DEF Asks
<1> QED
  BY <1>2, <1>3

(* What a handler of a result does to the requests. *)
LEMMA ResultAsksNothing ==
  ASSUME TdTypes, ClientResult
  PROVE  \E x \in RequestType : /\ x.type \notin {"getRemoteFile", "deleteFile"}
                                /\ requests' = requests \/ requests' = Append(requests, x)
<1>1. /\ \A type \in {"downloadFile", "cancelDownloadFile"} :
           Request(type, "query") \in RequestType /\ Request(type, "stream") \in RequestType
           /\ Request(type, Nobody) \in RequestType
      /\ \A type, who : Request(type, who).type = type
  BY RequestTypes, WhoAre DEF Request
<1>2. requests \o AskForDownload = Append(requests, Request("downloadFile", "query"))
  BY AppendIsConcat, RequestTypes, WhoAre DEF TdTypes, AskForDownload
<1>3. \/ requests' = requests
      \/ requests' = Append(requests, Request("downloadFile", "stream"))
      \/ requests' = Append(requests, Request("downloadFile", "query"))
      \/ requests' = Append(requests, Request("cancelDownloadFile", Nobody))
  <2>1. CASE on_remote_file
    BY <2>1 DEF on_remote_file
  <2>2. CASE do_get_file
    BY <1>2, <2>2 DEF do_get_file
  <2>3. CASE on_remote_error \/ on_download_error
    BY <2>3 DEF on_remote_error, on_download_error
  <2>4. CASE on_update \/ on_download_result
    BY <2>4 DEF on_update, on_download_result, on_update_file
  <2> QED
    BY <2>1, <2>2, <2>3, <2>4 DEF ClientResult
<1> QED
  BY <1>1, <1>3

(* A handler of a result takes the answer to whoever it names. *)
LEMMA ResultTokens ==
  ASSUME Typed, TokenInv, ClientResult, NEW w \in Who, w = Head(results).who
  PROVE  /\ NamesOnce(results, AnswerTypes)' /\ \A v \in Who : Answered(v)' => Answered(v)
         /\ Head(results).type \in AnswerTypes => Answered(w) /\ ~Answered(w)'
         /\ NamesOnce(requests, AskTypes)' /\ \A v : Asks(v)' <=> Asks(v)
         /\ pending' = pending /\ st' = st
<1>0. TdTypes /\ ClientTypes
  BY DEF Typed
<1>1. PICK type : TakeResult(type)
  BY DEF ClientResult, on_remote_file, on_remote_error, do_get_file, on_update,
         on_download_result, on_download_error
<1>3. results \in Seq(ResultType) /\ results # <<>> /\ results' = Tail(results)
  BY <1>0, <1>1, ResultTaken DEF TdTypes
<1>4. /\ NamesOnce(results, AnswerTypes)' /\ \A v \in Who : Answered(v)' => Answered(v)
      /\ Head(results).type \in AnswerTypes => Answered(w) /\ ~Answered(w)'
  <2>1. /\ \A v : Names(results, AnswerTypes, v) <=>
                  \/ Names(Tail(results), AnswerTypes, v)
                  \/ Head(results).type \in AnswerTypes /\ Head(results).who = v
        /\ NamesOnce(results, AnswerTypes) =>
             /\ NamesOnce(Tail(results), AnswerTypes)
             /\ Head(results).type \in AnswerTypes =>
                  ~Names(Tail(results), AnswerTypes, Head(results).who)
    BY <1>3, NamedLess
  <2> QED
    BY <1>3, <2>1 DEF TokenInv, Answered
<1>5. NamesOnce(requests, AskTypes)' /\ \A v : Asks(v)' <=> Asks(v)
  <2>1. PICK x \in RequestType : /\ x.type \notin {"getRemoteFile", "deleteFile"}
                                 /\ requests' = requests \/ requests' = Append(requests, x)
    BY <1>0, ResultAsksNothing
  <2> QED
    BY <1>0, <2>1, AsksKept DEF TokenInv
<1>6. pending' = pending /\ st' = st
  BY <1>0, <1>1, ResultTaken DEF ClientResult, on_remote_file, on_remote_error, do_get_file,
     on_update, on_download_result, on_download_error, on_update_file, streamVars
<1> QED
  BY <1>4, <1>5, <1>6

LEMMA TokenResult ==
  ASSUME Typed, TokenInv, ClientResult
  PROVE  TokenInv'
<1>0. TdTypes /\ ClientTypes
  BY DEF Typed
<1>1. PICK type : TakeResult(type)
  BY DEF ClientResult, on_remote_file, on_remote_error, do_get_file, on_update,
         on_download_result, on_download_error
<1>2. PICK w \in Who : w = Head(results).who
  BY <1>0, <1>1, ResultTaken
<1>4. /\ NamesOnce(results, AnswerTypes)' /\ \A v \in Who : Answered(v)' => Answered(v)
      /\ Head(results).type \in AnswerTypes => Answered(w) /\ ~Answered(w)'
  BY <1>2, ResultTokens
<1>5. NamesOnce(requests, AskTypes)' /\ \A v : Asks(v)' <=> Asks(v)
  BY <1>2, ResultTokens
<1>6. pending' = pending /\ st' = st
  BY <1>2, ResultTokens
<1>7. PendsOnce' /\ \A s \in Streams : (Pends(s)' <=> Pends(s)) /\ (st[s].phase = "new")' = (st[s].phase = "new")
  BY <1>6 DEF TokenInv, PendsOnce, Pends
<1>8. /\ \A q \in Queries : Asks(q) \/ Answered(q) => answers[q] = "asked" /\ q \notin waiting
      /\ \A q \in waiting : answers[q] = "asked"
      /\ waiting \subseteq Queries /\ answers \in [Queries -> {"new", "asked", "ok", "failed"}]
      /\ Queries \subseteq Who /\ ~(Asks(w) /\ Answered(w))
  BY <1>0, WhoAre DEF TokenInv, ClientTypes
<1>9. ASSUME \/ UNCHANGED <<answers, waiting>>
             \/ \E a \in {"ok", "failed"} : on_file_download(waiting, a)
      PROVE  TokenInv'
  <2>1. /\ \A q \in Queries : Asks(q)' \/ Answered(q)' => answers'[q] = answers[q] /\ q \notin waiting'
        /\ \A q \in waiting' : answers'[q] = "asked"
    <3>1. CASE UNCHANGED <<answers, waiting>>
      BY <1>4, <1>5, <1>8, <3>1
    <3>2. ASSUME NEW a, on_file_download(waiting, a)
          PROVE  /\ \A q \in Queries : Asks(q)' \/ Answered(q)' => answers'[q] = answers[q] /\ q \notin waiting'
                 /\ \A q \in waiting' : answers'[q] = "asked"
      BY <1>4, <1>5, <1>8, <3>2 DEF on_file_download
    <3> QED
      BY <1>9, <3>1, <3>2
  <2> QED
    BY <1>4, <1>5, <1>7, <2>1, TokensKept
<1>10. CASE on_remote_file \/ on_update \/ on_download_result \/ on_download_error
  BY <1>9, <1>10 DEF on_remote_file, on_update, on_download_result, on_update_file, on_download_error
<1>11. CASE on_remote_error
  <2>1. CASE w \in Streams /\ UNCHANGED answers
    BY <1>9, <1>11, <2>1 DEF on_remote_error
  <2>2. CASE w \in Queries /\ answers' = [answers EXCEPT ![w] = "failed"]
    <3>1. Answered(w) /\ ~Answered(w)' /\ waiting' = waiting
      BY <1>4, <1>11 DEF on_remote_error, TakeResult, AnswerTypes
    <3>2. /\ \A q \in Queries : Asks(q)' \/ Answered(q)' => answers'[q] = answers[q] /\ q \notin waiting'
          /\ \A q \in waiting' : answers'[q] = "asked"
      BY <1>4, <1>5, <1>8, <2>2, <3>1
    <3> QED
      BY <1>4, <1>5, <1>7, <3>2, TokensKept
  <2> QED
    BY <1>2, <1>11, <2>1, <2>2 DEF on_remote_error
<1>12. CASE do_get_file
  <2>1. Answered(w) /\ ~Answered(w)' /\ w \in Queries
    BY <1>2, <1>4, <1>12 DEF do_get_file, TakeResult, AnswerTypes
  <2>2. \/ answers' = [answers EXCEPT ![w] = "failed"] /\ waiting' = waiting
        \/ on_file_download(waiting \cup {w}, "failed")
        \/ waiting' = waiting \cup {w} /\ answers' = answers
    BY <1>2, <1>12 DEF do_get_file
  <2>3. /\ \A q \in Queries : Asks(q)' \/ Answered(q)' => answers'[q] = answers[q] /\ q \notin waiting'
        /\ \A q \in waiting' : answers'[q] = "asked"
    BY <1>4, <1>5, <1>8, <2>1, <2>2 DEF on_file_download
  <2> QED
    BY <1>4, <1>5, <1>7, <2>3, TokensKept
<1> QED
  BY <1>10, <1>11, <1>12 DEF ClientResult


(* A stream that comes asks for the file, at once or once Client is ready. *)
LEMMA TokenStart ==
  ASSUME Typed, TokenInv, NEW s \in Streams, start_file_stream(s)
  PROVE  /\ TokenInv'
         /\ \A t \in Streams : Asked(t)' => Asked(t) \/ (t = s /\ <<pending, requests>>' # <<pending, requests>>)
<1>0. /\ requests \in Seq(RequestType) /\ pending \in Seq(Streams)
      /\ st \in [Streams -> StreamType] /\ st[s] \in StreamType
  BY DEF Typed, StreamTypes, ClientTypes, TdTypes
<1>1. /\ UNCHANGED <<waiting, answers, results>> /\ st[s].phase = "new"
      /\ st' = [st EXCEPT ![s] = [st[s] EXCEPT !.phase = "open"]]
  BY <1>0 DEF start_file_stream
<1>2. st'[s].phase = "open" /\ \A t \in Streams : t # s => st'[t] = st[t]
  BY <1>0, <1>1 DEF StreamType
<1>3. ~Asked(s) /\ s \in Who /\ s \notin Queries
  BY <1>1, WhoAre, NamesAssumption DEF TokenInv
<1>4. \/ UNCHANGED <<pending, requests>>
      \/ pending' = Append(pending, s) /\ requests' = requests
      \/ pending' = pending /\ requests' = Append(requests, Request("getRemoteFile", s))
  BY DEF start_file_stream
<1>5. PendsOnce' /\ \A t \in Streams : Pends(t)' => Pends(t) \/ (t = s /\ requests' = requests)
  <2>1. CASE pending' = pending
    BY <2>1 DEF TokenInv, PendsOnce, Pends
  <2>2. CASE pending' = Append(pending, s) /\ requests' = requests
    <3>1. PICK p : p = pending'
      OBVIOUS
    <3>2. /\ Len(pending) \in Nat /\ Len(p) = Len(pending) + 1 /\ p[Len(pending) + 1] = s
          /\ \A k \in 1..Len(pending) : p[k] = pending[k]
          /\ \A k \in 1..Len(p) : k \in 1..Len(pending) \/ k = Len(pending) + 1
      BY <1>0, <2>2, <3>1, Appending
    <3>3. \A k \in 1..Len(pending) : pending[k] # s
      BY <1>3 DEF Asked, Pends
    <3>4. \A j, k \in 1..Len(p) : p[j] = p[k] => j = k
      BY <3>2, <3>3 DEF TokenInv, PendsOnce
    <3>5. \A k \in 1..Len(p) : p[k] = s \/ \E j \in 1..Len(pending) : p[k] = pending[j]
      BY <3>2
    <3> QED
      BY <2>2, <3>1, <3>4, <3>5 DEF PendsOnce, Pends
  <2> QED
    BY <1>4, <2>1, <2>2
<1>6. NamesOnce(requests, AskTypes)' /\ \A w : Asks(w)' => Asks(w) \/ (w = s /\ pending' = pending)
  <2>1. CASE requests' = requests
    BY <2>1 DEF TokenInv, Asks
  <2>2. CASE pending' = pending /\ requests' = Append(requests, Request("getRemoteFile", s))
    <3>1. PICK x \in RequestType : x = Request("getRemoteFile", s) /\ x.who = s
      BY <1>3, RequestTypes DEF Request
    <3>2. NamesOnce(Append(requests, x), AskTypes)
      <4>1. NamesOnce(requests, AskTypes) /\ ~Names(requests, AskTypes, x.who)
        BY <1>3, <3>1 DEF TokenInv, Asked, Asks
      <4> QED
        BY <1>0, <4>1, NamedMore
    <3>3. \A w : Names(Append(requests, x), AskTypes, w) => Names(requests, AskTypes, w) \/ w = s
      BY <1>0, <3>1, NamedMore
    <3> QED
      BY <2>2, <3>1, <3>2, <3>3 DEF Asks
  <2> QED
    BY <1>4, <2>1, <2>2
<1>7. NamesOnce(results, AnswerTypes)' /\ \A w : Answered(w)' <=> Answered(w)
  BY <1>1 DEF TokenInv, Answered
<1>8. \A t \in Streams : Asked(t)' => st'[t].phase # "new"
  BY <1>2, <1>5, <1>6, <1>7 DEF TokenInv, Asked
<1>9. \A w \in Who : ~(Asks(w)' /\ Answered(w)')
  BY <1>3, <1>6, <1>7 DEF TokenInv, Asked
<1>10. /\ \A q \in Queries : Asks(q)' \/ Answered(q)' => answers'[q] = "asked" /\ q \notin waiting'
       /\ \A q \in waiting' : answers'[q] = "asked"
  BY <1>1, <1>3, <1>6, <1>7 DEF TokenInv
<1>11. UNCHANGED <<pending, requests>> => \A t \in Streams : Asked(t)' => Asked(t)
  BY <1>7 DEF Asked, Pends, Asks
<1>12. \A t \in Streams : Asked(t)' => Asked(t) \/ t = s
  BY <1>5, <1>6, <1>7 DEF Asked
<1> QED
  BY <1>5, <1>6, <1>7, <1>8, <1>9, <1>10, <1>11, <1>12 DEF TokenInv

LEMMA TokenGetFile ==
  ASSUME Typed, TokenInv, NEW q \in Queries, getFile(q)
  PROVE  TokenInv' /\ \A s \in Streams : Asked(s)' => Asked(s)
<1>0. /\ requests \in Seq(RequestType) /\ answers \in [Queries -> {"new", "asked", "ok", "failed"}]
      /\ waiting \subseteq Queries
  BY DEF Typed, ClientTypes, TdTypes
<1>1. /\ UNCHANGED <<st, pending, waiting, results>> /\ answers[q] = "new"
      /\ answers' = [answers EXCEPT ![q] = "asked"]
  BY DEF getFile, streamVars
<1>2. ~Asks(q) /\ ~Answered(q) /\ q \notin waiting /\ q \in Who /\ q \notin Streams
  BY <1>1, WhoAre, NamesAssumption DEF TokenInv
<1>3. PICK x \in RequestType : x = Request("getRemoteFile", q) /\ x.who = q
  BY <1>2, RequestTypes DEF Request
<1>4. requests' = Append(requests, x)
  BY <1>3 DEF getFile
<1>5. NamesOnce(requests, AskTypes)' /\ \A w : Asks(w)' => Asks(w) \/ w = q
  <2>1. NamesOnce(requests, AskTypes) /\ ~Names(requests, AskTypes, x.who)
    BY <1>2, <1>3 DEF TokenInv, Asks
  <2>2. NamesOnce(Append(requests, x), AskTypes)
    BY <1>0, <2>1, NamedMore
  <2>3. \A w : Names(Append(requests, x), AskTypes, w) => Names(requests, AskTypes, w) \/ w = q
    BY <1>0, <1>3, NamedMore
  <2> QED
    BY <1>4, <2>2, <2>3 DEF Asks
<1>6. /\ NamesOnce(results, AnswerTypes)' /\ PendsOnce'
      /\ \A w : (Answered(w)' <=> Answered(w)) /\ (Pends(w)' <=> Pends(w))
  BY <1>1 DEF TokenInv, Answered, PendsOnce, Pends
<1>7. \A t \in Streams : Asked(t)' => st'[t].phase # "new"
  BY <1>1, <1>2, <1>5, <1>6 DEF TokenInv, Asked
<1>8. \A w \in Who : ~(Asks(w)' /\ Answered(w)')
  BY <1>2, <1>5, <1>6 DEF TokenInv
<1>9. /\ \A p \in Queries : Asks(p)' \/ Answered(p)' => answers'[p] = "asked" /\ p \notin waiting'
      /\ \A p \in waiting' : answers'[p] = "asked"
  BY <1>0, <1>1, <1>2, <1>5, <1>6 DEF TokenInv
<1>10. \A s \in Streams : Asked(s)' => Asked(s)
  BY <1>2, <1>5, <1>6 DEF Asked
<1> QED
  BY <1>5, <1>6, <1>7, <1>8, <1>9, <1>10 DEF TokenInv

(* Authorization: the streams that wait ask for the file, in their order. *)
LEMMA AuthorizeIs ==
  ASSUME Typed, BeforeReady, Authorize
  PROVE  /\ requests' \in Seq(RequestType) /\ Len(requests') = Len(pending)
         /\ \A k \in 1..Len(pending) : requests'[k] = Request("getRemoteFile", pending[k])
<1>0. pending \in Seq(Streams) /\ Len(pending) \in Nat
  BY LenProperties DEF Typed, ClientTypes
<1>1. requests = <<>>
  BY DEF Authorize, BeforeReady, WasAuthorized
<1>2. PICK p : p = [k \in 1..Len(pending) |-> Request("getRemoteFile", pending[k])]
  OBVIOUS
<1>3. p \in Seq(RequestType) /\ Len(p) = Len(pending)
  <2>1. \A k \in 1..Len(pending) : pending[k] \in Who
    BY <1>0, LenProperties, ElementOfSeq, WhoAre
  <2>2. \A k \in 1..Len(pending) : Request("getRemoteFile", pending[k]) \in RequestType
    BY <2>1, RequestTypes
  <2>3. p \in Seq(RequestType)
    BY <1>0, <1>2, <2>2, IsASeq
  <2> QED
    BY <1>0, <1>2, <2>3, LenProperties
<1>4. requests' = p
  <2>1. requests' = requests \o p
    BY <1>2 DEF Authorize
  <2> QED
    BY <1>1, <1>3, <2>1, ConcatEmptySeq
<1> QED
  BY <1>2, <1>3, <1>4

LEMMA TokenAuthorize ==
  ASSUME Typed, BeforeReady, TokenInv, Authorize
  PROVE  TokenInv' /\ \A s \in Streams : Asked(s)' => Asked(s)
<1>0. pending \in Seq(Streams) /\ Len(pending) \in Nat
  BY LenProperties DEF Typed, ClientTypes
<1>1. UNCHANGED <<st, answers, waiting, results>> /\ requests = <<>> /\ pending' = <<>>
  BY DEF Authorize, streamVars, BeforeReady, WasAuthorized
<1>2. /\ Len(requests') = Len(pending)
      /\ \A k \in 1..Len(pending) : requests'[k] = Request("getRemoteFile", pending[k])
  BY AuthorizeIs
<1>5. \A k \in 1..Len(pending) : requests'[k].type = "getRemoteFile" /\ requests'[k].who = pending[k]
  BY <1>2, RequestIs
<1>6. NamesOnce(requests, AskTypes)' /\ \A w : Asks(w)' <=> Pends(w)
  BY <1>2, <1>5 DEF TokenInv, PendsOnce, NamesOnce, Asks, Names, Pends, AskTypes
<1>7. PendsOnce' /\ \A w : ~Pends(w)'
  <2>1. Len(pending') = 0 /\ \A k \in 1..0 : FALSE
    BY <1>1
  <2> QED
    BY <2>1 DEF PendsOnce, Pends
<1>8. results = <<>> /\ NamesOnce(results, AnswerTypes)' /\ \A w : ~Answered(w)'
  <2>1. results = <<>>
    BY DEF Authorize, BeforeReady, WasAuthorized
  <2>2. results' = <<>> /\ Len(results') = 0 /\ \A k \in 1..0 : FALSE
    BY <1>1, <2>1
  <2> QED
    BY <2>1, <2>2 DEF NamesOnce, Answered, Names
<1>9. \A w : Pends(w) => w \in Streams
  BY <1>0, ElementOfSeq DEF Pends
<1>10. \A q \in Queries : ~Pends(q)
  BY <1>9, NamesAssumption
<1> QED
  BY <1>1, <1>6, <1>7, <1>8, <1>10 DEF TokenInv, Asked


LEMMA TokenRemove ==
  ASSUME Typed, TokenInv, NEW r \in removals, remove_file_stream(r)
  PROVE  TokenInv' /\ \A s \in Streams : Asked(s)' => Asked(s)
<1>0. TdTypes /\ pending \in Seq(Streams) /\ Len(pending) \in Nat
  BY LenProperties DEF Typed, ClientTypes
<1>1. /\ UNCHANGED <<st, waiting, answers, results>>
      /\ pending' = pending \/ (Pends(r.stream) /\ pending' = Erased(r.stream))
      /\ requests' = requests \/ requests' = Append(requests, Request(RemovalRequest(r), Nobody))
  BY DEF remove_file_stream, Pends
<1>2. PendsOnce' /\ \A s \in Streams : Pends(s)' => Pends(s)
  <2>1. CASE pending' = pending
    BY <2>1 DEF TokenInv, PendsOnce, Pends
  <2>2. CASE Pends(r.stream) /\ pending' = Erased(r.stream)
    <3>1. PICK p : p = Erased(r.stream)
      OBVIOUS
    <3>2. PICK i \in 1..Len(pending) :
             /\ p \in Seq(Streams) /\ Len(p) = Len(pending) - 1
             /\ \A j \in 1..Len(p) :
                  /\ j < i => j \in 1..Len(pending) /\ p[j] = pending[j]
                  /\ j >= i => j + 1 \in 1..Len(pending) /\ p[j] = pending[j + 1]
      BY <1>0, <2>2, <3>1, ErasedIs
    <3>3. ASSUME NEW j \in 1..Len(p)
          PROVE  \E k \in 1..Len(pending) : p[j] = pending[k] /\ k = IF j < i THEN j ELSE j + 1
      BY <1>0, <3>2
    <3>4. ASSUME NEW j \in 1..Len(p), NEW k \in 1..Len(p), p[j] = p[k] PROVE j = k
      <4>1. PICK m \in 1..Len(pending) : p[j] = pending[m] /\ m = IF j < i THEN j ELSE j + 1
        BY <3>3
      <4>2. PICK n \in 1..Len(pending) : p[k] = pending[n] /\ n = IF k < i THEN k ELSE k + 1
        BY <3>3
      <4>3. m = n
        BY <3>4, <4>1, <4>2 DEF TokenInv, PendsOnce
      <4> QED
        BY <1>0, <3>2, <4>1, <4>2, <4>3
    <3>5. \A j \in 1..Len(p) : \E k \in 1..Len(pending) : p[j] = pending[k]
      BY <3>3
    <3> QED
      BY <2>2, <3>1, <3>4, <3>5 DEF PendsOnce, Pends
  <2> QED
    BY <1>1, <2>1, <2>2
<1>3. PICK x \in RequestType : x = Request(RemovalRequest(r), Nobody) /\ x.type # "getRemoteFile"
  BY RequestTypes, WhoAre DEF RemovalRequest, Request
<1>4. NamesOnce(requests, AskTypes)' /\ \A w : Asks(w)' <=> Asks(w)
  BY <1>0, <1>1, <1>3, AsksKept DEF TokenInv
<1>5. NamesOnce(results, AnswerTypes)' /\ \A w : Answered(w)' <=> Answered(w)
  BY <1>1 DEF TokenInv, Answered
<1>6. /\ \A q \in Queries : Asks(q)' \/ Answered(q)' => answers'[q] = answers[q] /\ q \notin waiting'
      /\ \A q \in waiting' : answers'[q] = "asked"
      /\ \A s \in Streams : (Pends(s)' => Pends(s)) /\ (st[s].phase = "new")' = (st[s].phase = "new")
  BY <1>1, <1>2, <1>4, <1>5 DEF TokenInv
<1>7. \A s \in Streams : Asked(s)' => Asked(s)
  BY <1>2, <1>4, <1>5 DEF Asked
<1> QED
  BY <1>2, <1>4, <1>5, <1>6, <1>7, TokensKept

(* The requests and the results in a step of TDLib. *)
TakesRequest == requests # <<>> /\ requests' = Tail(requests)
TdMoves ==
  \/ /\ TakesRequest /\ Head(requests).type = "getRemoteFile"
     /\ \E x \in ResultType : /\ results' = Append(results, x)
                              /\ x.type \in AnswerTypes /\ x.who = Head(requests).who
  \/ /\ requests' = requests \/ (TakesRequest /\ Head(requests).type # "getRemoteFile")
     /\ \/ results' = results
        \/ \E x \in ResultType : results' = Append(results, x) /\ x.type \notin AnswerTypes

LEMMA TdMovesAre ==
  ASSUME TdTypes, TdRequest \/ TdComplete \/ TdStop \/ TdGrow
  PROVE  TdMoves
<1>1. requests \in Seq(RequestType) /\ td \in Snapshots /\ td' \in Snapshots
  BY TdStepsAre DEF TdTypes, TdStepIs
<1>2. ASSUME NEW type, TakeRequest(type)
      PROVE  TakesRequest /\ Head(requests).type = type /\ Head(requests).who \in Who
  <2>1. Head(requests) \in RequestType
    BY <1>1, <1>2, Taking DEF TakeRequest
  <2> QED
    BY <1>2, <2>1 DEF TakeRequest, TakesRequest, RequestType
<1>3. \A type, who, snap : Result(type, who, snap).type = type /\ Result(type, who, snap).who = who
  BY DEF Result
<1>4. ASSUME Update
      PROVE  \/ results' = results
             \/ \E x \in ResultType : results' = Append(results, x) /\ x.type \notin AnswerTypes
  <2>1. PICK x \in ResultType : x = Result("updateFile", Nobody, td') /\ x.type = "updateFile"
    BY <1>1, <1>3, ResultTypes, WhoAre
  <2> QED
    BY <1>4, <2>1 DEF Update, Emit, AnswerTypes
<1>5. CASE TdGetRemoteFile
  <2>1. TakesRequest /\ Head(requests).type = "getRemoteFile" /\ Head(requests).who \in Who
    BY <1>2, <1>5 DEF TdGetRemoteFile
  <2>2. PICK w \in Who : w = Head(requests).who
    BY <2>1
  <2>3. PICK x \in ResultType : x = Result("remoteFile", w, td) /\ x.type = "remoteFile" /\ x.who = w
    BY <1>1, <1>3, ResultTypes
  <2>4. PICK y \in ResultType : y = Result("remoteError", w, NoSnap) /\ y.type = "remoteError" /\ y.who = w
    BY <1>3, ResultTypes, NoSnapType
  <2>5. results' = Append(results, x) \/ results' = Append(results, y)
    BY <1>5, <2>2, <2>3, <2>4 DEF TdGetRemoteFile, Emit
  <2> QED
    BY <2>1, <2>2, <2>3, <2>4, <2>5 DEF TdMoves, AnswerTypes
<1>6. CASE TdDownloadFile
  <2>1. TakesRequest /\ Head(requests).type = "downloadFile" /\ Head(requests).who \in Who
    BY <1>2, <1>6 DEF TdDownloadFile
  <2>2. PICK w \in Who : w = Head(requests).who
    BY <2>1
  <2>3. PICK x \in ResultType : x = Result("file", w, td') /\ x.type = "file"
    BY <1>1, <1>3, ResultTypes
  <2>4. PICK y \in ResultType : y = Result("downloadError", w, NoSnap) /\ y.type = "downloadError"
    BY <1>3, ResultTypes, NoSnapType
  <2>5. results' = Append(results, x) \/ results' = Append(results, y)
    BY <1>6, <2>2, <2>3, <2>4 DEF TdDownloadFile, Emit
  <2> QED
    BY <2>1, <2>3, <2>4, <2>5 DEF TdMoves, AnswerTypes
<1>7. CASE TdCancelDownloadFile \/ TdDeleteFile
  <2>1. TakesRequest /\ Head(requests).type # "getRemoteFile" /\ Update
    BY <1>2, <1>7 DEF TdCancelDownloadFile, TdDeleteFile
  <2> QED
    BY <1>4, <2>1 DEF TdMoves
<1>8. CASE TdComplete \/ TdStop \/ TdGrow
  BY <1>4, <1>8 DEF TdComplete, TdStop, TdGrow, TdStep, TdMoves
<1> QED
  BY <1>5, <1>6, <1>7, <1>8 DEF TdRequest

LEMMA TokenTd ==
  ASSUME Typed, TokenInv, TdMoves, TdStepIs
  PROVE  TokenInv' /\ \A s \in Streams : Asked(s)' => Asked(s)
<1>0. requests \in Seq(RequestType) /\ results \in Seq(ResultType)
  BY DEF Typed, TdTypes
<1>1. UNCHANGED <<st, pending, waiting, answers>>
  BY DEF TdStepIs
<1>2. PendsOnce' /\ \A w : Pends(w)' <=> Pends(w)
  BY <1>1 DEF TokenInv, PendsOnce, Pends
<1>3. NamesOnce(requests, AskTypes)' /\ \A w : Asks(w)' => Asks(w)
  <2>1. CASE requests' = requests
    BY <2>1 DEF TokenInv, Asks
  <2>2. CASE TakesRequest
    <3>1. /\ NamesOnce(Tail(requests), AskTypes)
          /\ \A w : Names(Tail(requests), AskTypes, w) => Names(requests, AskTypes, w)
      BY <1>0, <2>2, NamedLess DEF TakesRequest, TokenInv
    <3> QED
      BY <2>2, <3>1 DEF TakesRequest, Asks
  <2> QED
    BY <2>1, <2>2 DEF TdMoves
<1>4. CASE TakesRequest /\ Head(requests).type = "getRemoteFile"
  <2>1. PICK h : h = Head(requests)
    OBVIOUS
  <2>2. PICK x \in ResultType : /\ results' = Append(results, x)
                                /\ x.type \in AnswerTypes /\ x.who = h.who
    BY <1>4, <2>1 DEF TdMoves, TakesRequest
  <2>3. h \in RequestType /\ h.who \in Who /\ h.type \in AskTypes
    <3>1. h \in RequestType
      BY <1>0, <1>4, <2>1, Taking DEF TakesRequest
    <3> QED
      BY <1>4, <2>1, <3>1 DEF RequestType, AskTypes
  <2>4. Asks(h.who) /\ ~Asks(h.who)'
    <3>1. /\ Names(requests, AskTypes, h.who)
          /\ ~Names(Tail(requests), AskTypes, h.who)
      BY <1>0, <1>4, <2>1, <2>3, NamedLess DEF TakesRequest, TokenInv
    <3> QED
      BY <1>4, <3>1 DEF TakesRequest, Asks
  <2>5. ~Answered(h.who)
    BY <2>3, <2>4 DEF TokenInv
  <2>6. NamesOnce(results, AnswerTypes)' /\ \A w : Answered(w)' => Answered(w) \/ w = h.who
    <3>1. /\ NamesOnce(Append(results, x), AnswerTypes)
          /\ \A w : Names(Append(results, x), AnswerTypes, w) => Names(results, AnswerTypes, w) \/ w = h.who
      BY <1>0, <2>2, <2>5, NamedMore DEF TokenInv, Answered
    <3> QED
      BY <2>2, <3>1 DEF Answered
  <2>7. \A s \in Streams : Asked(s)' => st'[s].phase # "new"
    BY <1>1, <1>2, <1>3, <2>4, <2>6 DEF TokenInv, Asked
  <2>8. \A w \in Who : ~(Asks(w)' /\ Answered(w)')
    BY <1>3, <2>4, <2>6 DEF TokenInv
  <2>9. /\ \A q \in Queries : Asks(q)' \/ Answered(q)' => answers'[q] = "asked" /\ q \notin waiting'
        /\ \A q \in waiting' : answers'[q] = "asked"
    BY <1>1, <1>3, <2>4, <2>6 DEF TokenInv
  <2>10. \A s \in Streams : Asked(s)' => Asked(s)
    BY <1>2, <1>3, <2>4, <2>6 DEF Asked
  <2> QED
    BY <1>2, <1>3, <2>6, <2>7, <2>8, <2>9, <2>10 DEF TokenInv
<1>5. CASE \/ results' = results
           \/ \E x \in ResultType : results' = Append(results, x) /\ x.type \notin AnswerTypes
  <2>1. NamesOnce(results, AnswerTypes)' /\ \A w : Answered(w)' <=> Answered(w)
    <3>1. CASE results' = results
      BY <3>1 DEF TokenInv, Answered
    <3>2. ASSUME NEW x \in ResultType, results' = Append(results, x), x.type \notin AnswerTypes
          PROVE  NamesOnce(results, AnswerTypes)' /\ \A w : Answered(w)' <=> Answered(w)
      <4>1. /\ NamesOnce(Append(results, x), AnswerTypes)
            /\ \A w : Names(Append(results, x), AnswerTypes, w) <=> Names(results, AnswerTypes, w)
        BY <1>0, <3>2, NamedMore DEF TokenInv
      <4> QED
        BY <3>2, <4>1 DEF Answered
    <3> QED
      BY <1>5, <3>1, <3>2
  <2>2. /\ \A q \in Queries : Asks(q)' \/ Answered(q)' => answers'[q] = answers[q] /\ q \notin waiting'
        /\ \A q \in waiting' : answers'[q] = "asked"
        /\ \A s \in Streams : (Pends(s)' => Pends(s)) /\ (st[s].phase = "new")' = (st[s].phase = "new")
    BY <1>1, <1>2, <1>3, <2>1 DEF TokenInv
  <2>3. \A s \in Streams : Asked(s)' => Asked(s)
    BY <1>2, <1>3, <2>1 DEF Asked
  <2> QED
    BY <1>2, <1>3, <2>1, <2>2, <2>3, TokensKept
<1> QED
  BY <1>4, <1>5 DEF TdMoves

LEMMA StepTokens == Typed /\ BeforeReady /\ TokenInv /\ [Next]_vars => TokenInv'
<1> SUFFICES ASSUME Typed, BeforeReady, TokenInv, [Next]_vars PROVE TokenInv'
  OBVIOUS
<1>0. StreamTypes /\ TdTypes
  BY DEF Typed
<1>1. ASSUME UNCHANGED <<pending, requests, results, answers, waiting>>,
             \A s \in Streams : (st[s].phase = "new")' = (st[s].phase = "new")
      PROVE  TokenInv'
  BY <1>1 DEF TokenInv, PendsOnce, Asked, Pends, Asks, Answered
<1>2. CASE UNCHANGED vars
  BY <1>1, <1>2 DEF vars, system, clientVars, tdVars, streamVars
<1>3. ASSUME NEW s \in Streams, StreamStep(s) \/ EndStream(s) PROVE TokenInv'
  <2>1. UNCHANGED <<pending, requests, results, answers, waiting>>
    BY <1>3 DEF StreamStep, EndStream, set_client, on_file_ready, on_file_progress,
                on_file_error, TakeMail, clientVars, tdVars
  <2>2. st[s].phase # "new" /\ st'[s].phase # "new" /\ \A t \in Streams : t # s => st'[t] = st[t]
    BY <1>0, <1>3, StreamStepIs DEF GoesOn, Closes, Open, OthersSame
  <2> QED
    BY <1>1, <2>1, <2>2
<1>4. CASE BeginClosing
  BY <1>1, <1>4 DEF BeginClosing, streamVars, tdVars
<1>5. CASE on_closed
  <2>1. /\ st' = st /\ waiting' = {} /\ pending' = <<>> /\ requests' = <<>> /\ results' = <<>>
        /\ Len(pending') = 0 /\ Len(requests') = 0 /\ Len(results') = 0
    BY <1>5 DEF on_closed
  <2>2. \A k \in 1..0 : FALSE
    OBVIOUS
  <2>3. /\ PendsOnce' /\ NamesOnce(requests, AskTypes)' /\ NamesOnce(results, AnswerTypes)'
        /\ \A w : ~Pends(w)' /\ ~Asks(w)' /\ ~Answered(w)'
    BY <2>1, <2>2 DEF PendsOnce, NamesOnce, Pends, Asks, Answered, Names
  <2> QED
    BY <2>1, <2>3 DEF TokenInv, Asked
<1>6. CASE TdRequest \/ TdComplete \/ TdStop \/ TdGrow
  BY <1>0, <1>6, TokenTd, TdMovesAre, TdStepsAre
<1> QED
  BY <1>2, <1>3, <1>4, <1>5, <1>6, TokenStart, TokenRemove, TokenGetFile, TokenResult,
     TokenAuthorize DEF Next


-------------------------------------------------------------------------------
(* A file is deleted only for a served No-Cache stream. *)
LEMMA ServedStays ==
  ASSUME \A s \in Streams : st[s].served => st'[s].served, Deleted
  PROVE  Deleted'
  BY NoCacheAssumption DEF Deleted

LEMMA DeletesStream ==
  ASSUME Typed, DeletesKnown, NEW s \in Streams, StreamStep(s) \/ EndStream(s)
  PROVE  DeletesKnown' /\ (Deleted => Deleted')
<1>0. StreamTypes /\ removals \subseteq RemovalType
  BY DEF Typed, StreamTypes
<1>1. requests' = requests
  BY DEF StreamStep, EndStream, set_client, on_file_ready, on_file_progress,
         on_file_error, TakeMail, tdVars
<1>2. Open(s) /\ OthersSame(s)
  BY <1>0, StreamStepIs DEF GoesOn, Closes
<1>3. ~st[s].served
  BY <1>2 DEF DeletesKnown, Open
<1>4. \A r \in removals : r.delete => r.stream \in Streams /\ r.stream # s
  BY <1>0, <1>3 DEF DeletesKnown, RemovalType
<1>5. Deleted => Deleted'
  BY <1>2, <1>3, ServedStays DEF OthersSame
<1>6. ASSUME NEW type, GoesOn(s, type) PROVE DeletesKnown'
  BY <1>1, <1>3, <1>4, <1>5, <1>6 DEF GoesOn, OthersSame, DeletesKnown
<1>7. ASSUME NEW ok \in BOOLEAN, Closes(s, ok) PROVE DeletesKnown'
  <2>1. Removal(s, ok).stream = s /\ (Removal(s, ok).delete <=> ok /\ s \in NoCache)
    BY DEF Removal
  <2>2. removals' \subseteq removals \cup {Removal(s, ok)} /\ st'[s].served = ok /\ st'[s].phase = "closed"
    BY <1>7 DEF Closes
  <2>3. \A r \in removals' : r.delete => r.stream \in NoCache /\ st'[r.stream].served
    BY <1>2, <1>4, <2>1, <2>2 DEF OthersSame, DeletesKnown
  <2> QED
    BY <1>1, <1>2, <1>5, <2>2, <2>3 DEF OthersSame, DeletesKnown
<1> QED
  BY <1>0, <1>5, <1>6, <1>7, StreamStepIs

LEMMA StepDeletes == Typed /\ BeforeReady /\ DeletesKnown /\ [Next]_vars => DeletesKnown' /\ (Deleted => Deleted')
<1> SUFFICES ASSUME Typed, BeforeReady, DeletesKnown, [Next]_vars
             PROVE  DeletesKnown' /\ (Deleted => Deleted')
  OBVIOUS
<1>0. TdTypes /\ requests \in Seq(RequestType) /\ removals \subseteq RemovalType
  BY DEF Typed, StreamTypes, TdTypes
<1>1. ASSUME st' = st, removals' \subseteq removals, Deletes(requests)' => Deleted
      PROVE  DeletesKnown' /\ (Deleted => Deleted')
  BY <1>1 DEF DeletesKnown, Deleted
<1>2. CASE UNCHANGED vars
  BY <1>1, <1>2 DEF vars, system, streamVars, tdVars, DeletesKnown
<1>3. ASSUME NEW s \in Streams, start_file_stream(s)
      PROVE  DeletesKnown' /\ (Deleted => Deleted')
  <2>0. st \in [Streams -> StreamType] /\ st[s] \in StreamType
    BY DEF Typed, StreamTypes
  <2>1. /\ removals' = removals /\ st[s].phase = "new"
        /\ st' = [st EXCEPT ![s] = [st[s] EXCEPT !.phase = "open"]]
    BY <1>3, <2>0 DEF start_file_stream
  <2>2. st'[s].served = st[s].served /\ \A t \in Streams : t # s => st'[t] = st[t]
    BY <2>0, <2>1 DEF StreamType
  <2>3. ~st[s].served
    BY <2>1 DEF DeletesKnown
  <2>4. Deleted => Deleted'
    BY <2>2, ServedStays
  <2>5. Deletes(requests)' => Deletes(requests)
    <3>1. PICK x \in RequestType : x = Request("getRemoteFile", s) /\ x.type = "getRemoteFile"
      BY RequestTypes, WhoAre DEF Request
    <3>2. requests' = requests \/ requests' = Append(requests, x)
      BY <1>3, <3>1 DEF start_file_stream
    <3>3. Deletes(Append(requests, x)) => Deletes(requests)
      BY <1>0, <3>1, MoreRequests
    <3> QED
      BY <3>2, <3>3
  <2>6. \A r \in removals : r.delete => r.stream \in Streams /\ r.stream # s
    BY <1>0, <2>3 DEF DeletesKnown, RemovalType
  <2> QED
    BY <2>1, <2>2, <2>3, <2>4, <2>5, <2>6 DEF DeletesKnown
<1>4. ASSUME NEW r \in removals, remove_file_stream(r)
      PROVE  DeletesKnown' /\ (Deleted => Deleted')
  <2>1. PICK x \in RequestType : x = Request(RemovalRequest(r), Nobody)
    BY RequestTypes, WhoAre DEF RemovalRequest
  <2>2. x.type = "deleteFile" => r.delete
    BY <2>1 DEF RemovalRequest, Request
  <2>3. r.delete => Deleted
    BY DEF DeletesKnown, Deleted
  <2>4. requests' = requests \/ requests' = Append(requests, x)
    BY <1>4, <2>1 DEF remove_file_stream
  <2>5. Deletes(Append(requests, x)) => Deletes(requests) \/ x.type = "deleteFile"
    BY <1>0, MoreRequests
  <2>6. Deletes(requests)' => Deleted
    BY <2>2, <2>3, <2>4, <2>5 DEF DeletesKnown
  <2> QED
    BY <1>1, <1>4, <2>6 DEF remove_file_stream
<1>5. ASSUME NEW q \in Queries, getFile(q)
      PROVE  DeletesKnown' /\ (Deleted => Deleted')
  <2>1. PICK x \in RequestType : x = Request("getRemoteFile", q) /\ x.type = "getRemoteFile"
    BY RequestTypes, WhoAre DEF Request
  <2>2. requests' = Append(requests, x)
    BY <1>5, <2>1 DEF getFile
  <2>3. Deletes(Append(requests, x)) => Deletes(requests)
    BY <1>0, <2>1, MoreRequests
  <2> QED
    BY <1>1, <1>5, <2>2, <2>3 DEF getFile, streamVars, DeletesKnown
<1>6. CASE ClientResult
  <2>1. PICK x \in RequestType : /\ x.type \notin {"getRemoteFile", "deleteFile"}
                                 /\ requests' = requests \/ requests' = Append(requests, x)
    BY <1>0, <1>6, ResultAsksNothing
  <2>2. Deletes(Append(requests, x)) => Deletes(requests)
    BY <1>0, <2>1, MoreRequests
  <2>3. UNCHANGED <<st, removals>>
    BY <1>6 DEF ClientResult, on_remote_file, on_remote_error, do_get_file,
                on_update, on_download_result, on_download_error, on_update_file, streamVars
  <2> QED
    BY <1>1, <2>1, <2>2, <2>3 DEF DeletesKnown
<1>7. CASE Authorize
  <2>1. \A k \in 1..Len(requests') : requests'[k].type = "getRemoteFile"
    BY <1>7, AuthorizeIs, RequestIs
  <2> QED
    BY <1>1, <1>7, <2>1 DEF Authorize, streamVars, Deletes
<1>8. CASE BeginClosing
  BY <1>1, <1>8 DEF BeginClosing, streamVars, tdVars, DeletesKnown
<1>9. CASE on_closed
  <2>1. Len(requests') = 0 /\ \A k \in 1..0 : FALSE
    BY <1>9 DEF on_closed
  <2> QED
    BY <1>1, <1>9, <2>1 DEF on_closed, Deletes
<1>10. CASE TdRequest \/ TdComplete \/ TdStop \/ TdGrow
  <2>1. TdStepIs
    BY <1>0, <1>10, TdStepsAre
  <2>2. requests # <<>> => (Deletes(Tail(requests)) => Deletes(requests))
    BY <1>0, FewerRequests
  <2>3. Deletes(requests)' => Deletes(requests)
    BY <2>1, <2>2 DEF TdStepIs
  <2> QED
    BY <1>1, <2>1, <2>3 DEF TdStepIs, DeletesKnown
<1> QED
  BY <1>2, <1>3, <1>4, <1>5, <1>6, <1>7, <1>8, <1>9, <1>10, DeletesStream DEF Next


-------------------------------------------------------------------------------
(* The queues before and after a step, in the terms of DownloadInv. *)
RequestCame(x) ==
  /\ NoGives(requests') <=> NoGives(requests) /\ ~Gives(x)
  /\ HasStart(requests') <=> HasStart(requests) \/ Starts(x)
  /\ StartsLast(requests') <=> Starts(x) \/ (StartsLast(requests) /\ ~Gives(x))
  /\ GivesLast(requests') <=> Gives(x) \/ (GivesLast(requests) /\ ~Starts(x))
  /\ HasQuery(requests') <=> HasQuery(requests) \/ (Starts(x) /\ ForQuery(x))
  /\ QueryLast(requests') <=> QueryLast(requests) /\ (Gives(x) => ~HasQuery(requests))

RequestGone(h) ==
  /\ NoGives(requests) <=> NoGives(requests') /\ ~Gives(h)
  /\ HasStart(requests) <=> HasStart(requests') \/ Starts(h)
  /\ StartsLast(requests) => StartsLast(requests') \/ (Starts(h) /\ NoGives(requests'))
  /\ GivesLast(requests) => GivesLast(requests') \/ (Gives(h) /\ ~HasStart(requests'))
  /\ HasQuery(requests) <=> HasQuery(requests') \/ (Starts(h) /\ ForQuery(h))
  /\ QueryLast(requests) => QueryLast(requests') /\ (Starts(h) /\ ForQuery(h) => NoGives(requests'))

ResultCame(x) ==
  /\ AllClean(results') <=> AllClean(results) /\ NoFault(x)
  /\ SomeComplete(results') <=> SomeComplete(results) \/ x.snap.completed
  /\ AllComplete(results') <=> AllComplete(results) /\ x.snap.completed
  /\ OnceComplete(results) /\ (SomeComplete(results) => x.snap.completed) => OnceComplete(results')
  /\ ReportsEnd(results') <=> ReportsEnd(results) \/ (Reports(x) /\ x.snap.completed)
  /\ NoStop(results') <=> NoStop(results) /\ ~Stopped(x)
  /\ HasAnswer(results') <=> HasAnswer(results) \/ StartedQuery(x)
  /\ NoStopAfter(results) /\ (HasAnswer(results) \/ StartedQuery(x) => ~Stopped(x)) =>
       NoStopAfter(results')

ResultGone(h) ==
  /\ AllClean(results) <=> AllClean(results') /\ NoFault(h)
  /\ SomeComplete(results) <=> SomeComplete(results') \/ h.snap.completed
  /\ AllComplete(results) <=> AllComplete(results') /\ h.snap.completed
  /\ OnceComplete(results) => OnceComplete(results') /\ (h.snap.completed => AllComplete(results'))
  /\ ReportsEnd(results) <=> ReportsEnd(results') \/ (Reports(h) /\ h.snap.completed)
  /\ NoStop(results) <=> NoStop(results') /\ ~Stopped(h)
  /\ HasAnswer(results) <=> HasAnswer(results') \/ StartedQuery(h)
  /\ NoStopAfter(results) =>
       NoStopAfter(results') /\ (StartedQuery(h) => NoStop(results') /\ ~Stopped(h))

LEMMA RequestComes ==
  ASSUME TdTypes, NEW x \in RequestType, requests' = Append(requests, x)
  PROVE  RequestCame(x)
<1>1. requests \in Seq(RequestType)
  BY DEF TdTypes
<1> QED
  BY <1>1, MoreRequests DEF RequestCame

LEMMA RequestGoes ==
  ASSUME TdTypes, TakesRequest
  PROVE  RequestGone(Head(requests))
<1>1. requests \in Seq(RequestType) /\ requests # <<>> /\ requests' = Tail(requests)
  BY DEF TdTypes, TakesRequest
<1> QED
  BY <1>1, FewerRequests DEF RequestGone

LEMMA ResultComes ==
  ASSUME TdTypes, NEW x \in ResultType, results' = Append(results, x)
  PROVE  ResultCame(x)
<1>1. results \in Seq(ResultType)
  BY DEF TdTypes
<1> QED
  BY <1>1, MoreResults DEF ResultCame

LEMMA ResultGoes ==
  ASSUME TdTypes, NEW type, TakeResult(type)
  PROVE  ResultGone(Head(results))
<1>1. results \in Seq(ResultType) /\ results # <<>> /\ results' = Tail(results)
  BY ResultTaken DEF TdTypes
<1> QED
  BY <1>1, FewerResults DEF ResultGone

(* The requests are as before, as far as the download is concerned. *)
RequestsAlike ==
  /\ NoGives(requests') <=> NoGives(requests)
  /\ HasStart(requests') <=> HasStart(requests)
  /\ StartsLast(requests) => StartsLast(requests')
  /\ GivesLast(requests) => GivesLast(requests')
  /\ HasQuery(requests') <=> HasQuery(requests)
  /\ QueryLast(requests) => QueryLast(requests')

LEMMA AskIsAlike ==
  ASSUME TdTypes, NEW w \in Who, requests' = Append(requests, Request("getRemoteFile", w))
  PROVE  RequestsAlike
<1>1. PICK x \in RequestType : x = Request("getRemoteFile", w) /\ x.type = "getRemoteFile"
  BY RequestTypes, RequestIs
<1>2. ~Gives(x) /\ ~Starts(x) /\ RequestCame(x)
  BY <1>1, RequestComes DEF Gives, Starts
<1> QED
  BY <1>2 DEF RequestCame, RequestsAlike

(* A step that leaves the download alone. *)
LEMMA DownloadAlike ==
  ASSUME DownloadInv, RequestsAlike, UNCHANGED <<scenario, listeners, waiting, started, results, td>>,
         Closing => Closing', Deleted => Deleted', SomeOk' <=> SomeOk,
         \A q \in Queries : answers'[q] = "failed" => answers[q] = "failed"
  PROVE  DownloadInv'
<1>1. NoTdFault' <=> NoTdFault
  BY DEF NoTdFault, Faults
<1>2. NoTdFault' => Clean'
  BY <1>1 DEF DownloadInv, Clean
<1>3. ASSUME Working' PROVE FedInv' /\ HarmInv' /\ CancelInv'
  <2>1. FedInv /\ HarmInv /\ CancelInv
    BY <1>1, <1>3 DEF DownloadInv, Working
  <2>2. FedInv'
    BY <2>1 DEF FedInv, Fed, Runs, EndReported, RequestsAlike
  <2>4. StaysComplete => StaysComplete'
    BY DEF StaysComplete
  <2>5. AskedByQuery => AskedByQuery'
    BY DEF AskedByQuery, RequestsAlike, Runs
  <2>6. HarmInv'
    BY <2>1, <2>4, <2>5 DEF HarmInv
  <2>7. CancelInv'
    BY <2>1 DEF CancelInv, Wanted, RequestsAlike
  <2> QED
    BY <2>2, <2>6, <2>7
<1> QED
  BY <1>2, <1>3 DEF DownloadInv

LEMMA DownloadAsks ==
  ASSUME Typed, BeforeReady, DownloadInv, scenario' = scenario,
         \/ \E s \in Streams : start_file_stream(s)
         \/ \E q \in Queries : getFile(q)
         \/ Authorize
  PROVE  DownloadInv'
<1>0. TdTypes /\ st \in [Streams -> StreamType] /\ answers \in [Queries -> {"new", "asked", "ok", "failed"}]
  BY DEF Typed, StreamTypes, ClientTypes
<1>1. ASSUME NEW s \in Streams, start_file_stream(s) PROVE DownloadInv'
  <2>1. /\ UNCHANGED <<listeners, waiting, started, answers, results, td, state>>
        /\ st' = [st EXCEPT ![s].phase = "open"]
        /\ requests' = requests \/ requests' = Append(requests, Request("getRemoteFile", s))
    BY <1>1 DEF start_file_stream
  <2>2. \A t \in Streams : st'[t].served = st[t].served
    <3>1. st[s] \in StreamType /\ st' = [st EXCEPT ![s] = [st[s] EXCEPT !.phase = "open"]]
      BY <1>0, <2>1
    <3>2. st'[s].served = st[s].served /\ \A t \in Streams : t # s => st'[t] = st[t]
      BY <1>0, <3>1 DEF StreamType
    <3> QED
      BY <3>2
  <2>3. Deleted => Deleted'
    BY <2>2, ServedStays
  <2>4. RequestsAlike
    BY <1>0, <2>1, AskIsAlike, WhoAre DEF RequestsAlike
  <2>5. (Closing => Closing') /\ (SomeOk' <=> SomeOk)
    BY <2>1 DEF Closing, SomeOk
  <2> QED
    BY <2>1, <2>3, <2>4, <2>5, DownloadAlike
<1>2. ASSUME NEW q \in Queries, getFile(q) PROVE DownloadInv'
  <2>1. /\ UNCHANGED <<st, listeners, waiting, started, results, td, state>>
        /\ requests' = Append(requests, Request("getRemoteFile", q))
        /\ answers[q] = "new" /\ answers' = [answers EXCEPT ![q] = "asked"]
    BY <1>2 DEF getFile, streamVars
  <2>2. RequestsAlike
    BY <1>0, <2>1, AskIsAlike, WhoAre
  <2>3. \A p \in Queries : answers'[p] = answers[p] \/ (p = q /\ answers'[p] = "asked" /\ answers[p] = "new")
    BY <1>0, <2>1
  <2>4. /\ \A p \in Queries : answers'[p] = "failed" => answers[p] = "failed"
        /\ \A p \in Queries : answers'[p] = "ok" <=> answers[p] = "ok"
    BY <2>3
  <2>5. (Closing => Closing') /\ (Deleted => Deleted') /\ (SomeOk' <=> SomeOk)
    BY <2>1, <2>4 DEF Closing, SomeOk, Deleted
  <2> QED
    BY <2>1, <2>2, <2>4, <2>5, DownloadAlike
<1>3. CASE Authorize
  <2>1. UNCHANGED <<st, listeners, waiting, started, answers, results, td>> /\ requests = <<>> /\ ~Closing
    BY <1>3 DEF Authorize, streamVars, BeforeReady, WasAuthorized, Closing
  <2>2. \A k \in 1..Len(requests') : ~Gives(requests'[k]) /\ ~Starts(requests'[k])
    BY <1>3, AuthorizeIs, RequestIs DEF Gives, Starts
  <2>3. Len(requests) = 0 /\ \A k \in 1..0 : FALSE
    BY <2>1
  <2>4. RequestsAlike
    BY <2>2, <2>3 DEF RequestsAlike, NoGives, HasStart, StartsLast, GivesLast, HasQuery, QueryLast
  <2> QED
    BY <2>1, <2>4, DownloadAlike DEF SomeOk, Deleted
<1> QED
  BY <1>1, <1>2, <1>3


(* The last listener gives the download up only if no query waits. *)
LEMMA DownloadRemove ==
  ASSUME Typed, DownloadInv, scenario' = scenario, NEW r \in removals, remove_file_stream(r)
  PROVE  DownloadInv'
<1>0. TdTypes
  BY DEF Typed
<1>1. UNCHANGED <<st, state, waiting, started, answers, results, td>>
  BY DEF remove_file_stream
<1>2. /\ Closing' <=> Closing
      /\ Deleted' <=> Deleted
      /\ SomeOk' <=> SomeOk
      /\ NoTdFault' <=> NoTdFault
  BY <1>1 DEF Closing, Deleted, SomeOk, NoTdFault, Faults
<1>3. CASE UNCHANGED <<listeners, requests>>
  <2>1. RequestsAlike
    BY <1>3 DEF RequestsAlike
  <2> QED
    BY <1>1, <1>2, <1>3, <2>1, DownloadAlike
<1>4. CASE r.file /\ listeners # {}
  <2>1. listeners' \subseteq listeners
    BY <1>4 DEF remove_file_stream
  <2>2. PICK x \in RequestType : x = Request(RemovalRequest(r), Nobody) /\ x.type = RemovalRequest(r)
    BY RequestTypes, WhoAre, RequestIs DEF RemovalRequest
  <2>3. Gives(x) /\ ~Starts(x)
    BY <2>2 DEF RemovalRequest, Gives, Starts
  <2>4. /\ requests' = requests \/ requests' = Append(requests, x)
        /\ requests' # requests => listeners' = {} /\ waiting = {}
        /\ ~Closing /\ listeners' = {} /\ waiting = {} => requests' = Append(requests, x)
    BY <1>4, <2>2 DEF remove_file_stream, StillWanted
  <2>5. NoTdFault' => Clean'
    BY <1>1, <1>2 DEF DownloadInv, Clean
  <2>6. ASSUME Working' PROVE FedInv' /\ HarmInv' /\ CancelInv'
    <3>1. FedInv /\ HarmInv /\ CancelInv /\ ~Closing
      BY <1>2, <2>6 DEF DownloadInv, Working
    <3>2. StaysComplete => StaysComplete'
      BY <1>1, <1>2 DEF StaysComplete
    <3>3. CASE requests' = requests
      <4>1. FedInv'
        BY <1>1, <2>1, <3>1, <3>3 DEF FedInv, Fed, Runs, EndReported
      <4>2. AskedByQuery => AskedByQuery'
        BY <1>1, <3>3 DEF AskedByQuery, Runs
      <4>3. HarmInv'
        BY <1>1, <1>2, <3>1, <3>2, <4>2 DEF HarmInv
      <4>4. listeners' # {} \/ waiting # {} \/ GivesLast(requests')
        <5>1. CASE requests' = Append(requests, x)
          BY <1>0, <2>3, <5>1, RequestComes DEF RequestCame
        <5> QED
          BY <2>4, <3>1, <5>1
      <4>5. CancelInv'
        BY <1>1, <4>4 DEF CancelInv, Wanted
      <4> QED
        BY <4>1, <4>3, <4>5
    <3>4. CASE requests' # requests
      <4>1. listeners' = {} /\ waiting = {} /\ waiting' = {} /\ RequestCame(x)
        BY <1>0, <1>1, <2>4, <3>4, RequestComes
      <4>2. FedInv' /\ CancelInv'
        BY <2>3, <4>1 DEF FedInv, CancelInv, Wanted, RequestCame
      <4>3. AskedByQuery => AskedByQuery'
        BY <1>1, <2>3, <4>1 DEF AskedByQuery, Runs, RequestCame
      <4>4. HarmInv'
        BY <1>1, <1>2, <3>1, <3>2, <4>3 DEF HarmInv
      <4> QED
        BY <4>2, <4>4
    <3> QED
      BY <3>3, <3>4
  <2> QED
    BY <2>5, <2>6 DEF DownloadInv
<1> QED
  BY <1>3, <1>4 DEF remove_file_stream

(* What the results that Client handles have in common. *)
LEMMA ResultClean ==
  ASSUME Typed, DownloadInv, scenario' = scenario, ClientResult
  PROVE  /\ NoTdFault' => NoTdFault /\ Clean' /\ NoFault(Head(results))
         /\ ResultGone(Head(results)) /\ UNCHANGED <<st, state, td>>
         /\ Working' => Working /\ FedInv /\ HarmInv /\ CancelInv
         /\ Deleted' <=> Deleted
<1>0. TdTypes
  BY DEF Typed
<1>1. PICK type : TakeResult(type)
  BY DEF ClientResult, on_remote_file, on_remote_error, do_get_file, on_update,
         on_download_result, on_download_error
<1>2. UNCHANGED <<td, state>> /\ ResultGone(Head(results))
  BY <1>0, <1>1, ResultTaken, ResultGoes
<1>3. st' = st
  BY DEF ClientResult, on_remote_file, on_remote_error, do_get_file, on_update,
         on_download_result, on_download_error, on_update_file, streamVars
<1>4. NoTdFault' <=> NoTdFault
  BY DEF NoTdFault, Faults
<1>5. NoTdFault' => Clean' /\ NoFault(Head(results))
  BY <1>2, <1>4 DEF DownloadInv, Clean, ResultGone
<1>6. Working' => Working /\ FedInv /\ HarmInv /\ CancelInv
  BY <1>2, <1>4 DEF DownloadInv, Working, Closing
<1>7. Deleted' <=> Deleted
  BY <1>3 DEF Deleted
<1> QED
  BY <1>2, <1>3, <1>4, <1>5, <1>6, <1>7

(* The answers to getRemoteFile. *)
LEMMA DownloadAnswers ==
  ASSUME Typed, DownloadInv, scenario' = scenario, on_remote_file \/ do_get_file
  PROVE  DownloadInv'
<1>0. TdTypes /\ ClientResult
  BY DEF Typed, ClientResult
<1>1. PICK h : h = Head(results)
  OBVIOUS
<1>2. h.type = "remoteFile"
  BY <1>1 DEF on_remote_file, do_get_file, TakeResult
<1>3. ~Reports(h) /\ ~Stopped(h) /\ ~StartedQuery(h)
  BY <1>2 DEF Reports, Stopped, StartedQuery
<1>4. /\ NoTdFault' => NoTdFault /\ Clean' /\ NoFault(h)
      /\ ResultGone(h) /\ UNCHANGED <<st, state, td>>
      /\ Working' => Working /\ FedInv /\ HarmInv /\ CancelInv
      /\ Deleted' <=> Deleted
  BY <1>0, <1>1, ResultClean
<1>5. ASSUME Working', on_remote_file PROVE FedInv' /\ HarmInv' /\ CancelInv'
  <2>1. FedInv /\ HarmInv /\ CancelInv /\ ~Closing /\ UNCHANGED <<waiting, started, answers>>
    BY <1>4, <1>5 DEF Working, on_remote_file
  <2>2. SomeOk' <=> SomeOk
    BY <2>1 DEF SomeOk
  <2>3. StaysComplete => StaysComplete'
    BY <1>4, <2>2 DEF StaysComplete, ResultGone
  <2>4. PICK x \in RequestType : x = Request("downloadFile", "stream") /\ x.type = "downloadFile" /\ x.who = "stream"
    BY RequestTypes, WhoAre, RequestIs
  <2>5. Starts(x) /\ ~Gives(x) /\ ~ForQuery(x)
    BY <2>4 DEF Starts, Gives, ForQuery
  <2>6. \/ UNCHANGED <<listeners, requests>>
        \/ listeners # {} /\ listeners' # {} /\ requests' = requests
        \/ listeners = {} /\ listeners' # {} /\ requests' = Append(requests, x)
    BY <1>5, <2>1, <2>4 DEF on_remote_file, NeedStartDownload
  <2>7. CASE requests' = requests
    <3>1. FedInv'
      BY <1>3, <1>4, <2>1, <2>6, <2>7 DEF FedInv, Fed, Runs, EndReported, ResultGone
    <3>2. AskedByQuery => AskedByQuery'
      BY <1>3, <1>4, <2>1, <2>7 DEF AskedByQuery, Runs, ResultGone
    <3>3. HarmInv'
      BY <1>4, <2>1, <2>2, <2>3, <3>2 DEF HarmInv
    <3>4. CancelInv'
      BY <1>4, <2>1, <2>6, <2>7 DEF CancelInv, Wanted
    <3> QED
      BY <3>1, <3>3, <3>4
  <2>8. CASE listeners' # {} /\ requests' = Append(requests, x)
    <3>0. RequestCame(x)
      BY <1>0, <2>8, RequestComes
    <3>1. FedInv'
      BY <2>5, <3>0 DEF FedInv, Fed, EndReported, RequestCame
    <3>2. AskedByQuery => AskedByQuery'
      BY <1>3, <1>4, <2>1, <2>5, <3>0 DEF AskedByQuery, Runs, ResultGone, RequestCame
    <3>3. HarmInv'
      BY <1>4, <2>1, <2>2, <2>3, <3>2 DEF HarmInv
    <3>4. CancelInv'
      BY <2>8 DEF CancelInv, Wanted
    <3> QED
      BY <3>1, <3>3, <3>4
  <2> QED
    BY <2>6, <2>7, <2>8
<1>6. ASSUME Working', do_get_file PROVE FedInv' /\ HarmInv' /\ CancelInv'
  <2>1. FedInv /\ HarmInv /\ CancelInv /\ ~Closing /\ ~h.snap.big
    BY <1>4, <1>6 DEF Working, NoFault
  <2>2. PICK x \in RequestType : x = Request("downloadFile", "query") /\ x.type = "downloadFile" /\ x.who = "query"
    BY RequestTypes, WhoAre, RequestIs
  <2>3. requests \o AskForDownload = Append(requests, x)
    BY <1>0, <2>2, AppendIsConcat DEF TdTypes, AskForDownload
  <2>4. /\ waiting' # {} /\ requests' = Append(requests, x) /\ UNCHANGED <<answers, started, listeners>>
    BY <1>1, <1>6, <2>1, <2>3 DEF do_get_file
  <2>5. Starts(x) /\ ~Gives(x) /\ RequestCame(x)
    BY <1>0, <2>2, <2>4, RequestComes DEF Starts, Gives
  <2>6. SomeOk' <=> SomeOk
    BY <2>4 DEF SomeOk
  <2>7. StaysComplete => StaysComplete'
    BY <1>4, <2>6 DEF StaysComplete, ResultGone
  <2>8. FedInv' /\ CancelInv'
    BY <2>4, <2>5 DEF FedInv, Fed, EndReported, RequestCame, CancelInv, Wanted
  <2>9. AskedByQuery => AskedByQuery'
    BY <1>3, <1>4, <2>4, <2>5 DEF AskedByQuery, Runs, ResultGone, RequestCame
  <2>10. HarmInv'
    BY <1>4, <2>1, <2>4, <2>6, <2>7, <2>9 DEF HarmInv
  <2> QED
    BY <2>8, <2>10
<1> QED
  BY <1>4, <1>5, <1>6 DEF DownloadInv

(* The reports of the download. *)
LEMMA DownloadReports ==
  ASSUME Typed, TokenInv, DownloadInv, scenario' = scenario, on_update \/ on_download_result
  PROVE  DownloadInv'
<1>0. /\ TdTypes /\ ClientResult /\ waiting \subseteq Queries
      /\ answers \in [Queries -> {"new", "asked", "ok", "failed"}]
  BY DEF Typed, ClientTypes, ClientResult
<1>1. PICK h : h = Head(results)
  OBVIOUS
<1>2. PICK b \in BOOLEAN :
        /\ on_update_file(h.snap, b)
        /\ b => waiting # {}
        /\ b => started \/ StartedQuery(h)
        /\ started => b
  <2>1. PICK b \in BOOLEAN : b <=> started \/ (h.type = "file" /\ MarksStarted(h.who))
    OBVIOUS
  <2>2. b => (started \/ StartedQuery(h)) /\ waiting # {}
    BY <2>1 DEF MarksStarted, StartedQuery, ForQuery, Typed, StartedMarksWaiting
  <2>3. on_update_file(h.snap, b)
    <3>1. CASE on_update
      <4>1. h.type = "updateFile" /\ on_update_file(h.snap, started)
        BY <1>1, <3>1 DEF on_update, TakeResult
      <4>2. started = b
        BY <2>1, <4>1 DEF Typed, ClientTypes
      <4> QED
        BY <4>1, <4>2
    <3>2. CASE on_download_result
      <4>1. h.type = "file" /\ on_update_file(h.snap, started \/ MarksStarted(h.who))
        BY <1>1, <3>2 DEF on_download_result, TakeResult
      <4>2. (started \/ MarksStarted(h.who)) = b
        BY <2>1, <4>1 DEF Typed, ClientTypes
      <4> QED
        BY <4>1, <4>2
    <3> QED
      BY <3>1, <3>2
  <2> QED
    BY <2>1, <2>2, <2>3
<1>3. Reports(h)
  BY <1>1 DEF on_update, on_download_result, TakeResult, Reports
<1>4. /\ NoTdFault' => NoTdFault /\ Clean' /\ NoFault(h)
      /\ ResultGone(h) /\ UNCHANGED <<st, state, td>>
      /\ Working' => Working /\ FedInv /\ HarmInv /\ CancelInv
      /\ Deleted' <=> Deleted
  BY <1>0, <1>1, ResultClean
<1>5. ASSUME Working' PROVE FedInv' /\ HarmInv' /\ CancelInv'
  <2>1. FedInv /\ HarmInv /\ CancelInv /\ ~h.snap.big
    BY <1>4, <1>5 DEF Working, NoFault
  <2>2. listeners' = listeners /\ requests' = requests
    BY <1>2, <2>1 DEF on_update_file
  <2>3. CASE UNCHANGED <<answers, waiting>> /\ started' = b
             /\ (waiting = {} \/ (~h.snap.completed /\ ~StopFailsQuery(b, h.snap)))
    <3>1. FedInv'
      BY <1>4, <2>1, <2>2, <2>3 DEF FedInv, Fed, Runs, EndReported, ResultGone
    <3>2. SomeOk' <=> SomeOk
      BY <2>3 DEF SomeOk
    <3>3. StaysComplete => StaysComplete'
      BY <1>4, <3>2 DEF StaysComplete, ResultGone
    <3>4. AskedByQuery => AskedByQuery'
      BY <1>2, <1>4, <2>2, <2>3 DEF AskedByQuery, Runs, ResultGone
    <3>5. HarmInv'
      BY <1>4, <2>1, <2>3, <3>2, <3>3, <3>4 DEF HarmInv
    <3>6. CancelInv'
      BY <1>4, <2>1, <2>2, <2>3 DEF CancelInv, Wanted
    <3> QED
      BY <3>1, <3>5, <3>6
  <2>4. CASE waiting # {} /\ h.snap.completed /\ on_file_download(waiting, "ok")
    <3>1. waiting' = {} /\ \A q \in Queries : answers'[q] = IF q \in waiting THEN "ok" ELSE answers[q]
      BY <2>4 DEF on_file_download
    <3>2. SomeOk'
      BY <1>0, <2>4, <3>1 DEF SomeOk
    <3>3. FedInv'
      BY <1>4, <2>1, <2>2, <3>1 DEF FedInv, Fed, Runs
    <3>4. StaysComplete => StaysComplete' /\ td.completed
      BY <1>4, <2>4 DEF StaysComplete, ResultGone
    <3>5. HarmInv'
      BY <1>4, <2>1, <3>1, <3>2, <3>4 DEF HarmInv
    <3>6. CancelInv'
      BY <1>4, <2>1, <3>4 DEF CancelInv, HarmInv
    <3> QED
      BY <3>3, <3>5, <3>6
  <2>5. CASE waiting # {} /\ ~h.snap.completed /\ StopFailsQuery(b, h.snap) /\ on_file_download(waiting, "failed")
    <3>1. b /\ Stopped(h) /\ waiting' = {}
      BY <1>3, <2>5 DEF StopFailsQuery, Stopped, on_file_download
    <3>2. ~AskedByQuery
      BY <1>2, <1>4, <3>1 DEF AskedByQuery, ResultGone
    <3>3. SomeOk /\ Deleted
      BY <1>4, <2>1, <2>5, <3>2 DEF HarmInv, StaysComplete, ResultGone
    <3>4. SomeOk'
      <4>1. PICK q \in Queries : answers[q] = "ok"
        BY <3>3 DEF SomeOk
      <4>2. q \notin waiting
        BY <4>1 DEF TokenInv
      <4> QED
        BY <2>5, <4>1, <4>2 DEF on_file_download, SomeOk
    <3>5. FedInv'
      BY <1>4, <2>1, <2>2, <3>1 DEF FedInv, Fed, Runs
    <3> QED
      BY <1>4, <3>3, <3>4, <3>5 DEF HarmInv, CancelInv
  <2>6. \/ UNCHANGED <<answers, waiting>> /\ started' = b
           /\ (waiting = {} \/ (~h.snap.completed /\ ~StopFailsQuery(b, h.snap)))
        \/ waiting # {} /\ h.snap.completed /\ on_file_download(waiting, "ok")
        \/ /\ waiting # {} /\ ~h.snap.completed /\ StopFailsQuery(b, h.snap)
           /\ on_file_download(waiting, "failed")
    BY <1>2, <2>1 DEF on_update_file
  <2> QED
    BY <2>3, <2>4, <2>5, <2>6
<1> QED
  BY <1>4, <1>5 DEF DownloadInv


(* TDLib: what it sends bears the state of the file after its step. *)
LEMMA ResultIs == \A type, who, snap : /\ Result(type, who, snap).type = type
                                       /\ Result(type, who, snap).who = who
                                       /\ Result(type, who, snap).snap = snap
  BY DEF Result

LEMMA UpdateIs ==
  ASSUME TdTypes, td' \in Snapshots, Update, td' # td
  PROVE  \E x \in ResultType : /\ x.type = "updateFile" /\ x.who = Nobody /\ x.snap = td'
                               /\ results' = Append(results, x)
<1>1. PICK x \in ResultType : x = Result("updateFile", Nobody, td')
  BY ResultTypes, WhoAre
<1> QED
  BY <1>1, ResultIs DEF Update, Emit

LEMMA DownloadTdAsked ==
  ASSUME Typed, NoTdFault, TdGetRemoteFile, TdStepIs, TakesRequest,
         Working => FedInv /\ HarmInv /\ CancelInv, Clean
  PROVE  Clean' /\ (Working => FedInv' /\ HarmInv' /\ CancelInv')
<1>0. TdTypes /\ requests \in Seq(RequestType) /\ td \in Snapshots
  BY DEF Typed, TdTypes
<1>1. PICK w \in Who : w = Head(requests).who
  <2>1. Head(requests) \in RequestType
    BY <1>0, Taking DEF TakesRequest
  <2> QED
    BY <2>1 DEF RequestType
<1>2. PICK x \in ResultType : x = Result("remoteFile", w, td) /\ x.type = "remoteFile" /\ x.snap = td
  BY <1>0, ResultTypes, ResultIs
<1>3. td' = td /\ results' = Append(results, x) /\ Head(requests).type = "getRemoteFile"
  BY <1>1, <1>2 DEF TdGetRemoteFile, NoTdFault, TdFaults, TakeRequest, Emit
<1>4. ~Reports(x) /\ ~Stopped(x) /\ ~StartedQuery(x) /\ (x.snap.completed <=> td.completed) /\ (x.snap.big <=> td.big)
  BY <1>2 DEF Reports, Stopped, StartedQuery
<1>5. ResultCame(x) /\ RequestGone(Head(requests))
  BY <1>0, <1>3, ResultComes, RequestGoes
<1>6. ~Gives(Head(requests)) /\ ~Starts(Head(requests))
  BY <1>3 DEF Gives, Starts
<1>7. RequestsAlike
  BY <1>5, <1>6 DEF RequestGone, RequestsAlike
<1>8. Clean'
  BY <1>2, <1>3, <1>4, <1>5 DEF Clean, ResultCame, NoFault
<1>9. ASSUME Working PROVE FedInv' /\ HarmInv' /\ CancelInv'
  <2>1. FedInv /\ HarmInv /\ CancelInv /\ UNCHANGED <<st, listeners, waiting, started, answers>>
    BY <1>9 DEF TdStepIs
  <2>2. (SomeOk' <=> SomeOk) /\ (Deleted' <=> Deleted)
    BY <2>1 DEF SomeOk, Deleted
  <2>3. FedInv'
    BY <1>3, <1>5, <1>7, <2>1 DEF FedInv, Fed, Runs, EndReported, RequestsAlike, ResultCame
  <2>4. StaysComplete => StaysComplete'
    BY <1>3, <1>4, <1>5, <2>2 DEF StaysComplete, ResultCame
  <2>5. AskedByQuery => AskedByQuery'
    BY <1>3, <1>4, <1>5, <1>7, <2>1 DEF AskedByQuery, Runs, ResultCame, RequestsAlike
  <2>6. HarmInv'
    BY <2>1, <2>2, <2>4, <2>5 DEF HarmInv
  <2>7. CancelInv'
    BY <1>3, <1>7, <2>1, <2>2 DEF CancelInv, Wanted, RequestsAlike
  <2> QED
    BY <2>3, <2>6, <2>7
<1> QED
  BY <1>8, <1>9

LEMMA DownloadTdStarts ==
  ASSUME Typed, NoTdFault, TdDownloadFile, TdStepIs, TakesRequest,
         Working => FedInv /\ HarmInv /\ CancelInv, Clean
  PROVE  Clean' /\ (Working => FedInv' /\ HarmInv' /\ CancelInv')
<1>0. TdTypes /\ requests \in Seq(RequestType) /\ td \in Snapshots /\ td' \in Snapshots
  BY DEF Typed, TdTypes, TdStepIs
<1>1. PICK h \in RequestType : h = Head(requests)
  BY <1>0, Taking DEF TakesRequest
<1>2. h.type = "downloadFile" /\ h.who \in Who
  BY <1>1 DEF TdDownloadFile, TakeRequest, RequestType
<1>3. PICK x \in ResultType : x = Result("file", h.who, td') /\ x.type = "file" /\ x.snap = td' /\ x.who = h.who
  BY <1>0, <1>2, ResultTypes, ResultIs
<1>4. /\ td' = IF td.completed THEN td ELSE [td EXCEPT !.exists = TRUE, !.active = TRUE]
      /\ results' = Append(results, x)
  BY <1>1, <1>3 DEF TdDownloadFile, NoTdFault, TdFaults, Emit
<1>5. /\ td'.active \/ td'.completed
      /\ td'.completed <=> td.completed
      /\ td'.big <=> td.big
      /\ td'.completed => (td'.active <=> td.active)
  BY <1>0, <1>4 DEF Snapshots
<1>6. Reports(x) /\ ~Stopped(x) /\ (StartedQuery(x) <=> ForQuery(h))
  BY <1>3, <1>5 DEF Reports, Stopped, StartedQuery, ForQuery
<1>7. ResultCame(x) /\ RequestGone(h)
  BY <1>0, <1>1, <1>4, ResultComes, RequestGoes
<1>8. ~Gives(h) /\ Starts(h)
  BY <1>2 DEF Gives, Starts
<1>9. Clean'
  BY <1>3, <1>5, <1>7 DEF Clean, ResultCame, NoFault
<1>10. x.snap.completed <=> td.completed
  BY <1>3, <1>5
<1>11. ASSUME Working PROVE FedInv' /\ HarmInv' /\ CancelInv'
  <2>1. FedInv /\ HarmInv /\ CancelInv /\ UNCHANGED <<st, listeners, waiting, started, answers>>
    BY <1>11 DEF TdStepIs
  <2>2. (SomeOk' <=> SomeOk) /\ (Deleted' <=> Deleted)
    BY <2>1 DEF SomeOk, Deleted
  <2>3. Fed => Fed'
    BY <1>5, <1>7, <1>8 DEF Fed, Runs, RequestGone
  <2>4. EndReported'
    BY <1>5, <1>6, <1>7, <1>10 DEF EndReported, ResultCame
  <2>5. FedInv'
    BY <2>1, <2>3, <2>4 DEF FedInv
  <2>6. StaysComplete => StaysComplete'
    BY <1>5, <1>7, <1>10, <2>2 DEF StaysComplete, ResultCame
  <2>7. AskedByQuery => AskedByQuery'
    BY <1>5, <1>6, <1>7, <1>8, <2>1 DEF AskedByQuery, Runs, ResultCame, RequestGone
  <2>8. HarmInv'
    BY <2>1, <2>2, <2>6, <2>7 DEF HarmInv
  <2>9. CancelInv'
    BY <1>5, <1>7, <1>8, <2>1, <2>2 DEF CancelInv, Wanted, RequestGone
  <2> QED
    BY <2>5, <2>8, <2>9
<1> QED
  BY <1>9, <1>11

LEMMA DownloadTdGives ==
  ASSUME Typed, DeletesKnown, NoTdFault, TdCancelDownloadFile \/ TdDeleteFile, TdStepIs, TakesRequest,
         Working => FedInv /\ HarmInv /\ CancelInv, Clean
  PROVE  Clean' /\ (Working => FedInv' /\ HarmInv' /\ CancelInv')
<1>0. TdTypes /\ requests \in Seq(RequestType) /\ td \in Snapshots /\ td' \in Snapshots
  BY DEF Typed, TdTypes, TdStepIs
<1>1. PICK h \in RequestType : h = Head(requests)
  BY <1>0, Taking DEF TakesRequest
<1>2. /\ h.type \in {"cancelDownloadFile", "deleteFile"} /\ Update
      /\ h.type = "cancelDownloadFile" => td' = [td EXCEPT !.active = FALSE]
      /\ h.type = "deleteFile" => td' = [NoSnap EXCEPT !.big = td.big]
  BY <1>1 DEF TdCancelDownloadFile, TdDeleteFile, TakeRequest
<1>3. Gives(h) /\ ~Starts(h) /\ RequestGone(h)
  BY <1>0, <1>1, <1>2, RequestGoes DEF Gives, Starts
<1>4. h.type = "deleteFile" => Deleted
  BY <1>0, <1>1, FewerRequests DEF TakesRequest, DeletesKnown
<1>5. ~td'.active /\ (td'.big <=> td.big)
  BY <1>0, <1>2, NoSnapType DEF Snapshots, NoSnap
<1>6. ~Deleted => (td'.completed <=> td.completed)
  BY <1>0, <1>2, <1>4 DEF Snapshots
<1>7. PICK x : /\ results' = results \/ ResultCame(x)
               /\ x.type = "updateFile" /\ x.snap = td'
  <2>1. CASE td' # td
    BY <1>0, <1>2, <2>1, UpdateIs, ResultComes
  <2>2. CASE td' = td
    <3>1. results' = results
      BY <1>2, <2>2 DEF Update
    <3>2. PICK y : y = Result("updateFile", Nobody, td')
      OBVIOUS
    <3>3. y.type = "updateFile" /\ y.snap = td'
      BY <3>2, ResultIs
    <3> QED
      BY <3>1, <3>3
  <2> QED
    BY <2>1, <2>2
<1>8. ~StartedQuery(x) /\ (NoFault(x) <=> ~td.big)
  BY <1>5, <1>7 DEF StartedQuery, NoFault
<1>9. Clean'
  BY <1>5, <1>7, <1>8 DEF Clean, ResultCame
<1>10. ASSUME Working PROVE FedInv' /\ HarmInv' /\ CancelInv'
  <2>1. FedInv /\ HarmInv /\ CancelInv /\ UNCHANGED <<st, listeners, waiting, started, answers>>
    BY <1>10 DEF TdStepIs
  <2>2. (SomeOk' <=> SomeOk) /\ (Deleted' <=> Deleted)
    BY <2>1 DEF SomeOk, Deleted
  <2>3. Fed => Fed' /\ HasStart(requests')
    <3>1. Fed => StartsLast(requests')
      BY <1>3 DEF Fed, RequestGone
    <3> QED
      BY <3>1 DEF Fed, StartsLast, HasStart
  <2>4. FedInv'
    BY <2>1, <2>3 DEF FedInv, EndReported
  <2>5. ~Deleted /\ StaysComplete => StaysComplete'
    BY <1>6, <1>7, <2>2 DEF StaysComplete, ResultCame
  <2>6. AskedByQuery => AskedByQuery'
    BY <1>3, <1>7, <1>8, <2>1 DEF AskedByQuery, ResultCame, RequestGone
  <2>7. HarmInv'
    BY <2>1, <2>2, <2>5, <2>6 DEF HarmInv
  <2>8. CancelInv'
    BY <1>3, <1>5, <1>6, <2>1, <2>2 DEF CancelInv, Wanted, RequestGone
  <2> QED
    BY <2>4, <2>7, <2>8
<1> QED
  BY <1>9, <1>10

LEMMA DownloadTdEnds ==
  ASSUME Typed, NoTdFault, TdComplete, TdStepIs,
         Working => FedInv /\ HarmInv /\ CancelInv, Clean
  PROVE  Clean' /\ (Working => FedInv' /\ HarmInv' /\ CancelInv')
<1>0. TdTypes /\ td \in Snapshots /\ td' \in Snapshots
  BY DEF Typed, TdTypes, TdStepIs
<1>1. /\ td.active /\ td' = [td EXCEPT !.completed = TRUE, !.active = FALSE]
      /\ Update /\ requests' = requests
  BY DEF TdComplete, TdStep
<1>2. td'.completed /\ ~td'.active /\ td' # td /\ (td'.big <=> td.big)
  BY <1>0, <1>1 DEF Snapshots
<1>3. PICK x \in ResultType : x.type = "updateFile" /\ x.snap = td' /\ results' = Append(results, x)
  BY <1>0, <1>1, <1>2, UpdateIs
<1>4. ResultCame(x)
  BY <1>0, <1>3, ResultComes
<1>5. Reports(x) /\ ~Stopped(x) /\ ~StartedQuery(x) /\ x.snap.completed /\ (NoFault(x) <=> ~td.big)
  BY <1>2, <1>3 DEF Reports, Stopped, StartedQuery, NoFault
<1>6. Clean'
  BY <1>2, <1>4, <1>5 DEF Clean, ResultCame
<1>7. ASSUME Working PROVE FedInv' /\ HarmInv' /\ CancelInv'
  <2>1. FedInv /\ HarmInv /\ CancelInv /\ UNCHANGED <<st, listeners, waiting, started, answers>>
    BY <1>7 DEF TdStepIs
  <2>2. (SomeOk' <=> SomeOk) /\ (Deleted' <=> Deleted)
    BY <2>1 DEF SomeOk, Deleted
  <2>3. FedInv'
    BY <1>1, <1>2, <1>4, <1>5, <2>1 DEF FedInv, Fed, Runs, EndReported, ResultCame
  <2>4. StaysComplete => StaysComplete'
    BY <1>2, <1>4, <1>5, <2>2 DEF StaysComplete, ResultCame
  <2>5. AskedByQuery => AskedByQuery'
    BY <1>1, <1>2, <1>4, <1>5, <2>1 DEF AskedByQuery, Runs, ResultCame
  <2>6. HarmInv'
    BY <2>1, <2>2, <2>4, <2>5 DEF HarmInv
  <2>7. CancelInv'
    BY <1>2 DEF CancelInv
  <2> QED
    BY <2>3, <2>6, <2>7
<1> QED
  BY <1>6, <1>7

LEMMA DownloadTd ==
  ASSUME Typed, DeletesKnown, DownloadInv, scenario' = scenario,
         TdRequest \/ TdComplete \/ TdStop \/ TdGrow
  PROVE  DownloadInv'
<1>0. TdTypes /\ TdStepIs
  BY TdStepsAre DEF Typed
<1>1. NoTdFault' <=> NoTdFault
  BY DEF NoTdFault, Faults
<1>2. Working' <=> Working
  BY <1>0, <1>1 DEF Working, Closing, TdStepIs
<1>3. ASSUME NoTdFault PROVE Clean' /\ (Working => FedInv' /\ HarmInv' /\ CancelInv')
  <2>1. Clean /\ (Working => FedInv /\ HarmInv /\ CancelInv)
    BY <1>3 DEF DownloadInv
  <2>2. ~TdStop /\ ~TdGrow
    BY <1>3 DEF NoTdFault, TdFaults, TdStop, TdGrow
  <2>3. TdRequest => TakesRequest
    BY DEF TdRequest, TdGetRemoteFile, TdDownloadFile, TdCancelDownloadFile, TdDeleteFile,
           TakeRequest, TakesRequest
  <2> QED
    BY <1>0, <1>3, <2>1, <2>2, <2>3, DownloadTdAsked, DownloadTdStarts, DownloadTdGives,
       DownloadTdEnds DEF TdRequest
<1>4. Working => NoTdFault
  BY DEF Working
<1> QED
  BY <1>1, <1>2, <1>3, <1>4 DEF DownloadInv

LEMMA StepDownload ==
  Typed /\ BeforeReady /\ TokenInv /\ DeletesKnown /\ DownloadInv /\ [Next]_vars => DownloadInv'
<1> SUFFICES ASSUME Typed, BeforeReady, TokenInv, DeletesKnown, DownloadInv, [Next]_vars
             PROVE  DownloadInv'
  OBVIOUS
<1>0. scenario' = scenario /\ TdTypes
  BY DEF Next, vars, Typed
<1>1. ASSUME UNCHANGED <<listeners, waiting, started, answers, requests, results, td>>,
             Closing => Closing'
      PROVE  DownloadInv'
  BY <1>0, <1>1, StepDeletes, DownloadAlike DEF RequestsAlike, SomeOk
<1>2. CASE UNCHANGED vars
  BY <1>1, <1>2 DEF vars, system, clientVars, tdVars, Closing
<1>3. ASSUME NEW s \in Streams, StreamStep(s) \/ EndStream(s) PROVE DownloadInv'
  BY <1>1, <1>3 DEF StreamStep, EndStream, set_client, on_file_ready, on_file_progress,
                    on_file_error, TakeMail, clientVars, tdVars, Closing
<1>4. CASE BeginClosing
  BY <1>1, <1>4 DEF BeginClosing, tdVars, Closing
<1>5. CASE on_remote_error \/ on_download_error
  <2>1. ClientResult /\ Head(results).type \in {"remoteError", "downloadError"}
    BY <1>5 DEF ClientResult, on_remote_error, on_download_error, TakeResult
  <2>2. ~NoTdFault'
    BY <1>0, <2>1, ResultClean DEF NoFault
  <2> QED
    BY <2>2 DEF DownloadInv, Working
<1>6. CASE on_closed
  <2>1. Closing' /\ td'.big = td.big /\ ~td'.active /\ results' = <<>>
    BY <1>0, <1>6 DEF on_closed, Closing, TdTypes, Snapshots
  <2>2. Len(results') = 0 /\ \A k \in 1..0 : FALSE
    BY <2>1
  <2>3. NoTdFault' => Clean'
    BY <1>0, <2>1, <2>2 DEF DownloadInv, Clean, AllClean, NoTdFault, Faults
  <2> QED
    BY <2>1, <2>3 DEF DownloadInv, Working
<1> QED
  BY <1>0, <1>2, <1>3, <1>4, <1>5, <1>6, DownloadAsks, DownloadRemove, DownloadAnswers,
     DownloadReports, DownloadTd DEF Next, ClientResult


(* The invariants that do not depend on how streams end. *)
Steady == Typed /\ BeforeReady /\ TokenInv /\ DeletesKnown /\ DownloadInv

LEMMA InitSteady == Init => Steady
<1> SUFFICES ASSUME Init PROVE Steady
  OBVIOUS
<1>1. Typed
  BY InitTyped
<1>2. /\ requests = <<>> /\ results = <<>> /\ pending = <<>> /\ removals = {} /\ waiting = {} /\ listeners = {}
      /\ state = "authorizing" /\ started = FALSE /\ answers = [q \in Queries |-> "new"]
      /\ st = [s \in Streams |-> [phase |-> "new", client |-> FALSE, ready |-> FALSE,
                                  completed |-> FALSE, served |-> FALSE]]
  BY DEF Init
<1>3. Len(requests) = 0 /\ Len(results) = 0 /\ Len(pending) = 0 /\ \A k \in 1..0 : FALSE
  BY <1>2
<1>4. ~td.active /\ ~td.big
  <2>1. \E e, c \in BOOLEAN : td = [exists |-> e, completed |-> c, active |-> FALSE, big |-> FALSE]
    BY DEF Init, NoSnap
  <2> QED
    BY <2>1
<1>5. BeforeReady
  BY <1>2, <1>4 DEF BeforeReady, WasAuthorized
<1>6. TokenInv
  BY <1>2, <1>3 DEF TokenInv, PendsOnce, NamesOnce, Asked, Pends, Asks, Answered, Names
<1>7. \A s \in Streams : ~st[s].served
  BY <1>2
<1>8. DeletesKnown /\ ~Deleted
  BY <1>2, <1>3, <1>7, NoCacheAssumption DEF DeletesKnown, Deletes, Deleted
<1>9. ~SomeOk /\ \A q \in Queries : answers[q] # "failed"
  BY <1>2 DEF SomeOk
<1>10. NoGives(requests) /\ ~HasStart(requests) /\ ~HasQuery(requests) /\ QueryLast(requests)
  BY <1>3 DEF NoGives, HasStart, HasQuery, QueryLast
<1>11. /\ AllClean(results) /\ OnceComplete(results) /\ ~SomeComplete(results) /\ NoStop(results)
       /\ ~HasAnswer(results) /\ NoStopAfter(results)
  BY <1>3 DEF AllClean, OnceComplete, SomeComplete, NoStop, HasAnswer, NoStopAfter
<1>12. FedInv /\ HarmInv /\ CancelInv
  BY <1>2, <1>4, <1>9, <1>10, <1>11 DEF FedInv, HarmInv, CancelInv, StaysComplete, AskedByQuery
<1> QED
  BY <1>1, <1>4, <1>5, <1>6, <1>8, <1>11, <1>12 DEF Steady, DownloadInv, Clean

LEMMA StepSteady == Steady /\ [Next]_vars => Steady'
  BY StepTyped, StepBefore, StepTokens, StepDeletes, StepDownload DEF Steady

(* No listener and no waiting query is left behind without a download: the *)
(* first listener starts one (need_start_download), do_get_file always     *)
(* asks for one, and the last listener cancels it only if no query waits.  *)
THEOREM ListenersAlwaysFed == Spec => []ListenersFed
<1>1. Steady => ListenersFed
  <2> SUFFICES ASSUME DownloadInv, NoTdFault, Quiet, ~Closing
               PROVE  /\ (\E s \in listeners : Open(s)) => td.active \/ td.completed
                      /\ waiting # {} => td.active
    BY DEF Steady, ListenersFed, Without, NoTdFault
  <2>1. Len(requests) = 0 /\ Len(results) = 0 /\ \A k \in 1..0 : FALSE
    BY DEF Quiet
  <2>2. ~StartsLast(requests) /\ ~HasStart(requests) /\ ~ReportsEnd(results)
    BY <2>1 DEF StartsLast, HasStart, ReportsEnd
  <2>3. FedInv
    BY DEF DownloadInv, Working
  <2> QED
    BY <2>2, <2>3 DEF FedInv, Fed, Runs, EndReported
<1> QED
  BY <1>1, InitSteady, StepSteady, PTL DEF Spec

(* No getFile query fails because of the streams that share its download,  *)
(* unless a late answer meets a deleted file: download_started_file_ids_   *)
(* holds the file only from the answer to downloadFile on, behind which no *)
(* stop of an older download is reported.                                  *)
THEOREM GetFileNeverHarmed == Spec => []GetFileUnharmed
<1>1. Steady => GetFileUnharmed
  BY DEF Steady, DownloadInv, Working, HarmInv, GetFileUnharmed, Without, NoTdFault, LateAnswer,
         Deleted, SomeOk
<1> QED
  BY <1>1, InitSteady, StepSteady, PTL DEF Spec


-------------------------------------------------------------------------------
(* The life of a stream, as long as none ends before it knows its file. *)
Longer(s) == \A k \in 1..Len(mail[s]) : k \in 1..Len(mail'[s]) /\ mail'[s][k] = mail[s][k]

(* A stream that is sent more, or that is no longer waited for. *)
LEMMA LifeGoesOn ==
  ASSUME NEW s \in Streams, Life(s), st'[s] = st[s], Longer(s), Removed(s)',
         Asked(s)' => Asked(s) /\ mail'[s] = mail[s],
         st[s].phase = "new" => mail'[s] = mail[s],
         s \in active' => s \in active,
         s \in listeners' => s \in listeners
  PROVE  Life(s)'
<1>1. Open(s)' <=> Open(s)
  BY DEF Open
<1>2. Introduced(s)'
  BY <1>1 DEF Life, Introduced, Longer
<1>3. Unborn(s)'
  BY DEF Life, Unborn
<1>4. NotYetTold(s)'
  BY <1>1 DEF Life, NotYetTold
<1>5. FileFirst(s)'
  <2> SUFFICES ASSUME s \in listeners', Open(s)', ~st'[s].ready
               PROVE  \E k \in 1..Len(mail'[s]) :
                        /\ mail'[s][k].type = "on_file_ready"
                        /\ \A j \in 1..(k - 1) : mail'[s][j].type = "set_client"
    BY DEF FileFirst
  <2>1. PICK k \in 1..Len(mail[s]) : /\ mail[s][k].type = "on_file_ready"
                                     /\ \A j \in 1..(k - 1) : mail[s][j].type = "set_client"
    BY <1>1 DEF Life, FileFirst
  <2>2. k \in 1..Len(mail'[s]) /\ mail'[s][k] = mail[s][k]
    BY <2>1 DEF Longer
  <2>3. \A j \in 1..(k - 1) : j \in 1..Len(mail[s])
    BY <2>1
  <2>4. \A j \in 1..(k - 1) : mail'[s][j] = mail[s][j]
    BY <2>3 DEF Longer
  <2> QED
    BY <2>1, <2>2, <2>4
<1> QED
  BY <1>2, <1>3, <1>4, <1>5 DEF Life

(* A stream handles a message of its mail. *)
LEMMA LifeHandles ==
  ASSUME Typed, NEW s \in Streams, Life(s), NEW type, GoesOn(s, type),
         UNCHANGED <<active, listeners>>, Asked(s)' => Asked(s)
  PROVE  Life(s)'
<1>0. mail[s] \in Seq(MailType) /\ mail[s] # <<>> /\ mail'[s] = Tail(mail[s]) /\ mail[s][1].type = type
  BY DEF Typed, StreamTypes, GoesOn
<1>1. /\ 1 \in 1..Len(mail[s]) /\ Len(mail'[s]) = Len(mail[s]) - 1 /\ Len(mail[s]) \in Nat
      /\ \A k \in 1..Len(mail'[s]) : k + 1 \in 1..Len(mail[s]) /\ mail'[s][k] = mail[s][k + 1]
      /\ \A k \in 1..Len(mail[s]) : k # 1 => k - 1 \in 1..Len(mail'[s]) /\ mail'[s][k - 1] = mail[s][k]
  BY <1>0, Taking
<1>2. Open(s) /\ Open(s)' /\ st'[s].phase = "open"
  BY DEF GoesOn, Open
<1>3. /\ st'[s].client
      /\ st'[s].ready <=> st[s].ready \/ type = "on_file_ready"
  BY <1>0, <1>2 DEF Life, Introduced, GoesOn
<1>4. Introduced(s)' /\ Unborn(s)' /\ Removed(s)'
  BY <1>2, <1>3 DEF Introduced, Unborn, Removed
<1>5. NotYetTold(s)'
  <2> SUFFICES ASSUME Asked(s)'
               PROVE  /\ ~st'[s].ready /\ s \notin listeners'
                      /\ \A k \in 1..Len(mail'[s]) : mail'[s][k].type = "set_client"
    BY <1>2 DEF NotYetTold
  <2>1. /\ ~st[s].ready /\ s \notin listeners
        /\ \A k \in 1..Len(mail[s]) : mail[s][k].type = "set_client"
    BY DEF Life, NotYetTold
  <2> QED
    BY <1>0, <1>1, <1>3, <2>1
<1>6. FileFirst(s)'
  <2> SUFFICES ASSUME s \in listeners', ~st'[s].ready
               PROVE  \E k \in 1..Len(mail'[s]) :
                        /\ mail'[s][k].type = "on_file_ready"
                        /\ \A j \in 1..(k - 1) : mail'[s][j].type = "set_client"
    BY DEF FileFirst
  <2>1. PICK k \in 1..Len(mail[s]) : /\ mail[s][k].type = "on_file_ready"
                                     /\ \A j \in 1..(k - 1) : mail[s][j].type = "set_client"
    BY <1>2, <1>3 DEF Life, FileFirst
  <2>2. k # 1
    BY <1>0, <1>3, <2>1
  <2>3. k - 1 \in 1..Len(mail'[s]) /\ mail'[s][k - 1] = mail[s][k]
    BY <1>1, <2>1, <2>2
  <2>4. ASSUME NEW j \in 1..((k - 1) - 1) PROVE mail'[s][j].type = "set_client"
    <3>1. j \in 1..Len(mail'[s]) /\ j + 1 \in 1..(k - 1)
      BY <1>1, <2>1, <2>4
    <3> QED
      BY <1>1, <2>1, <3>1
  <2> QED
    BY <2>1, <2>3, <2>4
<1> QED
  BY <1>4, <1>5, <1>6 DEF Life

(* A stream ends: it knows its client, and its file if it listens. *)
LEMMA LifeEnds ==
  ASSUME Typed, NEW s \in Streams, Life(s), NEW ok \in BOOLEAN, Closes(s, ok),
         Faults \cap EarlyEnds = {}, UNCHANGED <<active, listeners>>, Asked(s)' => Asked(s)
  PROVE  Life(s)'
<1>1. Open(s) /\ ~Open(s)' /\ st'[s].phase = "closed" /\ (st'[s].ready <=> st[s].ready)
      /\ (st'[s].client <=> st[s].client)
  BY DEF Closes, Open
<1>2. \/ st[s].ready
      \/ 1 \in 1..Len(mail[s]) /\ mail[s][1].type \in {"on_file_progress", "on_file_error"}
  <2>1. mail[s] \in Seq(MailType)
    BY DEF Typed, StreamTypes
  <2>2. mail[s] # <<>> => 1 \in 1..Len(mail[s])
    BY <2>1, Taking
  <2> QED
    BY <2>2 DEF Closes, EndsItself, EndsOnMessage
<1>3. st[s].client
  BY <1>1, <1>2 DEF Life, Introduced
<1>4. s \in listeners => st[s].ready
  <2> SUFFICES ASSUME s \in listeners, ~st[s].ready PROVE FALSE
    OBVIOUS
  <2>1. PICK k \in 1..Len(mail[s]) : /\ mail[s][k].type = "on_file_ready"
                                     /\ \A j \in 1..(k - 1) : mail[s][j].type = "set_client"
    BY <1>1 DEF Life, FileFirst
  <2>2. k # 1 => 1 \in 1..(k - 1)
    BY <2>1
  <2> QED
    BY <1>2, <2>1, <2>2
<1>5. ~Asked(s)
  BY <1>2 DEF Life, NotYetTold
<1>6. Removal(s, ok) \in removals' /\ Removal(s, ok).stream = s /\ Removal(s, ok).file = st[s].ready
  BY <1>3 DEF Closes, Removal
<1>7. Removed(s)'
  BY <1>4, <1>6 DEF Removed
<1>8. Introduced(s)' /\ Unborn(s)' /\ NotYetTold(s)' /\ FileFirst(s)'
  BY <1>1, <1>3, <1>5 DEF Introduced, Unborn, NotYetTold, FileFirst
<1> QED
  BY <1>7, <1>8 DEF Life

LEMMA LifeStream ==
  ASSUME Typed, EndInv, Lives, Faults \cap EarlyEnds = {},
         NEW s \in Streams, StreamStep(s) \/ EndStream(s)
  PROVE  Lives'
<1>0. StreamTypes
  BY DEF Typed
<1>1. UNCHANGED <<active, listeners, pending, requests, results>>
  BY DEF StreamStep, EndStream, set_client, on_file_ready, on_file_progress,
         on_file_error, TakeMail, clientVars, tdVars
<1>2. \A t : Asked(t)' <=> Asked(t)
  BY <1>1 DEF Asked, Pends, Asks, Answered
<1>3. PendingActive'
  BY <1>1 DEF Lives, PendingActive
<1>4. OthersSame(s) /\ removals \subseteq removals'
  BY <1>0, StreamStepIs DEF GoesOn, Closes
<1>5. ASSUME NEW t \in Streams, t # s PROVE Life(t)'
  <2>1. st'[t] = st[t] /\ mail'[t] = mail[t] /\ Life(t)
    BY <1>4, <1>5 DEF OthersSame, Lives
  <2>2. Longer(t)
    BY <2>1 DEF Longer
  <2>3. Removed(t)'
    BY <1>1, <1>4, <2>1 DEF Life, Removed
  <2> QED
    BY <1>1, <1>2, <2>1, <2>2, <2>3, LifeGoesOn
<1>6. ASSUME NEW type, GoesOn(s, type) PROVE Lives'
  <2>1. Life(s)'
    BY <1>1, <1>2, <1>6, LifeHandles DEF Lives
  <2>2. RemovedOnce'
    BY <1>6 DEF GoesOn, Lives, RemovedOnce
  <2> QED
    BY <1>3, <1>5, <2>1, <2>2 DEF Lives
<1>7. ASSUME NEW ok \in BOOLEAN, Closes(s, ok) PROVE Lives'
  <2>1. Life(s)'
    BY <1>1, <1>2, <1>7, LifeEnds DEF Lives
  <2>2. \A r \in removals : r.stream # s
    BY <1>7 DEF Closes, EndInv, Open
  <2>3. removals' \subseteq removals \cup {Removal(s, ok)} /\ Removal(s, ok).stream = s
    BY <1>7 DEF Closes, Removal
  <2>4. RemovedOnce'
    BY <2>2, <2>3 DEF Lives, RemovedOnce
  <2> QED
    BY <1>3, <1>5, <2>1, <2>4 DEF Lives
<1> QED
  BY <1>0, <1>6, <1>7, StreamStepIs

(* A stream comes. *)
LEMMA LifeStarts ==
  ASSUME Typed, TokenInv, Lives, NEW s \in Streams, start_file_stream(s)
  PROVE  Lives'
<1>0. /\ st \in [Streams -> StreamType] /\ st[s] \in StreamType /\ pending \in Seq(Streams)
      /\ mail \in [Streams -> Seq(MailType)] /\ mail[s] \in Seq(MailType)
  BY DEF Typed, StreamTypes, ClientTypes
<1>1. /\ UNCHANGED <<removals, listeners>> /\ active' = active \cup {s} /\ st[s].phase = "new"
      /\ st' = [st EXCEPT ![s] = [st[s] EXCEPT !.phase = "open"]]
      /\ pending' = pending \/ pending' = Append(pending, s)
  BY <1>0 DEF start_file_stream
<1>2. /\ st'[s].phase = "open" /\ st'[s].client = st[s].client /\ st'[s].ready = st[s].ready
      /\ \A t \in Streams : t # s => st'[t] = st[t]
  BY <1>0, <1>1 DEF StreamType
<1>3. /\ mail[s] = <<>> /\ ~st[s].client /\ ~st[s].ready /\ s \notin listeners
  BY <1>1 DEF Lives, Life, Unborn
<1>4. PICK m \in [Streams -> Seq(MailType)] :
         /\ m = Send(mail, s, "set_client", NoSnap)
         /\ m[s] = Append(mail[s], Message("set_client", NoSnap))
         /\ \A t \in Streams : t # s => m[t] = mail[t]
  BY <1>0, SendPlain
<1>5. Len(m[s]) = 1 /\ m[s][1].type = "set_client"
  <2>1. Message("set_client", NoSnap) \in MailType /\ Message("set_client", NoSnap).type = "set_client"
    BY MailTypes, NoSnapType DEF Message
  <2>2. Len(mail[s]) = 0
    BY <1>3
  <2>3. /\ Len(m[s]) = Len(mail[s]) + 1
        /\ m[s][Len(mail[s]) + 1] = Message("set_client", NoSnap)
    BY <1>0, <1>4, <2>1, Appending
  <2> QED
    BY <2>1, <2>2, <2>3
<1>6. PICK n \in [Streams -> Seq(MailType)] :
         /\ n = Send(m, s, "on_file_error", NoSnap)
         /\ n[s] = Append(m[s], Message("on_file_error", NoSnap))
         /\ \A t \in Streams : t # s => n[t] = m[t]
  BY SendPlain
<1>7. Len(n[s]) = 2 /\ n[s][1] = m[s][1]
  <2>1. Message("on_file_error", NoSnap) \in MailType /\ m[s] \in Seq(MailType)
    BY MailTypes, NoSnapType
  <2>2. Len(n[s]) = Len(m[s]) + 1 /\ \A k \in 1..Len(m[s]) : n[s][k] = m[s][k]
    BY <1>6, <2>1, Appending
  <2> QED
    BY <1>5, <2>2
<1>8. mail' = m \/ (mail' = n /\ UNCHANGED <<pending, requests>>)
  BY <1>4, <1>6 DEF start_file_stream
<1>9. /\ 1 \in 1..Len(mail'[s]) /\ mail'[s][1].type = "set_client"
       /\ \A t \in Streams : t # s => mail'[t] = mail[t]
  <2>1. CASE mail' = m
    BY <1>4, <1>5, <2>1
  <2>2. CASE mail' = n
    <3>1. 1 \in 1..2
      OBVIOUS
    <3> QED
      BY <1>4, <1>5, <1>6, <1>7, <2>2, <3>1
  <2> QED
    BY <1>8, <2>1, <2>2
<1>10. /\ \A t \in Streams : Asked(t)' => Asked(t) \/ (t = s /\ <<pending, requests>>' # <<pending, requests>>)
       /\ ~Asked(s)
  BY <1>1, TokenStart DEF TokenInv
<1>11. ASSUME NEW t \in Streams, t # s PROVE Life(t)'
  <2>1. st'[t] = st[t] /\ mail'[t] = mail[t] /\ Life(t)
    BY <1>2, <1>9, <1>11 DEF Lives
  <2>2. Longer(t)
    BY <2>1 DEF Longer
  <2>3. Removed(t)'
    BY <1>1, <1>11, <2>1 DEF Life, Removed
  <2> QED
    BY <1>1, <1>10, <1>11, <2>1, <2>2, <2>3, LifeGoesOn
<1>12. Life(s)'
  <2>1. Introduced(s)' /\ Unborn(s)' /\ Removed(s)' /\ FileFirst(s)'
    BY <1>1, <1>2, <1>3, <1>9 DEF Introduced, Unborn, Removed, FileFirst
  <2>2. Asked(s)' => \A k \in 1..Len(mail'[s]) : mail'[s][k].type = "set_client"
    BY <1>5, <1>8, <1>10
  <2>3. NotYetTold(s)'
    BY <1>1, <1>2, <1>3, <2>2 DEF NotYetTold, Open
  <2> QED
    BY <2>1, <2>3 DEF Life
<1>13. RemovedOnce'
  BY <1>1 DEF Lives, RemovedOnce
<1>14. PendingActive'
  <2>1. CASE pending' = pending
    BY <1>1, <2>1 DEF Lives, PendingActive
  <2>2. CASE pending' = Append(pending, s)
    <3>1. \A k \in 1..Len(pending') : pending'[k] = s \/ \E j \in 1..Len(pending) : pending'[k] = pending[j]
      BY <1>0, <2>2, Appending
    <3> QED
      BY <1>1, <3>1 DEF Lives, PendingActive
  <2> QED
    BY <1>1, <2>1, <2>2
<1> QED
  BY <1>11, <1>12, <1>13, <1>14 DEF Lives

(* Client forgets a stream that has ended. *)
LEMMA LifeRemoves ==
  ASSUME Typed, EndInv, TokenInv, Lives, NEW r \in removals, remove_file_stream(r)
  PROVE  Lives'
<1>0. r.stream \in Streams /\ pending \in Seq(Streams)
  BY DEF Typed, StreamTypes, ClientTypes, RemovalType
<1>1. /\ UNCHANGED <<st, mail>> /\ removals' = removals \ {r} /\ active' = active \ {r.stream}
      /\ pending' = pending \/ (Pends(r.stream) /\ pending' = Erased(r.stream))
      /\ \/ ~r.file \/ listeners = {}
         \/ listeners' = listeners \ {r.stream}
      /\ listeners' \subseteq listeners
      /\ \A t : t # r.stream => (t \in listeners' <=> t \in listeners)
  BY DEF remove_file_stream, Pends
<1>2. \A s \in Streams : Asked(s)' => Asked(s)
  BY TokenRemove
<1>3. st[r.stream].phase = "closed" /\ ~Asked(r.stream)
  BY <1>0 DEF EndInv, Lives, Life, NotYetTold, Open
<1>4. ASSUME NEW t \in Streams PROVE Removed(t)'
  <2>0. Removed(t)
    BY DEF Lives, Life
  <2>1. CASE t # r.stream
    BY <1>1, <2>0, <2>1 DEF Removed
  <2>2. CASE t = r.stream
    <3>1. t \notin active'
      BY <1>1, <2>2
    <3>2. t \notin listeners'
      <4> SUFFICES ASSUME t \in listeners' PROVE FALSE
        OBVIOUS
      <4>1. t \in listeners /\ listeners # {}
        BY <1>1
      <4>2. PICK x \in removals : x.stream = t /\ x.file
        BY <1>3, <2>0, <2>2, <4>1 DEF Removed
      <4>3. x = r
        BY <2>2, <4>2 DEF Lives, RemovedOnce
      <4> QED
        BY <1>1, <2>2, <4>1, <4>2, <4>3
    <3> QED
      BY <3>1, <3>2 DEF Removed
  <2> QED
    BY <2>1, <2>2
<1>5. ASSUME NEW t \in Streams PROVE Life(t)'
  <2>1. Longer(t) /\ Life(t) /\ st'[t] = st[t] /\ mail'[t] = mail[t]
    BY <1>1 DEF Longer, Lives
  <2> QED
    BY <1>1, <1>2, <1>4, <2>1, LifeGoesOn
<1>6. RemovedOnce'
  BY <1>1 DEF Lives, RemovedOnce
<1>7. \A k \in 1..Len(pending') : \E j \in 1..Len(pending) : pending'[k] = pending[j]
  <2>1. CASE pending' = pending
    BY <2>1
  <2>2. CASE Pends(r.stream) /\ pending' = Erased(r.stream)
    BY <1>3, <2>2 DEF Asked
  <2> QED
    BY <1>1, <2>1, <2>2
<1>8. PendingActive'
  <2>1. \A j \in 1..Len(pending) : pending[j] \in active /\ pending[j] # r.stream
    BY <1>3 DEF Lives, PendingActive, Asked, Pends
  <2> QED
    BY <1>1, <1>7, <2>1 DEF PendingActive
<1> QED
  BY <1>5, <1>6, <1>8 DEF Lives


(* Streams are sent more, those that do not wait for an answer. *)
LEMMA LivesTold ==
  ASSUME Lives, UNCHANGED <<st, removals, active, listeners>>, PendingActive',
         \A t \in Streams : Longer(t) /\ (Asked(t)' => Asked(t)),
         \A t \in Streams : mail'[t] # mail[t] => ~Asked(t)' /\ st[t].phase # "new"
  PROVE  Lives'
<1>1. ASSUME NEW t \in Streams PROVE Life(t)'
  <2>1. Life(t) /\ Removed(t)'
    BY DEF Lives, Life, Removed
  <2> QED
    BY <2>1, LifeGoesOn
<1>2. RemovedOnce'
  BY DEF Lives, RemovedOnce
<1> QED
  BY <1>1, <1>2 DEF Lives

LEMMA OneLonger ==
  ASSUME StreamTypes, NEW t \in Streams, NEW x \in MailType,
         mail'[t] = mail[t] \/ mail'[t] = Append(mail[t], x)
  PROVE  Longer(t)
<1>1. mail[t] \in Seq(MailType)
  BY DEF StreamTypes
<1>2. CASE mail'[t] = mail[t]
  BY <1>2 DEF Longer
<1>3. CASE mail'[t] = Append(mail[t], x)
  BY <1>1, <1>3, Appending DEF Longer
<1> QED
  BY <1>2, <1>3

(* The listeners are told of the download. *)
LEMMA LivesTells ==
  ASSUME Typed, Lives, UNCHANGED <<st, removals, active, listeners, pending>>,
         NEW type \in {"on_file_progress", "on_file_error"}, NEW snap \in Snapshots,
         Tells(mail, mail', listeners, type, snap), \A t \in Streams : Asked(t)' => Asked(t)
  PROVE  Lives'
<1>0. StreamTypes /\ mail \in [Streams -> Seq(MailType)] /\ Message(type, snap) \in MailType
  BY MailTypes DEF Typed, StreamTypes
<1>1. \A t \in Streams : mail'[t] = IF t \in listeners THEN Append(mail[t], Message(type, snap)) ELSE mail[t]
  BY <1>0, TellsTyped
<1>2. \A t \in Streams : Longer(t)
  BY <1>0, <1>1, OneLonger
<1>3. \A t \in listeners : t \in Streams => ~Asked(t) /\ st[t].phase # "new"
  BY DEF Lives, Life, NotYetTold, Unborn
<1>4. PendingActive'
  BY DEF Lives, PendingActive
<1> QED
  BY <1>1, <1>2, <1>3, <1>4, LivesTold

(* The answer to getRemoteFile comes: the stream becomes a listener. *)
LEMMA LifeListens ==
  ASSUME Typed, Lives, NEW s \in Streams, NEW snap \in Snapshots,
         Asked(s), ~Asked(s)', \A t \in Streams : Asked(t)' => Asked(t),
         UNCHANGED <<st, removals, active, pending>>, listeners' = listeners \cup {s},
         \/ mail' = Send(mail, s, "on_file_ready", snap)
         \/ mail' = Send(Send(mail, s, "on_file_ready", snap), s, "on_file_error", snap)
  PROVE  Lives'
<1>0. mail \in [Streams -> Seq(MailType)] /\ mail[s] \in Seq(MailType) /\ Len(mail[s]) \in Nat
  BY LenProperties DEF Typed, StreamTypes
<1>1. PICK m \in [Streams -> Seq(MailType)] : m = Send(mail, s, "on_file_ready", snap)
  BY <1>0, SendTyped
<1>2. m[s] = Append(mail[s], Message("on_file_ready", snap)) /\ \A t \in Streams : t # s => m[t] = mail[t]
  <2>1. Send(mail, s, "on_file_ready", snap)[s] = Append(mail[s], Message("on_file_ready", snap))
    BY <1>0, SendTyped
  <2>2. \A t \in Streams : t # s => Send(mail, s, "on_file_ready", snap)[t] = mail[t]
    BY <1>0, SendTyped
  <2> QED
    BY <1>1, <2>1, <2>2
<1>3. PICK n \in [Streams -> Seq(MailType)] : n = Send(m, s, "on_file_error", snap)
  BY SendTyped
<1>4. n[s] = Append(m[s], Message("on_file_error", snap)) /\ \A t \in Streams : t # s => n[t] = m[t]
  BY <1>3, SendTyped
<1>5. mail' = m \/ mail' = n
  BY <1>1, <1>3
<1>6. PICK e \in Nat : e = Len(mail[s])
  BY <1>0
<1>7. /\ Message("on_file_ready", snap) \in MailType /\ Message("on_file_error", snap) \in MailType
      /\ Message("on_file_ready", snap).type = "on_file_ready"
  BY MailTypes DEF Message
<1>8. /\ Len(m[s]) = e + 1 /\ m[s][e + 1].type = "on_file_ready"
      /\ \A k \in 1..e : m[s][k] = mail[s][k]
  BY <1>0, <1>2, <1>6, <1>7, Appending
<1>9. Len(n[s]) = Len(m[s]) + 1 /\ \A k \in 1..Len(m[s]) : n[s][k] = m[s][k]
  BY <1>4, <1>7, Appending
<1>10. e + 1 \in 1..Len(m[s]) /\ \A k \in 1..e : k \in 1..Len(m[s])
  BY <1>8
<1>11. \A k \in 1..Len(m[s]) : k \in 1..Len(n[s])
  BY <1>8, <1>9
<1>12. /\ e + 1 \in 1..Len(mail'[s]) /\ mail'[s][e + 1].type = "on_file_ready"
       /\ \A k \in 1..e : k \in 1..Len(mail'[s]) /\ mail'[s][k] = mail[s][k]
       /\ \A t \in Streams : t # s => mail'[t] = mail[t]
  <2>1. CASE mail' = m
    BY <1>2, <1>8, <1>10, <2>1
  <2>2. CASE mail' = n
    BY <1>2, <1>4, <1>8, <1>9, <1>10, <1>11, <2>2
  <2> QED
    BY <1>5, <2>1, <2>2
<1>13. /\ Life(s) /\ Open(s) /\ ~st[s].ready
       /\ \A k \in 1..e : mail[s][k].type = "set_client"
  BY <1>6 DEF Lives, Life, NotYetTold
<1>14. Life(s)'
  <2>1. Unborn(s)' /\ Removed(s)' /\ NotYetTold(s)'
    BY <1>13 DEF Unborn, Removed, NotYetTold, Open
  <2>2. Introduced(s)'
    BY <1>6, <1>12, <1>13 DEF Life, Introduced, Open
  <2>3. FileFirst(s)'
    <3>1. (e + 1) - 1 = e
      BY <1>6
    <3>2. \A j \in 1..e : mail'[s][j].type = "set_client"
      BY <1>12, <1>13
    <3>3. PICK k \in 1..Len(mail'[s]) : k = e + 1
      BY <1>12
    <3>4. mail'[s][k].type = "on_file_ready" /\ \A j \in 1..(k - 1) : mail'[s][j].type = "set_client"
      BY <1>12, <3>1, <3>2, <3>3
    <3> QED
      BY <3>4 DEF FileFirst
  <2> QED
    BY <2>1, <2>2, <2>3 DEF Life
<1>15. ASSUME NEW t \in Streams, t # s PROVE Life(t)'
  <2>1. Life(t) /\ mail'[t] = mail[t] /\ (t \in listeners' <=> t \in listeners)
    BY <1>12, <1>15 DEF Lives
  <2>2. Longer(t)
    BY <2>1 DEF Longer
  <2>3. Removed(t)'
    BY <2>1 DEF Life, Removed
  <2> QED
    BY <2>1, <2>2, <2>3, LifeGoesOn
<1>16. RemovedOnce' /\ PendingActive'
  BY DEF Lives, RemovedOnce, PendingActive
<1> QED
  BY <1>14, <1>15, <1>16 DEF Lives

LEMMA LifeResult ==
  ASSUME Typed, BeforeReady, EndInv, TokenInv, Lives, ClientResult
  PROVE  Lives'
<1>0. TdTypes /\ StreamTypes /\ mail \in [Streams -> Seq(MailType)]
  BY DEF Typed, StreamTypes
<1>1. PICK type : TakeResult(type)
  BY DEF ClientResult, on_remote_file, on_remote_error, do_get_file, on_update,
         on_download_result, on_download_error
<1>2. PICK w \in Who : w = Head(results).who
  BY <1>0, <1>1, ResultTaken
<1>3. PICK snap \in Snapshots : snap = Head(results).snap
  BY <1>0, <1>1, ResultTaken
<1>4. /\ UNCHANGED <<active, pending, st>> /\ results # <<>>
      /\ \A v \in Who : Answered(v)' => Answered(v)
      /\ Head(results).type \in AnswerTypes => Answered(w) /\ ~Answered(w)'
      /\ \A v : Asks(v)' <=> Asks(v)
  BY <1>0, <1>1, <1>2, ResultTaken, ResultTokens
<1>5. pending = <<>> /\ Len(pending) = 0 /\ \A k \in 1..0 : FALSE
  BY <1>4 DEF BeforeReady
<1>6. \A v : ~Pends(v) /\ ~Pends(v)'
  BY <1>4, <1>5 DEF Pends
<1>7. \A t \in Streams : Asked(t)' => Asked(t)
  BY <1>4, <1>6, WhoAre DEF Asked
<1>8. Head(results).type \in AnswerTypes => Asked(w) /\ ~Asked(w)'
  BY <1>4, <1>6 DEF Asked, TokenInv
<1>9. PendingActive'
  BY <1>4 DEF Lives, PendingActive
<1>10. CASE on_remote_file
  <2>1. w \in Streams /\ Asked(w) /\ ~Asked(w)' /\ removals' = removals
    BY <1>2, <1>8, <1>10 DEF on_remote_file, TakeResult, AnswerTypes
  <2>2. \/ UNCHANGED <<mail, listeners>>
        \/ /\ listeners' = listeners \cup {w}
           /\ \/ mail' = Send(mail, w, "on_file_ready", snap)
              \/ mail' = Send(Send(mail, w, "on_file_ready", snap), w, "on_file_error", snap)
    BY <1>2, <1>3, <1>10 DEF on_remote_file
  <2>3. CASE UNCHANGED <<mail, listeners>>
    BY <1>4, <1>7, <1>9, <2>1, <2>3, LivesTold DEF Longer
  <2> QED
    BY <1>4, <1>7, <2>1, <2>2, <2>3, LifeListens
<1>11. CASE on_remote_error
  <2>1. UNCHANGED <<removals, listeners>> /\ Asked(w) /\ ~Asked(w)'
    BY <1>8, <1>11 DEF on_remote_error, TakeResult, AnswerTypes
  <2>2. mail' = mail \/ (w \in Streams /\ mail' = Send(mail, w, "on_file_error", NoSnap))
    BY <1>2, <1>11 DEF on_remote_error
  <2>3. CASE mail' = mail
    BY <1>4, <1>7, <1>9, <2>1, <2>3, LivesTold DEF Longer
  <2>4. CASE w \in Streams /\ mail' = Send(mail, w, "on_file_error", NoSnap)
    <3>1. /\ Send(mail, w, "on_file_error", NoSnap)[w] = Append(mail[w], Message("on_file_error", NoSnap))
          /\ \A t \in Streams : t # w => Send(mail, w, "on_file_error", NoSnap)[t] = mail[t]
      BY <1>0, <2>4, SendTyped, NoSnapType
    <3>2. Message("on_file_error", NoSnap) \in MailType
      BY MailTypes, NoSnapType
    <3>3. \A t \in Streams : Longer(t)
      BY <1>0, <2>4, <3>1, <3>2, OneLonger
    <3>4. st[w].phase # "new"
      BY <2>1, <2>4 DEF Lives, Life, NotYetTold, Open
    <3> QED
      BY <1>4, <1>7, <1>9, <2>1, <2>4, <3>1, <3>3, <3>4, LivesTold
  <2> QED
    BY <2>2, <2>3, <2>4
<1>12. CASE do_get_file
  <2>1. UNCHANGED <<removals, listeners, mail>>
    BY <1>12 DEF do_get_file, streamVars
  <2> QED
    BY <1>4, <1>7, <1>9, <2>1, LivesTold DEF Longer
<1>13. CASE on_update \/ on_download_result
  <2>1. /\ UNCHANGED <<removals, listeners>>
        /\ Tells(mail, mail', listeners, "on_file_progress", snap)
    BY <1>3, <1>13 DEF on_update, on_download_result, on_update_file, Tells
  <2> QED
    BY <1>4, <1>7, <2>1, LivesTells
<1>14. CASE on_download_error
  <2>1. UNCHANGED <<removals, listeners>>
    BY <1>14 DEF on_download_error
  <2>2. mail' = mail \/ Tells(mail, mail', listeners, "on_file_error", NoSnap)
    BY <1>14 DEF on_download_error, Tells
  <2>3. CASE mail' = mail
    BY <1>4, <1>7, <1>9, <2>1, <2>3, LivesTold DEF Longer
  <2> QED
    BY <1>4, <1>7, <2>1, <2>2, <2>3, LivesTells, NoSnapType
<1> QED
  BY <1>10, <1>11, <1>12, <1>13, <1>14 DEF ClientResult


LEMMA StepLives ==
  Typed /\ BeforeReady /\ EndInv /\ TokenInv /\ LifeInv /\ [Next]_vars => LifeInv'
<1> SUFFICES ASSUME Typed, BeforeReady, EndInv, TokenInv, LifeInv, [Next]_vars,
                    (Faults \cap EarlyEnds = {})'
             PROVE  Lives'
  BY DEF LifeInv
<1>0. Lives /\ TdTypes /\ Faults \cap EarlyEnds = {}
  BY DEF Next, vars, Typed, LifeInv, Faults
<1>1. ASSUME UNCHANGED <<st, removals, active, listeners, mail>>, PendingActive',
             \A t \in Streams : Asked(t)' => Asked(t)
      PROVE  Lives'
  <2>1. \A t \in Streams : Longer(t)
    BY <1>1 DEF Longer
  <2> QED
    BY <1>0, <1>1, <2>1, LivesTold
<1>2. ASSUME UNCHANGED <<active, pending>> PROVE PendingActive'
  BY <1>0, <1>2 DEF Lives, PendingActive
<1>3. ASSUME UNCHANGED <<st, removals, active, listeners, mail, pending, requests, results>>
      PROVE  Lives'
  BY <1>1, <1>2, <1>3 DEF Asked, Pends, Asks, Answered
<1>4. CASE UNCHANGED vars
  BY <1>3, <1>4 DEF vars, system, streamVars, clientVars, tdVars
<1>5. ASSUME NEW s \in Streams, StreamStep(s) \/ EndStream(s) PROVE Lives'
  BY <1>0, <1>5, LifeStream
<1>6. ASSUME NEW s \in Streams, start_file_stream(s) PROVE Lives'
  BY <1>0, <1>6, LifeStarts
<1>7. ASSUME NEW r \in removals, remove_file_stream(r) PROVE Lives'
  BY <1>0, <1>7, LifeRemoves
<1>8. ASSUME NEW q \in Queries, getFile(q) PROVE Lives'
  BY <1>1, <1>2, <1>8, TokenGetFile DEF getFile, streamVars
<1>9. CASE ClientResult
  BY <1>0, <1>9, LifeResult
<1>10. CASE Authorize
  <2>1. UNCHANGED <<st, removals, active, listeners, mail>> /\ Len(pending') = 0
    BY <1>10 DEF Authorize, streamVars
  <2>2. PendingActive'
    <3>1. \A k \in 1..0 : FALSE
      OBVIOUS
    <3> QED
      BY <2>1, <3>1 DEF PendingActive
  <2> QED
    BY <1>1, <1>10, <2>1, <2>2, TokenAuthorize
<1>11. CASE BeginClosing
  BY <1>3, <1>11 DEF BeginClosing, streamVars, tdVars
<1>12. CASE on_closed
  <2>1. /\ UNCHANGED <<st, removals>> /\ active' = {} /\ listeners' = {}
        /\ Len(pending') = 0 /\ Len(requests') = 0 /\ Len(results') = 0
        /\ Tells(mail, mail', active, "on_file_error", NoSnap)
    BY <1>12 DEF on_closed, Tells, ToldOfTheEnd
  <2>2. \A k \in 1..0 : FALSE
    OBVIOUS
  <2>3. PendingActive' /\ \A t : ~Asked(t)'
    BY <2>1, <2>2 DEF PendingActive, Asked, Pends, Asks, Answered, Names
  <2>4. /\ StreamTypes /\ mail \in [Streams -> Seq(MailType)]
        /\ Message("on_file_error", NoSnap) \in MailType
    BY MailTypes, NoSnapType DEF Typed, StreamTypes
  <2>5. \A t \in Streams : mail'[t] = IF t \in active THEN Append(mail[t], Message("on_file_error", NoSnap))
                                      ELSE mail[t]
    BY <2>1, <2>4, TellsTyped, NoSnapType
  <2>6. \A t \in Streams : Longer(t)
    BY <2>4, <2>5, OneLonger
  <2>7. ASSUME NEW t \in Streams PROVE Life(t)'
    <3>1. Life(t) /\ Removed(t)'
      BY <1>0, <2>1 DEF Lives, Removed
    <3>2. st[t].phase = "new" => mail'[t] = mail[t]
      BY <2>5, <3>1 DEF Life, Unborn
    <3>3. Longer(t) /\ ~Asked(t)' /\ t \notin active' /\ t \notin listeners' /\ st'[t] = st[t]
      BY <2>1, <2>3, <2>6
    <3> QED
      BY <3>1, <3>2, <3>3, LifeGoesOn
  <2>8. RemovedOnce'
    BY <1>0, <2>1 DEF Lives, RemovedOnce
  <2> QED
    BY <2>3, <2>7, <2>8 DEF Lives
<1>13. CASE TdRequest \/ TdComplete \/ TdStop \/ TdGrow
  <2>1. TdStepIs /\ TdMoves
    BY <1>0, <1>13, TdStepsAre, TdMovesAre
  <2>2. UNCHANGED <<st, removals, active, listeners, mail, pending>>
    BY <2>1 DEF TdStepIs
  <2> QED
    BY <1>1, <1>2, <2>1, <2>2, TokenTd
<1> QED
  BY <1>4, <1>5, <1>6, <1>7, <1>8, <1>9, <1>10, <1>11, <1>12, <1>13 DEF Next

Living == Steady /\ EndInv /\ LifeInv

LEMMA InitLiving == Init => Living
<1> SUFFICES ASSUME Init PROVE Living
  OBVIOUS
<1>1. Steady /\ EndInv
  BY InitSteady DEF Init, EndInv, Open, Ended
<1>2. /\ requests = <<>> /\ results = <<>> /\ pending = <<>> /\ removals = {}
      /\ listeners = {} /\ active = {} /\ mail = [s \in Streams |-> <<>>]
      /\ st = [s \in Streams |-> [phase |-> "new", client |-> FALSE, ready |-> FALSE,
                                  completed |-> FALSE, served |-> FALSE]]
  BY DEF Init
<1>3. Len(requests) = 0 /\ Len(results) = 0 /\ Len(pending) = 0 /\ \A k \in 1..0 : FALSE
  BY <1>2
<1>4. PendingActive /\ RemovedOnce /\ \A s : ~Asked(s)
  BY <1>2, <1>3 DEF PendingActive, RemovedOnce, Asked, Pends, Asks, Answered, Names
<1>5. ASSUME NEW s \in Streams PROVE Life(s)
  <2>1. st[s].phase = "new" /\ ~st[s].client /\ ~st[s].ready /\ mail[s] = <<>>
    BY <1>2
  <2> QED
    BY <1>2, <1>4, <2>1 DEF Life, Introduced, Unborn, NotYetTold, FileFirst, Removed, Open
<1> QED
  BY <1>1, <1>4, <1>5 DEF Living, LifeInv, Lives

LEMMA StepLiving == Living /\ [Next]_vars => Living'
  BY StepSteady, StepEnds, StepLives DEF Living, Steady

LEMMA DeadForgotten ==
  ASSUME Living, Faults \cap EarlyEnds = {}, Quiet, NEW s \in Streams,
         s \in active \cup listeners \cup {pending[k] : k \in 1..Len(pending)}
  PROVE  Open(s)
<1>1. Lives /\ Life(s) /\ removals = {}
  BY DEF Living, LifeInv, Lives, Quiet
<1>2. s \in active \/ s \in listeners
  BY <1>1 DEF Lives, PendingActive
<1>3. st[s].phase \in {"new", "open", "closed"}
  BY DEF Living, Steady, Typed, StreamTypes, StreamType
<1> QED
  BY <1>1, <1>2, <1>3 DEF Life, Unborn, Removed, Open

(* Client forgets every stream that has ended: remove_file_stream finds it *)
(* where start_file_stream and the answer to getRemoteFile have put it,    *)
(* because a stream does not end before it knows its client and its file.  *)
THEOREM DeadStreamsAlwaysForgotten == Spec => []DeadStreamsForgotten
<1>1. Living => DeadStreamsForgotten
  BY DeadForgotten DEF DeadStreamsForgotten, Without
<1> QED
  BY <1>1, InitLiving, StepLiving, PTL DEF Spec

(* A download nobody wants is cancelled: the last listener to be removed   *)
(* gives it up, and nothing starts it again that is not wanted.            *)
THEOREM LastOneAlwaysCancels == Spec => []LastOneCancels
<1>1. Living => LastOneCancels
  <2> SUFFICES ASSUME Living, Faults \cap (TdFaults \cup EarlyEnds) = {}, Quiet, ~Closing, td.active,
                      waiting = {}, ~Deleted
               PROVE  \E s \in Streams : Open(s)
    BY DEF LastOneCancels, Without, NoUnwantedDownload, Deleted
  <2>1. Faults \cap EarlyEnds = {} /\ Working
    BY DEF Working, NoTdFault
  <2>2. CancelInv /\ Clean
    BY <2>1 DEF Living, Steady, DownloadInv, Working
  <2>3. Len(requests) = 0 /\ \A k \in 1..0 : FALSE
    BY DEF Quiet
  <2>4. ~GivesLast(requests)
    BY <2>3 DEF GivesLast
  <2>5. PICK s \in listeners : TRUE
    BY <2>2, <2>4 DEF CancelInv, Wanted, Clean
  <2>6. s \in Streams
    BY <2>5 DEF Living, Steady, Typed, ClientTypes
  <2> QED
    BY <2>1, <2>5, <2>6, DeadForgotten
<1> QED
  BY <1>1, InitLiving, StepLiving, PTL DEF Spec

===============================================================================
