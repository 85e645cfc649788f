-------------------------- MODULE FileStreamListeners --------------------------
(***************************************************************************)
(* How one bot's Client (server/Client.cpp) shares one TDLib download      *)
(* between the streams and the getFile queries of a file, and when it      *)
(* starts, cancels and deletes that download.                              *)
(*                                                                         *)
(* Four parties exchange messages and are interleaved arbitrarily: the     *)
(* FileStreamConnection actors (their own scheduler), Client, TDLib, and   *)
(* ClientManager, which hands a stream to Client.  Queues: mail[s], what   *)
(* ClientManager and Client send to stream s; removals, the calls of       *)
(* remove_file_stream on their way to Client; requests, from Client to     *)
(* TDLib; results, answers and updates from TDLib to Client.  Bytes are    *)
(* left out (FileStreamConnection models them): a stream that knows the    *)
(* file may end at any moment, successfully or not.                        *)
(***************************************************************************)
EXTENDS Naturals, Sequences, FiniteSets

CONSTANTS
  Streams,      \* the streams of the file
  Queries,      \* the getFile queries for the file
  NoCache,      \* the streams with the X-Telegram-No-Cache header
  Scenarios     \* the streams that come and what may go wrong, case by case

ASSUME NoCacheAssumption == NoCache \subseteq Streams
ASSUME NamesAssumption == Streams \cap Queries = {}
ASSUME ScenarioAssumption ==
  Scenarios \subseteq
    [streams : SUBSET Streams,
     faults : SUBSET {"early_end", "end_before_client", "td_error", "download_stops",
                      "file_is_big", "closing", "logged_out"}]

VARIABLES
  scenario,   \* the case at hand; it never changes
  st,         \* per stream: what its FileStreamConnection knows
  mail,       \* per stream: closures on their way to it
  removals,   \* calls of Client::remove_file_stream on their way
  state,      \* the authorization state of Client
  active,     \* active_file_streams_
  pending,    \* pending_file_streams_
  listeners,  \* file_stream_listeners_ of the file
  waiting,    \* file_download_listeners_ of the file
  started,    \* the file is in download_started_file_ids_
  answers,    \* per query: its answer
  requests,   \* requests on their way to TDLib
  results,    \* results and updates on their way to Client
  td          \* the file as TDLib sees it

streamVars == <<st, mail, removals>>
clientVars == <<state, active, pending, listeners, waiting, started, answers>>
tdVars     == <<requests, results, td>>
system     == <<streamVars, clientVars, tdVars>>
vars       == <<scenario, system>>

Faults == scenario.faults

(* A snapshot of the file object: whether there is a local file, whether   *)
(* it is complete, whether a download runs, and whether the size is over   *)
(* MAX_DOWNLOAD_FILE_SIZE.                                                 *)
Snapshots == [exists : BOOLEAN, completed : BOOLEAN, active : BOOLEAN, big : BOOLEAN]

Message(type, snap) == [type |-> type, snap |-> snap]
Request(type, who)  == [type |-> type, who |-> who]
Result(type, who, snap) == [type |-> type, who |-> who, snap |-> snap]

Nobody == "nobody"
NoSnap == [exists |-> FALSE, completed |-> FALSE, active |-> FALSE, big |-> FALSE]

-------------------------------------------------------------------------------
(* FileStreamConnection, as Client and ClientManager see it. *)

Open(s) == st[s].phase = "open"

(* tear_down: remove_file_stream is called only if the client is known, and *)
(* names the file only if on_file_ready has been handled.                   *)
NamelessRemoval(s, ok) ==
  [stream |-> s, file |-> FALSE, delete |-> ok /\ s \in NoCache]
Removal(s, ok) ==
  [stream |-> s, file |-> st[s].ready, delete |-> ok /\ s \in NoCache]

Close(s, ok) ==
  /\ st' = [st EXCEPT ![s].phase = "closed", ![s].served = ok]
  /\ removals' = IF st[s].client THEN removals \cup {Removal(s, ok)} ELSE removals

TakeMail(s, type) ==
  /\ Open(s)
  /\ mail[s] # <<>>
  /\ Head(mail[s]).type = type
  /\ mail' = [mail EXCEPT ![s] = Tail(@)]
  /\ UNCHANGED <<clientVars, tdVars>>

set_client(s) ==
  /\ TakeMail(s, "set_client")
  /\ st' = [st EXCEPT ![s].client = TRUE]
  /\ UNCHANGED removals

on_file_ready(s) ==
  /\ TakeMail(s, "on_file_ready")
  /\ LET snap == Head(mail[s]).snap
     IN  st' = [st EXCEPT ![s].ready = TRUE, ![s].completed = snap.completed]
  /\ UNCHANGED removals

(* A report of a download that neither runs nor is complete aborts. *)
on_file_progress(s) ==
  /\ TakeMail(s, "on_file_progress")
  /\ LET snap == Head(mail[s]).snap
         done == st[s].completed \/ snap.completed
     IN  \/ /\ ~done /\ ~snap.active
            /\ Close(s, FALSE)
         \/ /\ done \/ snap.active
            /\ st' = [st EXCEPT ![s].completed = done]
            /\ UNCHANGED removals

on_file_error(s) ==
  /\ TakeMail(s, "on_file_error")
  /\ Close(s, FALSE)

(* The stream ends for a reason of its own: all bytes sent, the HTTP       *)
(* client gone, or a timer.  Only the first-byte timer can end it before   *)
(* on_file_ready, or even before set_client.                               *)
EndStream(s) ==
  /\ Open(s)
  /\ \/ st[s].ready /\ \E ok \in BOOLEAN : Close(s, ok)
     \/ /\ ~st[s].ready
        /\ \/ st[s].client /\ "early_end" \in Faults
           \/ ~st[s].client /\ "end_before_client" \in Faults
        /\ Close(s, FALSE)
  /\ UNCHANGED <<mail, clientVars, tdVars>>

-------------------------------------------------------------------------------
(* Client: starting a stream.  m, r, a, p stand for mail, requests, active *)
(* and pending as earlier statements have left them.                       *)

Closing == state \in {"closing", "closed", "closed_unauthorized"}
WasAuthorized == state \in {"ready", "closing", "closed"}

Send(m, s, type, snap) == [m EXCEPT ![s] = Append(@, Message(type, snap))]

(* send_file_stream of ClientManager calls set_client and then             *)
(* start_file_stream: the stream waits for the authorization, is refused   *)
(* by a closing client, or asks TDLib for the file.                        *)
start_file_stream(s) ==
  /\ st[s].phase = "new" /\ s \in scenario.streams
  /\ st' = [st EXCEPT ![s].phase = "open"]
  /\ active' = active \cup {s}
  /\ LET m == Send(mail, s, "set_client", NoSnap)
     IN  \/ /\ ~WasAuthorized
            /\ pending' = Append(pending, s)
            /\ mail' = m
            /\ UNCHANGED requests
         \/ /\ WasAuthorized /\ Closing
            /\ mail' = Send(m, s, "on_file_error", NoSnap)
            /\ UNCHANGED <<pending, requests>>
         \/ /\ WasAuthorized /\ ~Closing
            /\ mail' = m
            /\ requests' = Append(requests, Request("getRemoteFile", s))
            /\ UNCHANGED pending
  /\ UNCHANGED <<removals, state, listeners, waiting, started, answers, results, td>>

(* authorizationStateReady: the pending streams are started in order. *)
Authorize ==
  /\ state = "authorizing"
  /\ state' = "ready"
  /\ requests' = requests \o [k \in 1..Len(pending) |-> Request("getRemoteFile", pending[k])]
  /\ pending' = <<>>
  /\ UNCHANGED <<streamVars, active, listeners, waiting, started, answers, results, td>>

(* remove_file_stream: the last listener of the file gives up the download *)
(* unless a getFile query still waits for it.                              *)
RemovalRequest(r) == IF r.delete THEN "deleteFile" ELSE "cancelDownloadFile"

(* pending_file_streams_ without the stream s, which is in it at most once. *)
Erased(s) ==
  LET k == CHOOSE k \in 1..Len(pending) : pending[k] = s
  IN  [j \in 1..(Len(pending) - 1) |-> pending[IF j < k THEN j ELSE j + 1]]

AlwaysWanted == TRUE
StillWanted == waiting # {}

remove_file_stream(r) ==
  /\ r \in removals
  /\ removals' = removals \ {r}
  /\ active' = active \ {r.stream}
  /\ pending' = IF \E k \in 1..Len(pending) : pending[k] = r.stream
                 THEN Erased(r.stream) ELSE pending
  /\ \/ /\ ~r.file \/ listeners = {}
        /\ UNCHANGED <<listeners, requests>>
     \/ /\ r.file /\ listeners # {}
        /\ listeners' = listeners \ {r.stream}
        /\ requests' = IF listeners' = {} /\ ~StillWanted /\ ~Closing
                       THEN Append(requests, Request(RemovalRequest(r), Nobody))
                       ELSE requests
  /\ UNCHANGED <<st, mail, state, waiting, started, answers, results, td>>

-------------------------------------------------------------------------------
(* Client: getFile.  getRemoteFile is asked for the file; do_get_file then *)
(* makes the query wait and always sends downloadFile.                     *)

getFile(q) ==
  /\ answers[q] = "new"
  /\ state = "ready"
  /\ answers' = [answers EXCEPT ![q] = "asked"]
  /\ requests' = Append(requests, Request("getRemoteFile", q))
  /\ UNCHANGED <<streamVars, state, active, pending, listeners, waiting, started, results, td>>

TakeResult(type) ==
  /\ state \notin {"closed", "closed_unauthorized"}
  /\ results # <<>>
  /\ Head(results).type = type
  /\ results' = Tail(results)
  /\ UNCHANGED <<td, state, active, pending>>

(* on_file_download: every waiting query gets the same answer. *)
on_file_download(queries, answer) ==
  /\ answers' = [q \in Queries |-> IF q \in queries THEN answer ELSE answers[q]]
  /\ waiting' = {}
  /\ started' = FALSE

(* A closing client answers downloadFile with an error at once.            *)
AsksIfAlone == IF listeners = {} THEN <<Request("downloadFile", "query")>> ELSE <<>>
AskForDownload == <<Request("downloadFile", "query")>>

do_get_file ==
  /\ TakeResult("remoteFile")
  /\ LET q == Head(results).who
     IN  /\ q \in Queries
         /\ \/ /\ Head(results).snap.big
               /\ answers' = [answers EXCEPT ![q] = "failed"]
               /\ UNCHANGED <<waiting, started, requests>>
            \/ /\ ~Head(results).snap.big /\ Closing
               /\ on_file_download(waiting \cup {q}, "failed")
               /\ UNCHANGED requests
            \/ /\ ~Head(results).snap.big /\ ~Closing
               /\ waiting' = waiting \cup {q}
               /\ requests' = requests \o AskForDownload
               /\ UNCHANGED <<answers, started>>
  /\ UNCHANGED <<streamVars, listeners>>

(* on_update_file: the streams are told first; then the queries are        *)
(* answered if the file is too big, complete, or no longer downloaded.  A  *)
(* stop seen before the answer to downloadFile (b: started) is not theirs. *)
AnyStop(b, snap) == ~snap.active
StopFailsQuery(b, snap) == b /\ ~snap.active

on_update_file(snap, b) ==
  /\ mail' = [s \in Streams |-> IF s \in listeners
                                THEN Append(mail[s], Message("on_file_progress", snap))
                                ELSE mail[s]]
  /\ \/ /\ waiting = {}
        /\ UNCHANGED <<answers, waiting, requests>>
        /\ started' = b
     \/ /\ waiting # {} /\ snap.big
        /\ requests' = IF snap.active /\ ~Closing
                       THEN Append(requests, Request("cancelDownloadFile", Nobody))
                       ELSE requests
        /\ on_file_download(waiting, "failed")
     \/ /\ waiting # {} /\ ~snap.big /\ snap.completed
        /\ on_file_download(waiting, "ok")
        /\ UNCHANGED requests
     \/ /\ waiting # {} /\ ~snap.big /\ ~snap.completed /\ StopFailsQuery(b, snap)
        /\ on_file_download(waiting, "failed")
        /\ UNCHANGED requests
     \/ /\ waiting # {} /\ ~snap.big /\ ~snap.completed /\ ~StopFailsQuery(b, snap)
        /\ UNCHANGED <<answers, waiting, requests>>
        /\ started' = b
  /\ UNCHANGED <<st, removals, listeners>>

on_update ==
  /\ TakeResult("updateFile")
  /\ on_update_file(Head(results).snap, started)

(* TdOnDownloadFileCallback and TdOnFileStreamDownloadCallback; an error   *)
(* goes to the queries or to the streams, whoever asked.                   *)
MarkedForNobody(who) == who = "query"
MarksStarted(who) == who = "query" /\ waiting # {}

on_download_result ==
  /\ TakeResult("file")
  /\ on_update_file(Head(results).snap, started \/ MarksStarted(Head(results).who))

on_download_error ==
  /\ TakeResult("downloadError")
  /\ \/ /\ Head(results).who = "query"
        /\ on_file_download(waiting, "failed")
        /\ UNCHANGED mail
     \/ /\ Head(results).who = "stream"
        /\ mail' = [s \in Streams |-> IF s \in listeners
                                      THEN Append(mail[s], Message("on_file_error", NoSnap))
                                      ELSE mail[s]]
        /\ UNCHANGED <<answers, waiting, started>>
  /\ UNCHANGED <<st, removals, listeners, requests>>

(* The error answer to getRemoteFile. *)
on_remote_error ==
  /\ TakeResult("remoteError")
  /\ LET w == Head(results).who
     IN  \/ /\ w \in Queries
            /\ answers' = [answers EXCEPT ![w] = "failed"]
            /\ UNCHANGED mail
         \/ /\ w \in Streams
            /\ mail' = IF w \in active THEN Send(mail, w, "on_file_error", NoSnap) ELSE mail
            /\ UNCHANGED answers
  /\ UNCHANGED <<st, removals, listeners, waiting, started, requests>>

(* TdOnFileStreamRemoteFileCallback: the stream becomes a listener; the    *)
(* first listener starts the download.                                     *)
NeverStart == FALSE
NeedStartDownload == listeners = {}

on_remote_file ==
  /\ TakeResult("remoteFile")
  /\ LET s    == Head(results).who
         snap == Head(results).snap
     IN  /\ s \in Streams
         /\ \/ /\ s \notin active
               /\ UNCHANGED <<mail, listeners, requests>>
            \/ /\ s \in active
               /\ listeners' = listeners \cup {s}
               /\ \/ /\ NeedStartDownload /\ Closing
                     /\ mail' = Send(Send(mail, s, "on_file_ready", snap), s, "on_file_error", snap)
                     /\ UNCHANGED requests
                  \/ /\ ~(NeedStartDownload /\ Closing)
                     /\ mail' = Send(mail, s, "on_file_ready", snap)
                     /\ requests' = IF NeedStartDownload
                                    THEN Append(requests, Request("downloadFile", "stream"))
                                    ELSE requests
  /\ UNCHANGED <<st, removals, waiting, started, answers>>

-------------------------------------------------------------------------------
(* Client: the end.  A closing client answers requests itself; on_closed   *)
(* ends every stream and every query and keeps the client without TDLib.   *)

BeginClosing ==
  /\ state = "ready" /\ "closing" \in Faults
  /\ state' = "closing"
  /\ UNCHANGED <<streamVars, active, pending, listeners, waiting, started, answers, tdVars>>

ListenersOnly == listeners
ToldOfTheEnd  == active

on_closed ==
  /\ \/ state = "closing" /\ state' = "closed"
     \/ state = "authorizing" /\ "logged_out" \in Faults /\ state' = "closed_unauthorized"
  /\ mail' = [s \in Streams |-> IF s \in ToldOfTheEnd
                                THEN Append(mail[s], Message("on_file_error", NoSnap))
                                ELSE mail[s]]
  /\ active' = {}
  /\ pending' = <<>>
  /\ listeners' = {}
  /\ waiting' = {}
  /\ started' = FALSE
  /\ answers' = [q \in Queries |-> IF answers[q] \in {"ok", "new"} THEN answers[q] ELSE "failed"]
  /\ requests' = <<>>
  /\ results' = <<>>
  /\ td' = [td EXCEPT !.active = FALSE]
  /\ UNCHANGED <<st, removals>>

-------------------------------------------------------------------------------
(* TDLib, as Client uses it. *)

Emit(r) == results' = Append(results, r)

TakeRequest(type) ==
  /\ requests # <<>>
  /\ Head(requests).type = type
  /\ requests' = Tail(requests)
  /\ UNCHANGED <<streamVars, clientVars>>

TdGetRemoteFile ==
  /\ TakeRequest("getRemoteFile")
  /\ \/ Emit(Result("remoteFile", Head(requests).who, td))
     \/ "td_error" \in Faults /\ Emit(Result("remoteError", Head(requests).who, NoSnap))
  /\ UNCHANGED td

(* A new download starts from nothing or continues a partial file; a       *)
(* complete file is returned as it is.                                     *)
TdDownloadFile ==
  /\ TakeRequest("downloadFile")
  /\ \/ /\ td' = IF td.completed THEN td ELSE [td EXCEPT !.exists = TRUE, !.active = TRUE]
        /\ Emit(Result("file", Head(requests).who, td'))
     \/ /\ "td_error" \in Faults
        /\ Emit(Result("downloadError", Head(requests).who, NoSnap))
        /\ UNCHANGED td

(* An update is sent when the file object changes. *)
Update == IF td' # td THEN Emit(Result("updateFile", Nobody, td')) ELSE UNCHANGED results

TdCancelDownloadFile ==
  /\ TakeRequest("cancelDownloadFile")
  /\ td' = [td EXCEPT !.active = FALSE]
  /\ Update

TdDeleteFile ==
  /\ TakeRequest("deleteFile")
  /\ td' = [NoSnap EXCEPT !.big = td.big]
  /\ Update

TdStep(new) ==
  /\ td.active /\ td' = new
  /\ Update
  /\ UNCHANGED <<requests, streamVars, clientVars>>

TdComplete == TdStep([td EXCEPT !.completed = TRUE, !.active = FALSE])
TdStop     == "download_stops" \in Faults /\ TdStep([td EXCEPT !.active = FALSE])
TdGrow     == "file_is_big" \in Faults /\ ~td.big /\ TdStep([td EXCEPT !.big = TRUE])

-------------------------------------------------------------------------------
Init ==
  /\ scenario \in Scenarios
  /\ st = [s \in Streams |-> [phase |-> "new", client |-> FALSE, ready |-> FALSE,
                              completed |-> FALSE, served |-> FALSE]]
  /\ mail = [s \in Streams |-> <<>>]
  /\ removals = {}
  /\ state = "authorizing"
  /\ active = {}
  /\ pending = <<>>
  /\ listeners = {}
  /\ waiting = {}
  /\ started = FALSE
  /\ answers = [q \in Queries |-> "new"]
  /\ requests = <<>>
  /\ results = <<>>
  /\ td \in {NoSnap, [NoSnap EXCEPT !.exists = TRUE],
             [NoSnap EXCEPT !.exists = TRUE, !.completed = TRUE]}

StreamStep(s) == set_client(s) \/ on_file_ready(s) \/ on_file_progress(s) \/ on_file_error(s)
ClientResult  == \/ on_remote_file \/ on_remote_error \/ do_get_file
                 \/ on_update \/ on_download_result \/ on_download_error
TdRequest     == TdGetRemoteFile \/ TdDownloadFile \/ TdCancelDownloadFile \/ TdDeleteFile

Next ==
  /\ \/ \E s \in Streams : StreamStep(s) \/ EndStream(s) \/ start_file_stream(s)
     \/ \E r \in removals : remove_file_stream(r)
     \/ \E q \in Queries : getFile(q)
     \/ ClientResult \/ Authorize \/ BeginClosing \/ on_closed
     \/ TdRequest \/ TdComplete \/ TdStop \/ TdGrow
  /\ UNCHANGED scenario

(* Actors handle their messages and TDLib its requests, and a download     *)
(* that runs comes to an end.  No stream is forced to start or to end.     *)
Spec == Init /\ [][Next]_vars
FairSpec ==
  /\ Spec
  /\ \A s \in Streams : WF_system(StreamStep(s))
  /\ WF_system(\E r \in removals : remove_file_stream(r))
  /\ WF_system(ClientResult)
  /\ WF_system(TdRequest)
  /\ WF_system(TdComplete)

-------------------------------------------------------------------------------
(* Properties. *)

(* Every variable has its type. *)
TypeOK ==
  /\ scenario \in Scenarios
  /\ st \in [Streams -> [phase : {"new", "open", "closed"}, client : BOOLEAN,
                         ready : BOOLEAN, completed : BOOLEAN,
                         served : BOOLEAN]]
  /\ mail \in [Streams -> Seq([type : {"set_client", "on_file_ready", "on_file_progress",
                                       "on_file_error"}, snap : Snapshots])]
  /\ removals \subseteq [stream : Streams, file : BOOLEAN, delete : BOOLEAN]
  /\ state \in {"authorizing", "ready", "closing", "closed", "closed_unauthorized"}
  /\ active \subseteq Streams /\ listeners \subseteq Streams
  /\ pending \in Seq(Streams)
  /\ waiting \subseteq Queries /\ started \in BOOLEAN
  /\ answers \in [Queries -> {"new", "asked", "ok", "failed"}]
  /\ requests \in Seq([type : {"getRemoteFile", "downloadFile", "cancelDownloadFile", "deleteFile"},
                       who : Streams \cup Queries \cup {Nobody, "stream", "query"}])
  /\ results \in Seq([type : {"remoteFile", "remoteError", "file", "downloadError", "updateFile"},
                      who : Streams \cup Queries \cup {Nobody, "stream", "query"},
                      snap : Snapshots])
  /\ td \in Snapshots

(* No message is under way. *)
Quiet ==
  /\ removals = {} /\ requests = <<>> /\ results = <<>>
  /\ \A s \in Streams : Open(s) => mail[s] = <<>>

(* Properties of the cases in which none of some faults happens. *)
Without(faults, P) == Faults \cap faults = {} => P

TdFaults  == {"td_error", "download_stops", "file_is_big"}
EarlyEnds == {"early_end", "end_before_client"}

(* Whoever waits for the file is fed: once nothing is under way, a         *)
(* download runs or is complete as long as an open stream listens or a     *)
(* getFile query waits (need_start_download and the cancellation by the    *)
(* last listener never leave a listener behind without a download).  TDLib *)
(* does not fail: a stream that joins between a failure and the removal of *)
(* the listeners that were told of it waits for its timer.                 *)
ListenersFed == Without(TdFaults,
  Quiet /\ ~Closing =>
    /\ (\E s \in listeners : Open(s)) => td.active \/ td.completed
    /\ waiting # {} => td.active)

(* Client forgets a stream that has ended: tear_down and                   *)
(* remove_file_stream leave no entry of a dead actor in                    *)
(* active_file_streams_, pending_file_streams_ or file_stream_listeners_,  *)
(* unless it ended before it knew its client and its file.                 *)
DeadStreamsForgotten == Without(EarlyEnds,
  Quiet => \A s \in Streams :
             s \in active \cup listeners \cup {pending[k] : k \in 1..Len(pending)} => Open(s))

(* A download nobody wants is cancelled: once nothing is under way, TDLib  *)
(* downloads only for an open stream or a waiting query.  Two exceptions:  *)
(* a closing client leaves this to the end of TDLib, and the copy that a   *)
(* served No-Cache stream deletes may be one that a query has just been    *)
(* answered with, whose downloadFile then fetches the file once more.      *)
NoUnwantedDownload ==
  Quiet /\ ~Closing /\ td.active =>
    \/ waiting # {}
    \/ \E s \in Streams : Open(s)
    \/ \E s \in NoCache : st[s].served

(* So it is as long as TDLib does not fail and no stream ends before it    *)
(* knows its client and its file.                                          *)
LastOneCancels == Without(TdFaults \cup EarlyEnds, NoUnwantedDownload)

(* download_started_file_ids_ holds a file only while a query waits for    *)
(* it: a mark left behind would let the stop of an older download fail the *)
(* next query.                                                             *)
StartedMarksWaiting == started => waiting # {}

(* The variables have their types and the mark is exact. *)
Consistent == TypeOK /\ StartedMarksWaiting

(* A served No-Cache stream may have deleted the file while the            *)
(* downloadFile of a query that is answered was still on its way.  The     *)
(* answer to that request marks the file for the next query, which then    *)
(* fails when another stream has stopped this download in between.         *)
LateAnswer == (\E s \in NoCache : st[s].served) /\ (\E q \in Queries : answers[q] = "ok")

(* Streams do no harm to getFile: while TDLib does not fail and the client *)
(* does not close, no query fails, although streams cancel and delete the  *)
(* download it shares (download_started_file_ids_ tells a stop of an older *)
(* download apart), with the one exception above.                          *)
GetFileUnharmed ==
  Without(TdFaults, ~Closing /\ ~LateAnswer => \A q \in Queries : answers[q] # "failed")

(* Every getFile query is answered. *)
GetFileAnswered == \A q \in Queries : answers[q] = "asked" ~> answers[q] \in {"ok", "failed"}

(* A client that has closed holds no open stream: each is answered when it *)
(* closes or when it arrives.                                              *)
ClosedClientHoldsNoStream ==
  Quiet /\ state \in {"closed", "closed_unauthorized"} => \A s \in Streams : ~Open(s)

(* So it is for a client whose authorization has succeeded. *)
EndReachesAll == Without({"logged_out"}, ClosedClientHoldsNoStream)
===============================================================================
