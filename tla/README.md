# Formal verification of the file-streaming Bot API server

This directory holds TLA+ models of the parts of `server/` that keep state from one message to
the next: the HTTP file stream this repository adds to the Telegram Bot API server, the download
it shares with `getFile`, the slots and the cached files it uses, the queue of updates and both
ways out of it (`getUpdates` and webhooks), and how clients and the server end. Paths below are
relative to `src/`.

## 1. The system

`telegram-bot-api` is one process. Its parts are actors of TDLib's actor framework: an actor
handles one message at a time, messages between two actors stay in order, and actors of
different schedulers run in parallel. A handler is therefore one atomic step; everything
between two handlers may interleave.

| part | state | operations | talks to |
|---|---|---|---|
| `FileStreamCursor` | five offsets of one response | `set_range`, `update_progress`, `next_read_size`, `commit`, `is_complete` | owned by a stream |
| `FileStreamRoute` | none | parse URL, `Range`, size headers, IP allowlist | `HttpConnection`, `FileStreamConnection` |
| `FileStreamConnection` | cursor, local path and descriptor, `headers_sent_`, `write_in_flight_`, pending block, `download_completed_`, timer | `start_up`, `set_client`, `on_file_ready`, `on_file_progress`, `on_file_error`, `try_read`, `on_headers_flushed`, `on_chunk_flushed`, `timeout_expired`, `fail`, `abort`, `finish`, `tear_down` | `ClientManager`, `Client`, `HttpInboundConnection`, `WorkdirCleanupManager` |
| `HttpConnectionBase` (vendored, extended with write promises) | `state_`, write buffer, promises | `write_next_with_promise`, `write_ok`, `write_error`, `loop`, `tear_down` | `FileStreamConnection`, socket |
| `Client` (stream and `getFile` part) | `active_file_streams_`, `pending_file_streams_`, `file_stream_listeners_`, `file_download_listeners_`, `download_started_file_ids_`, authorization state | `start_file_stream`, `remove_file_stream`, `do_get_file`, callbacks of `getRemoteFile` and `downloadFile`, `on_update_file`, `on_closed` | streams, TDLib |
| `ClientManager` (stream part) | `active_file_stream_ids_`, `active_file_stream_token_`, `active_file_streams_by_token_`, `token_to_id_`, `close_flag_` | `send_file_stream`, `release_file_stream`, `hangup_shared`, `close` | streams, `Client` |
| `WorkdirCleanupManager` | `active_files_`, next run | `retain_file`, `release_file`, `run_cleanup` | streams, file system |
| `ClientManager` (rest) | `clients_`, `active_client_count_`, `close_flag_`, `close_db_started_`, `close_finished_`, flood control | `send`, `raw_event`, `hangup_shared`, `close`, `close_db`, `finish_close`, `timeout_expired`, statistics | HTTP, `Client`, databases, main loop |
| `Client` (life) | `was_authorized_`, `closing_`, `logging_out_`, `need_close_`, `td_client_` | `start_up`, authorization updates, `on_closed`, `finish_closing`, `close`, `timeout_expired` | `ClientManager`, TDLib |
| main loop | `close_flag`, `can_quit`, `need_quit` | start the shutdown, exit | signals, `ClientManager`, cleanup |
| `TQueue` and its binlog (`td/tddb/td/db/TQueue.cpp`) | per bot: events, `tail_id`, `gc_at`; records on the disk | `push`, `forget`, `get`, `clear`, `run_gc`, replay | `Client`, `WebhookActor`, `ClientManager` |
| `Client` (updates) | `long_poll_query_` with its offset, slot and hard timeout | `add_update_impl`, `do_get_updates`, `long_poll_wakeup`, `raw_event` | `TQueue`, `WebhookActor` |
| `WebhookActor` | `update_map_`, `queue_updates_`, `queues_`, connections, retry times | load, send, retry, drop, verify, close | `Client`, `TQueue`, HTTP |
| `Client` (webhook) | `webhook_url_`, `webhook_id_`, `webhook_generation_`, `webhook_set_query_`, `active_webhook_set_query_`, `webhook_query_type_`, certificate | `process_set_webhook_query`, `do_set_webhook`, `finish_set_webhook`, `webhook_verified`, `webhook_closed`, `on_webhook_certificate_copied`, `on_closed` | `WebhookActor`, certificate scheduler, `webhook_db_` |
| `Client` (Bot API methods) | caches of users, chats, messages | about 170 methods | TDLib |
| TDLib | vendored | `getRemoteFile`, `downloadFile`, `cancelDownloadFile`, `deleteFile` | `Client` |

How a stream is served: `HttpConnection` recognises a stream URL and creates a
`FileStreamConnection`, which asks `ClientManager` for a slot (`send_file_stream`).
`ClientManager` refuses it with `on_file_error` or tells it its client (`set_client`) and hands
it to that `Client`. The client asks TDLib for the file, makes the stream a listener, sends it
`on_file_ready`, and, for the first listener, starts the download. Every `updateFile` is
forwarded as `on_file_progress`. The stream reads the contiguous prefix of the local file one
chunk at a time; a write promise tells it when a chunk has left. When it ends it gives back its
slot (`release_file_stream`) and its listener entry (`remove_file_stream`); the last listener
cancels or deletes the download unless a `getFile` query waits for it.

How an update is delivered: `add_update_impl` pushes it to the queue of its bot and tells the
long poll, if one waits, or the `WebhookActor`. A long poll waits a little for more updates and
then reads the queue; its next offset confirms what the bot has received. The `WebhookActor`
loads updates into chains, one per chat, and sends the first of each chain on its own
connection; the answer drops the update or puts its chain off. Setting a webhook ends the long
poll, closes the old `WebhookActor` first, waits for its `webhook_closed`, copies or removes the
certificate on another scheduler, and answers only after the new actor has verified the address.

What is hard: three schedulers exchange messages about one file; every message may be
overtaken by the end of the stream it is for; TDLib renames and deletes the file a stream
reads; one download has several owners with different ideas of when it ends; a failure has to
be told apart from a stale report; the actor of an old webhook goes on talking while its
successor is being made; a restart finds only what the log and `webhook_db_` hold. The hazards are listed at their lines in `PROJECT.json`.

What makes each part correct:

- cursor and range: a response carries exactly the bytes the request selects;
- stream: each byte once, in order, only from the prefix that is written; one response per
  request; a response that ends short closes the connection; every stream ends without its timer;
- shared download: whoever waits is fed, nobody's download goes on, `getFile` is answered and
  not harmed by streams, ended streams are forgotten;
- slots: counters are exact, limits hold, every slot comes back;
- cleanup: holds are counted exactly, a file known to be held is kept, a round deletes the
  least recently used files and no more than it should;
- shutdown: every client is counted up and down once, databases are closed after the last
  client, the server ends without waiting for a deadline;
- update queue: no update is lost but for a reason (expired, queue full, dropped on request, a
  torn log), no identifier is given out twice, a restart finds the queue as it was;
- webhook and long poll: one consumer at a time, updates of a chat in order, nothing waits for a
  wake-up that does not come, a long poll ends on time;
- setting the webhook: every request is answered once and with what it asked for, what is saved
  is what is in use, an old actor's messages do no harm.

## 2. The modules

| module | models | composed of |
|---|---|---|
| `FileStreamCursor` | `FileStreamCore.h`, `FileStreamCursor.cpp`: the arithmetic of one response, as operators | |
| `FileStreamRoute` | `parse_file_stream_range` and the reference meaning of a range request | `FileStreamCursor` |
| `FileStreamConnection` | one stream with its HTTP connection and the local file under it | `FileStreamRoute`, `FileStreamCursor` |
| `FileStreamListeners` | the part of `Client` that shares one download among streams and `getFile` queries | |
| `FileStreamSlots` | admission and release of streams in `ClientManager` | |
| `StreamedResponse` | abstract specification: what a response promises to the HTTP client | |
| `UpdateQueue` | `TQueue` and the log it is replayed from, as operators | |
| `UpdateDelivery` | pushing, `getUpdates` with long polling, `WebhookActor`, expiration, restart | `UpdateQueue` |
| `WebhookControl` | setting, replacing, deleting, saving and restoring a webhook | |
| `WorkdirCleanup` | `WorkdirCleanupManager` with the streams that hold files | |
| `ServerShutdown` | the life of clients, `ClientManager::close` and the main loop | |
| `FileStreamSlotsProofs`, `FileStreamConnectionProofs`, `FileStreamListenersProofs`, `WorkdirCleanupProofs`, `ServerShutdownProofs`, `WebhookControlProofs`, `UpdateQueueProofs`, `UpdateDeliveryProofs` | theorems about the module of that name (section 5); those about `FileStreamRoute` and `FileStreamCursor` are in `FileStreamConnectionProofs` | the module; `UpdateDeliveryProofs` also `UpdateQueueProofs` |
| `MC*` | values of the constants for the runs | |

State and actions follow the code: a variable (or a field of a record variable) is a member of
the class, named after it, and an action is a handler, named after it. Messages under way are
sequences, one per sender and receiver, or a set where the order cannot matter (`removals`,
`close_mail`). What a handler calls on the same scheduler (`try_read`, `fail`, `finish`, the
write of a chunk) is part of the action; what it sends with `send_closure` is a message.

- `FileStreamConnection`: `stream`, `cursor`, `http`, `inbox` (closures of `ClientManager` and
  `Client`) and `flushed` (write promises) are the program's state; `disk` and `td` are the
  files TDLib makes and what it reports of them. A download writes a temporary file, is renamed
  when complete and may be deleted and done again (`Generations`). An open descriptor outlives
  both. `wire` records what the HTTP client has received. Bytes are abstracted to offsets and
  to whether a chunk lies in the written prefix of the file it was read from.
- `FileStreamListeners`: one file. Streams are reduced to what `Client` sees of them; `td` is
  the file object; `requests` and `results` are the traffic with TDLib in order.
- `FileStreamSlots`: `calls` are `send_file_stream` and `release_file_stream` under way; all
  reasons for a refusal that do not depend on the tables are one Boolean of the request.
- `WorkdirCleanup`: a cleanup round is one handler, so no hold changes while it runs, but TDLib
  and streams run on other schedulers: each visit and each deletion is a step. Names are
  abstracted to four sets of paths: cached media, control files (certificates of webhooks, logs),
  TDLib's databases, files outside. A candidate is whatever `is_tdlib_persistent_file` does not
  know by its suffix, so the first two are treated alike. Files come and go meanwhile
  (`FileComes`, `FileGoes`).
- `ServerShutdown`: `client[i]` are the members of the i-th `Client` created, `events[i]` the
  raw events and the hangup it has sent, in order. TDLib's authorization updates are handled in
  one step each. Of the queries that reach `send` only those that create a client matter here.
  A timer is off, due now or due later.
- `UpdateDelivery`: `tqueue`, `poll` and `hook` are the members of `TQueue`, `Client` and
  `WebhookActor`; `disk` and `unflushed` are the log. Every call that changes the queue appends
  the records that `TQueueBinlog` writes, in their order, and `Crash` keeps any prefix of what
  is not flushed. Times are ticks left until a moment, so no clock grows. `got` and `excused`
  record what became of the updates. A tick does not pass a long poll that is due.
- `WebhookControl`: a request is its number; `client.set` and `client.active` are the two places
  that hold one. `mail` are the actor's messages, `tasks` and `results` the work on the
  certificate scheduler, `file` and `db` what survives a restart. `url` stands for all settings
  of a webhook. `number` tells the `Client` of a bot from the one that follows it. A copy or
  a removal of `cert.pem` may fail, and a round of `WorkdirCleanupManager` may delete the file at
  any time (`Cleanup`). `client.lost` is history: it is set by the things the program does that may
  leave a saved webhook without its certificate, each where it happens (section 4), and nowhere by
  comparing the two. A write to `webhook_db_` is taken as durable at once; the code hands it to a
  `ConcurrentBinlog`, which flushes it later.

`FileStreamConnection` implements `StreamedResponse` (`ImplementsResponse`): the positions the
`Range` header selects are `want`, what is on the `wire` is `got`, and the connection's state is
`busy`, `idle` or `dropped`. `want` comes from the reference meaning of the header, not from the
cursor, so the refinement also checks the cursor and the parser. The body that a `HEAD` response
may get (section 4) is mapped to nothing.

Left out everywhere: text of responses and logs, statistics, exact times (a timer may fire at
any moment it is set, except in `UpdateDelivery`), flood control.

## 3. What the runs check

Two requests to stop, two downloads of a file, two or three streams: each bound is the
smallest at which the steps that can disturb each other all occur, and every action of the
modules fires in some run.

| run | result | what it shows |
|---|---|---|
| `stream` | passes | a response in every order of reports, flushes, failures, deletions and the timer: it implements `StreamedResponse` (one response, the selected bytes in order and once, the connection used again only after a whole one); what is committed has been received, one chunk is in flight (`Consistent`); a file that is kept is read only where it is written (`KeptFileBytes`); without faults every request is served (`Served`), with every fault but the timer the stream still ends (`EndsWithoutTimer`) |
| `listeners` | passes | two streams, one No-Cache, and a query: whoever waits has a download, the last one cancels it, ended streams are forgotten, the end of a client reaches every stream, queries are not failed by what streams do and are all answered (`GetFileAnswered`) |
| `slots` | passes | counters, limits and return of slots for three streams of two bots and one slot |
| `workdir_cleanup` | passes | holds are exact, rounds delete the oldest files and what they should, held files stay |
| `shutdown` | passes | clients are counted exactly, their hangup is last, databases outlive them, the server ends cleanly and without a deadline |
| `updates` | passes | no update is lost (`Accounted`), a restart finds the queue and its identifiers at every point of the log (`RestartExact`), the bookkeeping of `WebhookActor` is exact (`Scheduled`), chats stay in order (`InOrder`), garbage collection never sleeps over an update (`Consistent`), long polls end on time (`PollOnTime`), every lasting update arrives (`Delivered`) |
| `webhook_control` | passes | one consumer (`OneConsumer`), a webhook ends once (`Consistent`), the CHECKs of the code (`ChecksHold`), what is saved is what is used, with its certificate (`SavedExactly`, `SavedCertificate`), success means one's own webhook (`SuccessIsOwn`), every request is answered (`Answered`) |
| `stream_head` | violation | a `HEAD` response may get a body |
| `stream_redownload` | violation | after the file is downloaded again the stream reads past what is written |
| `listeners_early_end` | violation | a stream that ends before `on_file_ready` leaves its download running |
| `workdir_control` | violation | a cleanup round deletes a control file, such as the certificate of a webhook in use |
| `webhook_copy` | violation | a certificate is copied for a request that its client has already failed |

`Consistent` is, in each module, the type invariant with one or two facts about how its
variables belong together. Besides, every run of `MCFileStreamConnection` evaluates
`RangesExact`: each `Range` header over integers of absolute value at most `MaxInt64` and files of
at most 3 bytes selects exactly the bytes it names, or is refused.

Bounds and why they are enough:

- streams: 3 bytes in chunks of 2, so that a response has a full and a short chunk and a range
  can begin and end inside; `MaxInbox` 2 closures waiting (3 in the runs that look for a
  violation), so that the file may change between two handlers; two downloads;
- listeners: two streams give every order of joining and leaving, one query with `getFile`. With
  two queries `GetFileUnharmed` has an exception (`LateAnswer`, section 4) that this bound does not
  reach; the proof is for any number of streams and queries. `Scenarios` are the cases: two streams with a client that closes, two with errors of TDLib, one
  with all faults, since faults of two streams do not add an interaction;
- slots: three streams compete for one slot, so that one holds it, one is refused and one has
  already ended. As the limit of the server is 1, that of a bot never binds by itself: this is left
  to the proof (`LimitsAlwaysHold`), which is for all limits;
- cleanup: a media file and two larger control files (symmetric), a database and a file outside,
  with access times 0 to 2 and a lifetime of 2, so that files are fresh, old or expired and one
  deletion may or may not be enough; two streams (symmetric), which change their path when none of
  their calls is under way (`MaxCalls`) and may then end, so that each has up to three under way;
- shutdown: two clients among three tokens of one bot: two good ones share a counter and a
  malformed one never logs in; two requests to stop;
- updates: three updates, a queue of at most two, of which `getUpdates` reads one at a time (the
  webhook loads both), two connections, identifiers that end at 10
  and a queue that starts at 6, shortly before that, or anew, so that the queue is full, has a marker, uses up
  its identifiers while offsets of the old ones are held, and a chain has two updates; one change
  of mode, one crash, traffic of one chat that lasts or of two chats with one update that expires;
- webhooks: three requests, so that one is in use, one is held and one replaces it; two clients,
  so that messages and results of the first are still under way when the second begins; a cleanup
  round may come between any two steps.

Deadlock is checked in `workdir_cleanup`, which never stops. The other systems end (a response
is finished, a server has exited), so their runs allow it; that they end only as they should is
what `Served`, `EndsWithoutTimer`, `GetFileAnswered`, `SlotReturned`, `ShutdownCompletes`,
`Delivered` and `Answered` say.

Fairness. An actor with a message runs: the schedulers are threads that take the next message,
so each actor's handlers are weakly fair, those fed by two sources separately because one
mailbox keeps their order. TDLib is assumed to answer requests, to go on with a download that
has not failed, and to close when asked to; the connection is written as long as it lives. No
timer has fairness except one set to fire at once (`Client::close`), and no fault has any. No
stream or query is forced to start, and no client to leave. In `UpdateDelivery` the fairness is
stated of states: no message, due timer, held-back connection or unflushed record stays for ever
(`Scheduling`), ticks pass, and a bot does not for ever leave an update that is offered to it;
without the last, a webhook that always fails would refute `Delivered`. In `WebhookControl`
messages and tasks are handled, TDLib closes a client that is closing, and an actor verifies its
webhook or fails: its resolution of the address and its connections have timeouts of their own.

## 4. Where the code and its documentation disagree

The five runs that expect a violation, each with its line in `PROJECT.json`:

1. `README.md:439` says that `HEAD` gets headers only. `on_file_progress` calls `try_read`
   without the test that `on_file_ready` makes (`server/FileStream.cpp:140`).
2. `README.md:616` says that only the written prefix is read. After a new path is reported
   (`FileStream.cpp:119`), the prefix and the completion of the old file still apply.
3. `FileStream.cpp:392` says that an interrupted stream cancels the download. With `file_id` 0
   `remove_file_stream` returns first (`Client.cpp:8748`).
4. `WorkdirCleanupManager.cpp:52` says that the files it keeps are the live database and control
   files. It knows them by six suffixes (`WorkdirCleanupManager.cpp:56`); every other file of the
   working directory is deleted when it is old, after one day by default (`ClientParameters.h:139`),
   or when space is needed. That includes `dir_ + "cert.pem"` (`Client.cpp:17228`), the certificate
   of a saved webhook, which nothing writes again until the webhook is set anew.
5. `on_webhook_certificate_copied` says `CHECK(active_webhook_set_query_)` (`Client.cpp:17318`).
   `on_closed` fails that query while the copy runs, and a client that has logged out stays
   alive (`finish_closing`) when the copy comes back.

Further differences and limits met while modelling, without a run of their own:

- streams: one takes the late report of an older download's stop for its own; one that joins
  listeners whose download has failed, or whose file is being deleted, waits for its timer; a
  `getFile` query over the size limit cancels the download that streams share; reports of
  progress do not restart the first-byte timer; the size header of `README.md:273` is not used by
  `resolve_file_stream_size`; a second disk emergency during the shutdown exits at once;
  `README.md:503` promises 401 for a bot that cannot log in, but `start_file_stream` tests
  `was_authorized_` before `logging_out_` (`Client.cpp:8722`), so that the stream is kept until its
  first-byte timer (`EndReachesAll` speaks of clients that were authorized);
- `getFile`: `README.md:157` says that its behaviour is not changed. An answer to the `downloadFile`
  of a query that has been answered already marks the file in `download_started_file_ids_` for
  whoever waits by then (`Client.cpp:7566`). When a No-Cache stream has deleted the file in
  between and another stream has cancelled the download this started, the next query fails on
  the report of that stop. Two streams and two queries are needed; the case was met as a step of
  the proof of `GetFileUnharmed` that could not be proved, TLC then found the behaviour, and the
  property now excludes it by name (`LateAnswer`);
- update queue: `TQueue::clear` counts the marker of an event that is gone, so that a negative
  offset may keep one update less than asked for; when records were not flushed before the
  machine stopped, identifiers are given out again (`crashed = "torn"` is excluded from
  `Accounted`, `InOrder` and `Delivered`). The model lets `run_gc` collect all queues that are due;
  that it breaks off after 50 ms and goes on later is left out;
- webhooks: `deleteWebhook` as the first method after `close` is answered "Webhook is already
  deleted" while `webhook_db_` keeps it (`restored` in `SavedExactly`); `webhook_verified` after a
  logout saves the webhook again; `send_update` with a URL that is too long forgets its chain
  (`WebhookActor.cpp:568`), and a restored webhook whose TLS context cannot be created opens no
  connection (`WebhookActor.cpp:133`);
- certificates: `SavedCertificate` says that the file `cert.pem` is the certificate of the saved
  webhook unless one of these has happened (`lost`): a cleanup round has deleted the file; a Client
  has ended while a removal was queued or its result under way, or the process after a removal and
  before `on_webhook_closed` has erased the saved webhook; a Client has logged out, which removes
  its directory; the first method after `close` has set a certificate without the saved webhook
  having been restored. A removal or a copy that fails is not among them. The next copy by a
  Client that knows the saved webhook makes good for all of them.

## 5. What is proved

The proofs hold for every value of the constants under the ASSUMEs of the modules.

- `FileStreamSlotsProofs`: `TypeCorrect`, `CountsAreExact`, `LimitsAlwaysHold`, `NoSlotLeaks`.
  The properties are not inductive: that a release may lower a counter depends on which calls
  of the stream are still under way. The invariant is `TypeOK /\ CallShape /\ CountsExact /\
  LimitsHold`, where `CallShape` says which calls a stream in each phase can have under way and
  that it holds a slot only between the handling of its first and its last. Cardinalities use
  `FiniteSetTheorems`. Assumed: finitely many streams, at least one slot.
- `ServerShutdownProofs`: `HangupAlwaysLast`, `DatabasesAlwaysOutlive`, `ExitAlwaysClean`,
  `CountsAlwaysExact`. That
  databases are closed last follows from what `ClientManager` lists only if a client that runs
  is listed, and that is kept by `hangup_shared` only if a hangup is sent by no running client.
  The invariant adds both (`AliveListed`), that a client not yet created has sent nothing
  (`NothingBefore`), and that `close_db` has found the list empty (`DatabasesLast`). One lemma
  (`ClientActs`) covers all steps of a client. `ExitAlwaysClean` has its own invariant
  (`ExitKnown`). `CountsAlwaysExact` (`Consistent`): `active_client_count_` is changed by events
  that arrive long after the client's own state has changed, so `ActiveClientsExact` is not
  inductive. The invariant says what each client still has to tell, in which order (`ShapeOf`), so
  that whether a client is counted now is known from its events under way (`CountedOf`), and the
  count of a bot is the number of its clients for which this holds.
- `WorkdirCleanupProofs`: `HoldsAlwaysExact`, `DeletesOldestFirst`, `RoundsAlwaysExact`,
  `UsedFilesAlwaysKept`. `HoldsExact` compares a counter with two sets of calls under way and is
  not inductive. The invariant says instead that the calls of a stream alternate (`CallShape`), so
  that the manager counts a stream for at most one file (`CountedFor`), and that `active_files_`
  is the number of streams counted (`CountsKept`); `HoldsExact` follows by counting
  (`HoldsMatch`, `AsManyEnd`). For a round, `Scanning` and `Deleting` say that a candidate passed
  over was neither expired nor needed, that no later one can be, and that the bytes left to visit
  are at most the bytes that remain (as the cardinality of a set of pairs, so no sum is needed).
  Assumed: finitely many streams.
- `FileStreamConnectionProofs`: `StreamAlwaysConsistent`, `FileBytesAlwaysKept`,
  `StreamImplementsResponse`, for every file size up to the largest int64, every chunk size,
  range and request, any number of downloads and any length of the inbox. The invariant `IInv`
  lists the shapes the actor and the connection can be in together: `Waiting` before
  `on_file_ready`, `Streaming` with the headers and at most one chunk queued, flushed or
  committed, `Ended`. It is stated of values (`Good(s, c, h, f, w)`) rather than of the variables,
  because a handler calls others and the invariant is needed in the middle of it. `FileInv` adds
  that a report never promises bytes the file lacks (`OneDownload`). The refinement uses the
  same invariant: `SeenValues` says what the client sees in each shape, and `NextResponds` maps
  each step to a step of `StreamedResponse` or to a stutter. The range a request selects comes from
  `RangeForEverySize`, in the same module: for every width of the integers, every size and every
  header the parser agrees with the reference meaning.
- `FileStreamListenersProofs`: `MarkAlwaysExact`, `EndAlwaysReachesAll`, `ListenersAlwaysFed`,
  `GetFileNeverHarmed`, `DeadStreamsAlwaysForgotten`, `LastOneAlwaysCancels`, all the safety of the
  shared download, for any sets of streams and queries. The properties speak of states in
  which nothing is under way (`Quiet`), so none is inductive: the invariants say what the requests
  and results under way must look like for each. `TokenInv`: whoever asked for the file is in
  exactly one place (pending, asked, answered) and is answered once. `FedInv`: while somebody
  waits, the download runs and no request gives it up, or the last word to TDLib starts it
  (`StartsLast`), and the report of its end is still to come (`EndReported`). `CancelInv`: while
  nobody waits, the last word gives it up (`GivesLast`). `HarmInv`: no stop of an older download
  follows the answer that marks the file for a query. `DeletesKnown` and `StaysComplete` cover the
  deletion by No-Cache streams, `EndInv` the end of the client, `LifeInv` the messages and tables of
  one stream (introduced first, told of the file before it can leave, removed once). Each action
  is first reduced to what it does to the queues (`RequestCame`, `RequestGone`, `ResultCame`,
  `ResultGone`), so that the invariants are proved for these few moves and not for each handler.
- `UpdateQueueProofs`: what the operations of `TQueue` and the records of its log do, for queues
  and logs of any length; `ReplayIsExact` and `ReplayIsAccepted`. These are inductions over
  sequences. The induction theorems of the library take an operator and cannot be used, so
  induction is stated of a set (`Induction`, `SeqInduction`) and derived from the well-foundedness
  of `<`: a set of naturals has a least element. For this the folds of `UpdateQueue` (`Select`,
  `Written`, `Replay`) are recursive functions; lemmas show that the functions exist and what each
  does with one more element. `IsLog` (identifiers and updates increase, only the last event may
  be a marker) determines a sequence by its set of events (`LogUnique`), so that most reasoning is
  about sets. `Cut` says what pops leave of a queue, `Logged` that records turn one log into
  another and that there is a log after each of them (`PopWrites`, `ClearWrites`): this is what
  makes a crash between two records harmless.
- `UpdateDeliveryProofs`: `NothingIsLost`, `AlwaysInOrder`, `RestartAlwaysExact`,
  `ChainsAlwaysScheduled`, `AlwaysConsistent`, `PollAlwaysOnTime`, for any number of updates, chats
  and connections, any delays and any length of the queue.
  `Steady` holds through every restart, one that has lost records included: the queue is a queue,
  the records written since the last flush lead to it, and `HookOK` says of the sender that a loaded
  update is in its chain and in no other, that `queues_` is in the order of the wake-ups, and that a
  chain waits or is on one connection. `RestartExact`, `Scheduled` and `Consistent` follow.
  `Accounted` and `InOrder` need `Sound`, which holds until records are lost. An offset was given to
  the bot, is held by a long poll, or is `tqueue_offset_`; whatever is before it in the queue is
  forgotten or skipped, so it must be done with, or loaded. That is `Passed`, and it is inductive
  only because an offset from before the identifiers were used up is refused by `get`: the queue is
  then below the gap (`ClassOK`). `InStep` says that every queued update before the last one loaded
  is loaded too and under its identifier, and that chains hold their updates in the order of
  pushing. The invariant is `Inductive`: `Steady`, and `Sound` unless `crashed = "torn"`.
  Assumed (`GapAssumption`): the updates pushed to a queue that has started anew do not reach the
  identifiers it used before. `push` draws the first identifier below `MAX_ID / 2`, so the code has
  10^9 of them. `PollAlwaysOnTime` has an invariant of its own, `OnTime`: the slot is
  not later than the hard limit, the time waited plus what is left of the hard limit is at
  most the timeout, and since the first wake-up it is at most `LONG_POLL_MAX_DELAY`.
- `WebhookControlProofs`: `ConsistentCorrect`, `OneConsumerCorrect`, `ChecksHoldCorrect`,
  `SavedExactlyCorrect`, `SavedCertificateCorrect`, `SuccessIsOwnCorrect`, for any set of requests,
  any number of them and of Clients, and every combination of crashes, log-outs and closings. None
  of the properties is inductive: `webhook_closed` and `on_webhook_closed` do not look at the
  generation, so they are right only if nothing else is under way. The invariant says so: at most
  one thing is still to come for the Client, the end of the actor, its message, the removal or the
  copy of a certificate (`ToCome`); each Client has at most one piece of work on the certificate
  scheduler, and that of an earlier Client comes first (`WorkOrder`), so that a result that reaches
  a Client is the last piece of work of all. `Held` and `Generation` tie the requests held to the
  webhook in use and to what was asked, `SavedInv` and `CertificateInv` the saved webhook and
  `cert.pem`. `LostInv` carries the certificate from one Client to the next: between two Clients,
  unless `lost`, the file is the certificate of the saved webhook and no work on it is queued, and
  a Client that was not given the saved webhook has had no certificate. It needs `IInv` and is
  proved together with it. One lemma (`DoSetKeeps`) covers `do_set_webhook` from each of its three callers; that
  it is called when nothing is to come is `Prepared`. That the work under way is at most one piece
  for each Client is an injection (`FewTasks`). Assumed: a request with a certificate has a url
  (`get_webhook_certificate` is not called without one).

Every invariant and every action property of the passing runs is stated by a theorem, and so is
the refinement of `StreamedResponse`. Only model-checked: liveness (`Served`, `EndsWithoutTimer`,
`GetFileAnswered`, `SlotReturned`, `ShutdownCompletes`, `Delivered`, `Answered`), which is out of
the prover's reach because it rests on fairness.

## 6. What is not modelled

TDLib itself (vendored): its answers are the actions marked external. The methods of the Bot
API in `Client.cpp` other than `getFile`, `getUpdates`, `setWebhook` and `deleteWebhook`, which
translate one JSON request each and are nearly all of that file; tracking of messages being sent
(see the plan); flood control and the HTTP request side. Of `WebhookActor`: the resolution of
addresses and TLS, reduced to when a connection may be opened. Of `TQueue`: lengths in bytes.
URL decoding, header names, the IP allowlist, statistics, command line and watchdog: text and
I/O without state that a property could be about.

## 7. Plan

In order of importance; all but the last two steps are done.

1. one response: cursor, range, `FileStreamConnection`;
2. the shared download: `FileStreamListeners`;
3. slots, with their proofs;
4. the files on disk and the end of the server: `WorkdirCleanup`, `ServerShutdown`;
5. `TQueue`, long polling and `WebhookActor`: `UpdateQueue`, `UpdateDelivery`;
6. setting and deleting a webhook: `WebhookControl`;
7. the abstract specification of a response and its refinement: `StreamedResponse`;
8. proofs of every safety property of the runs;
9. messages being sent (`yet_unsent_messages_`, `pending_send_message_queries_`): every query is
   answered once, also when the client closes;
10. a module that composes one stream, `FileStreamListeners` and `FileStreamSlots`.
