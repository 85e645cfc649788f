---------------------------- MODULE UpdateDelivery ----------------------------
(***************************************************************************)
(* How the updates of one bot leave its queue: by getUpdates, with long    *)
(* polling (server/Client.cpp), or through the webhook                     *)
(* (server/WebhookActor.cpp), with a change from one to the other, the     *)
(* expiration of updates, and a restart of the process in between.         *)
(*                                                                         *)
(* Updates are numbered in the order they are pushed.  Time is relative:   *)
(* what the code stores as a moment is the number of ticks left until it,  *)
(* so time itself needs no bound.  Setting and deleting the webhook is one *)
(* step here; WebhookControl models how Client gets there.                 *)
(***************************************************************************)
EXTENDS UpdateQueue, FiniteSets, Functions

CONSTANTS
  MaxUpdates,      \* bound on the updates pushed
  Traffic,         \* which updates come: their webhook_queue_id (0: a queue of its
                   \* own) and timeout, in ticks, in the order they are pushed
  MaxChat,         \* the largest webhook_queue_id; unique_queue_id_ is above it
  Forever,         \* a lifetime longer than anything that happens here
  Limits,          \* the values of the parameter limit of getUpdates
  PollTimeout,     \* its parameter timeout, when it is not 0
  WaitAfter,       \* LONG_POLL_WAIT_AFTER
  MaxDelay,        \* LONG_POLL_MAX_DELAY
  MaxConnections,  \* max_connections_ of the webhook
  RetryAfter,      \* the retry_after values of a failed request to the webhook
  MaxResend,       \* WEBHOOK_MAX_RESEND_TIMEOUT
  MaxUnflushed,    \* bound on the records of the log not yet on the disk
  MaxSwitches,     \* bound on the changes between getUpdates and the webhook
  Faults           \* what may go wrong

ASSUME DeliveryAssumption ==
  /\ MaxUpdates \in Nat \ {0} /\ MaxConnections \in Nat \ {0}
  /\ Forever \in Nat /\ MaxChat \in Nat
  /\ \A t \in Traffic : t \in [1..MaxUpdates -> [chat : 0..MaxChat, life : 0..Forever]]
  /\ Limits \subseteq Nat \ {0} /\ PollTimeout \in Nat \ {0}
  /\ WaitAfter \in 1..MaxDelay /\ MaxDelay \in Nat
  /\ RetryAfter \subseteq Nat /\ MaxResend \in Nat
  /\ MaxUnflushed \in Nat /\ MaxSwitches \in Nat
  /\ Faults \subseteq {"crash", "torn", "loss", "error", "hangup"}

(* The updates pushed in one run never come back to an identifier that was *)
(* given out before the identifiers were used up, from MaxId - 4 on: the   *)
(* gap stands for the 10^9 identifiers between MAX_ID / 2 and MAX_ID.      *)
ASSUME GapAssumption ==
  \A id \in FreshIds : id + MaxUpdates + FutureIds < MaxId - 4

Updates == 1..MaxUpdates

VARIABLES
  tqueue,     \* the queue
  disk,       \* the records of its log that are on the disk
  unflushed,  \* the records written since
  pushed,     \* how many updates have been pushed
  chat,       \* per update: extra of its event
  life,       \* per update: the ticks until it expires, -1 when it has
  poll,       \* long_poll_query_ and the members around it
  bot,        \* the offset the bot asks for: one more than the last identifier received
  hook,       \* the members of WebhookActor
  mode,       \* "poll", or "webhook" while webhook_url_ is set
  switches,   \* how many times mode has changed
  crashed,    \* "no", "clean", or "torn" when records were lost
  got,        \* the updates the bot has received
  excused     \* those that expired, or that it was decided to drop

queueVars == <<tqueue, disk, unflushed, excused>>
vars == <<queueVars, pushed, chat, life, poll, bot, hook, mode, switches, crashed, got>>

Expired == {u \in Updates : life[u] < 0}
Queued(q) == Data(q.events)

(* Every call that changes the queue writes to the log.  dropped are the   *)
(* updates it was asked to drop.                                           *)
SetQueue(q, records, dropped) ==
  /\ Len(unflushed) <= MaxUnflushed
  /\ tqueue' = q
  /\ unflushed' = unflushed \o records
  /\ excused' = excused \cup dropped \cup ((Queued(tqueue) \ Queued(q)) \cap Expired)
  /\ UNCHANGED disk

Popped(q) == PopRecords(tqueue.events, q.events)

-------------------------------------------------------------------------------
(* WebhookActor.  An update that is loaded belongs to the chain of its     *)
(* chat (queue_updates_); a chain that is not being sent waits in due      *)
(* (queues_), ordered by the wake-up of its first update.                  *)

MaxLoaded == 2 * MaxConnections

NewHook == [offset |-> 0, empty |-> FALSE, told |-> FALSE, active |-> FALSE,
            loaded |-> <<>>, chains |-> <<>>, due |-> <<>>, conns |-> <<>>]

(* Extends f to x, or leaves out x. *)
With(f, x, v) == [y \in DOMAIN f \cup {x} |-> IF y = x THEN v ELSE f[y]]
Without(f, x) == Restrict(f, DOMAIN f \ {x})

OwnChain(e) == MaxChat + e.id
ChainOf(e) == IF chat[e.data] # 0 THEN chat[e.data] ELSE MaxChat + e.id
Wake(h, c) == h.loaded[Head(h.chains[c])].wake

(* queues_.emplace. *)
Schedule(h, c) ==
  [h EXCEPT !.due = Select(h.due, {d \in Range(h.due) : Wake(h, d) <= Wake(h, c)}) \o <<c>>
                    \o Select(h.due, {d \in Range(h.due) : Wake(h, d) > Wake(h, c)})]

(* What load_updates does with the events it has got: one that is loaded   *)
(* already is skipped, and only a chain that was not there is scheduled.   *)
Appended(chains, events) ==
  LET Of(c) == Select(events, {e \in Range(events) : ChainOf(e) = c})
      IdsOf(c) == [k \in 1..Len(Of(c)) |-> Of(c)[k].id]
  IN  [c \in DOMAIN chains \cup {ChainOf(events[k]) : k \in 1..Len(events)} |->
         (IF c \in DOMAIN chains THEN chains[c] ELSE <<>>) \o IdsOf(c)]

FirstOfChain(events) ==
  Select(events, {e \in Range(events) :
                    \A d \in Range(events) : ChainOf(d) = ChainOf(e) => d.id >= e.id})

NewlyLoaded(e) == [data |-> e.data, chain |-> ChainOf(e), delay |-> 1, failed |-> FALSE, wake |-> 0]
Unloaded(h, events) == Select(events, {e \in Range(events) : e.id \notin DOMAIN h.loaded})

ScheduleAgain(h, events) == FirstOfChain(events)
Unscheduled(h, events) ==
  Select(FirstOfChain(events), {e \in Range(events) : ChainOf(e) \notin DOMAIN h.chains})

Load(h, events) ==
  LET new   == Unloaded(h, events)
      first == Unscheduled(h, new)
  IN  [h EXCEPT
         !.loaded = [id \in DOMAIN @ \cup Ids(new) |->
                       IF id \in DOMAIN @ THEN @[id]
                       ELSE NewlyLoaded(CHOOSE e \in Range(new) : e.id = id)],
         !.offset = IF new = <<>> THEN @ ELSE Last(new).id + 1,
         !.chains = Appended(@, new),
         !.due    = Select(h.due, {d \in Range(h.due) : Wake(h, d) = 0})
                    \o [k \in 1..Len(first) |-> ChainOf(first[k])]
                    \o Select(h.due, {d \in Range(h.due) : Wake(h, d) > 0})]

load_updates(h, q) ==
  LET first == IF h.offset = 0 THEN get_queue_head(q) ELSE h.offset
      from  == IF GetOK(q, first) THEN first ELSE get_queue_head(q)
      r     == do_get(q, from, FALSE, Expired, MaxLoaded - Cardinality(DOMAIN h.chains))
      l     == [h EXCEPT !.offset = from]
  IN  IF h.empty \/ Cardinality(DOMAIN h.chains) >= MaxLoaded THEN [hook |-> h, queue |-> q]
      ELSE IF first = 0 THEN [hook |-> [h EXCEPT !.empty = TRUE], queue |-> q]
      ELSE [hook  |-> IF r.events = <<>> THEN [l EXCEPT !.empty = TRUE]
                      ELSE Load(l, r.events),
            queue |-> r.queue]

(* create_new_connections: as many as there are chains, one at most unless *)
(* an update was delivered lately.  The flood control or an error may stop *)
(* it: n of the missing ones are opened.                                   *)
Need(h) ==
  LET all == IF Cardinality(DOMAIN h.chains) > MaxConnections THEN MaxConnections
             ELSE Cardinality(DOMAIN h.chains)
  IN  IF h.active THEN (IF all = 0 THEN 1 ELSE all)
      ELSE IF all > 1 THEN 1 ELSE all
Missing(h) == IF Need(h) > Cardinality(DOMAIN h.conns)
              THEN Need(h) - Cardinality(DOMAIN h.conns) ELSE 0

create_new_connections(h, n) ==
  LET free == SetToSeq((1..MaxConnections) \ DOMAIN h.conns)
      new  == {free[k] : k \in 1..n}
  IN  [h EXCEPT !.conns = [c \in DOMAIN @ \cup new |-> IF c \in new THEN 0 ELSE @[c]]]

(* send_updates: the first chains that are due get the idle connections.   *)
send_updates(h) ==
  LET idle == SetToSeq({c \in DOMAIN h.conns : h.conns[c] = 0})
      now  == Select(h.due, {c \in Range(h.due) : Wake(h, c) = 0})
      n    == IF Len(idle) < Len(now) THEN Len(idle) ELSE Len(now)
  IN  [h EXCEPT !.due = SubSeq(@, n + 1, Len(@)),
                !.conns = [c \in DOMAIN @ |->
                             IF \E k \in 1..n : idle[k] = c
                             THEN Head(h.chains[now[CHOOSE k \in 1..n : idle[k] = c]])
                             ELSE @[c]]]

(* loop, which ends every handler. *)
Loop(h, q, dropped) ==
  \E l \in {load_updates(h, q)} :
    \E n \in 0..Missing(l.hook) :
      /\ hook' \in {send_updates(g) : g \in {create_new_connections(l.hook, n)}}
      /\ SetQueue(l.queue, Popped(l.queue), dropped)

(* drop_event, without the call of forget. *)
drop_event(h, id) ==
  LET c    == h.loaded[id].chain
      rest == Tail(h.chains[c])
      l    == [h EXCEPT !.loaded = Without(@, id)]
  IN  IF rest = <<>> THEN [l EXCEPT !.chains = Without(@, c)]
      ELSE Schedule([l EXCEPT !.chains = With(@, c, rest)], c)

(* on_update_error: a delay that grows with the failures of the update, or *)
(* the one the webhook asks for; an update that would expire is dropped.   *)
NextDelay(u, retry_after) ==
  IF retry_after = 0 /\ u.failed
  THEN (IF 2 * u.delay > MaxResend THEN MaxResend ELSE 2 * u.delay) ELSE u.delay
EffectiveDelay(u, retry_after) ==
  IF retry_after = 0 /\ u.failed THEN NextDelay(u, retry_after) ELSE retry_after
GivesUp(u, retry_after) == EffectiveDelay(u, retry_after) > life[u.data]

Retried(h, id, retry_after) ==
  LET u == h.loaded[id]
  IN  Schedule([h EXCEPT !.loaded[id] = [u EXCEPT !.delay  = NextDelay(u, retry_after),
                                                  !.failed = TRUE,
                                                  !.wake   = EffectiveDelay(u, retry_after)]],
               u.chain)

-------------------------------------------------------------------------------
HookStep == mode = "webhook" /\ UNCHANGED <<pushed, chat, life, poll, bot, mode, switches, crashed>>

(* update(), sent by add_update_impl. *)
HookUpdate ==
  /\ HookStep /\ hook.told
  /\ Loop([hook EXCEPT !.told = FALSE, !.empty = FALSE], tqueue, {})
  /\ UNCHANGED got

(* The wake-up of the actor: it has just started, the flood control or an  *)
(* error kept it from opening a connection, or an update has become due.   *)
NoResend(h) == (h.offset = 0 /\ ~h.empty) \/ Missing(h) > 0
WakeUp(h) ==
  \/ h.offset = 0 /\ ~h.empty
  \/ Missing(h) > 0
  \/ /\ h.due # <<>> /\ Wake(h, h.due[1]) = 0
     /\ \E c \in DOMAIN h.conns : h.conns[c] = 0

HookTimer ==
  /\ HookStep /\ WakeUp(hook)
  /\ Loop(hook, tqueue, {})
  /\ UNCHANGED got

(* handle: the answer of the webhook to the update that connection c       *)
(* carries, on a connection that stays open or not.                        *)
After(h, c, keep) == [h EXCEPT !.conns = IF keep THEN With(@, c, 0) ELSE Without(@, c)]

HandleOk(c) ==
  /\ HookStep /\ c \in DOMAIN hook.conns /\ hook.conns[c] # 0
  /\ LET id == hook.conns[c]
     IN  \E keep \in BOOLEAN :
           /\ Loop(After([drop_event(hook, id) EXCEPT !.active = TRUE], c, keep),
                   forget(tqueue, id), {})
           /\ got' = got \cup {hook.loaded[id].data}

HandleError(c) ==
  /\ HookStep /\ c \in DOMAIN hook.conns /\ hook.conns[c] # 0
  /\ \E keep \in BOOLEAN, retry_after \in RetryAfter :
       /\ "error" \in Faults \/ ("hangup" \in Faults /\ ~keep /\ retry_after = 0)
       /\ LET id == hook.conns[c]
              u  == hook.loaded[id]
          IN  \/ /\ GivesUp(u, retry_after)
                 /\ Loop(After(drop_event(hook, id), c, keep), forget(tqueue, id), {u.data})
              \/ /\ ~GivesUp(u, retry_after)
                 /\ Loop(After(Retried(hook, id, retry_after), c, keep), tqueue, {})
  /\ UNCHANGED got

(* The end of an idle connection. *)
HandleHangup(c) ==
  /\ HookStep /\ "hangup" \in Faults /\ c \in DOMAIN hook.conns /\ hook.conns[c] = 0
  /\ Loop(After(hook, c, FALSE), tqueue, {})
  /\ UNCHANGED got

-------------------------------------------------------------------------------
(* Client: getUpdates. *)

NoPoll == [on |-> FALSE, offset |-> 0, limit |-> 0, woken |-> FALSE, hard |-> 0, slot |-> 0,
           waited |-> 0, kept |-> 0]

(* do_get_updates: what is read, and the offset kept for later. *)
Cleared(offset) == IF offset < 0 THEN clear(tqueue, -offset) ELSE tqueue
OffsetAsGiven(offset) == offset
StoredOffset(offset) == IF offset <= 0 THEN get_queue_head(Cleared(offset)) ELSE offset

Read(offset, limit) ==
  LET q == Cleared(offset)
      from == StoredOffset(offset)
  IN  IF from <= 0 THEN [queue |-> q, events |-> <<>>]
      ELSE do_get(q, IF from < MaxId /\ GetOK(q, from) THEN from ELSE get_queue_head(q),
                  TRUE, Expired, limit)

(* The answer: JsonUpdates stops at 4 MB, and the answer may be lost.      *)
Answer(events) ==
  \/ /\ events = <<>> \/ "loss" \in Faults
     /\ UNCHANGED <<bot, got>>
  \/ \E n \in 1..Len(events) :
       /\ bot' = events[n].id + 1
       /\ got' = got \cup Data(SubSeq(events, 1, n))

ReadRecords(offset, q) ==
  LET c == Cleared(offset)
  IN  ClearRecords(tqueue.events, c.events) \o PopRecords(c.events, q.events)
DroppedBy(offset) == Queued(tqueue) \ Queued(Cleared(offset))

do_get_updates(offset, limit, timeout) ==
  LET r == Read(offset, limit)
  IN  /\ SetQueue(r.queue, ReadRecords(offset, r.queue), DroppedBy(offset))
      /\ \/ /\ timeout # 0 /\ r.events = <<>>
            /\ poll' = [on |-> TRUE, offset |-> StoredOffset(offset), limit |-> limit,
                        woken |-> FALSE, hard |-> timeout, slot |-> timeout,
                        waited |-> 0, kept |-> 0]
            /\ UNCHANGED <<bot, got>>
         \/ /\ timeout = 0 \/ r.events # <<>>
            /\ Answer(r.events)
            /\ UNCHANGED poll

PollStep == mode = "poll" /\ UNCHANGED <<pushed, chat, life, hook, mode, switches, crashed>>

(* getUpdates of a bot that asks for what follows the last update received, *)
(* for everything (0), or for the last update only (-1).                    *)
GetUpdates(offset, limit, timeout) ==
  /\ PollStep
  /\ do_get_updates(offset, limit, timeout)

(* raw_event: the slot of the long poll has run out. *)
LongPollTimeout ==
  /\ PollStep
  /\ poll.on /\ poll.slot = 0
  /\ LET r == Read(poll.offset, poll.limit)
     IN  /\ SetQueue(r.queue, ReadRecords(poll.offset, r.queue), {})
         /\ Answer(r.events)
  /\ poll' = NoPoll

(* long_poll_wakeup(false): an update has come; wait a little for more.    *)
Sooner(a, b) == IF a < b THEN a ELSE b
WaitAgain(p) ==
  LET hard == IF p.woken THEN p.hard ELSE Sooner(MaxDelay, p.hard)
  IN  IF ~p.on THEN p
      ELSE [p EXCEPT !.woken = TRUE, !.hard = hard, !.slot = WaitAfter]
long_poll_wakeup(p) ==
  LET hard == IF p.woken THEN p.hard ELSE Sooner(MaxDelay, p.hard)
  IN  IF ~p.on THEN p
      ELSE [p EXCEPT !.woken = TRUE, !.hard = hard, !.slot = Sooner(WaitAfter, hard)]

-------------------------------------------------------------------------------
(* add_update_impl: the update is pushed, unless the queue is full, and    *)
(* whoever delivers it is told.                                            *)
AddUpdate ==
  /\ pushed < MaxUpdates
  /\ pushed' = pushed + 1
  /\ \/ /\ Len(tqueue.events) >= MaxQueueEvents
        /\ excused' = excused \cup {pushed + 1}
        /\ UNCHANGED <<tqueue, disk, unflushed, poll, hook>>
     \/ /\ Len(tqueue.events) < MaxQueueEvents
        /\ \E fresh \in FreshIds :
             LET q == push(tqueue, pushed + 1, fresh)
             IN  SetQueue(q, Popped(q), Queued(tqueue) \ Queued(q))
        /\ \/ /\ mode = "poll"
              /\ poll' = long_poll_wakeup(poll)
              /\ UNCHANGED hook
           \/ /\ mode = "webhook"
              /\ hook' = [hook EXCEPT !.told = TRUE]
              /\ UNCHANGED poll
  /\ UNCHANGED <<chat, life, bot, mode, switches, crashed, got>>

(* run_gc, by the timer of ClientManager. *)
CollectGarbage ==
  /\ tqueue.gc \in Expired
  /\ LET q == run_gc(tqueue, Expired) IN SetQueue(q, Popped(q), {})
  /\ UNCHANGED <<pushed, chat, life, poll, bot, hook, mode, switches, crashed, got>>

(* The log reaches the disk. *)
Flush ==
  /\ unflushed # <<>>
  /\ disk' = Written(disk, unflushed)
  /\ unflushed' = <<>>
  /\ UNCHANGED <<tqueue, excused, pushed, chat, life, poll, bot, hook, mode, switches, crashed, got>>

(* setWebhook and deleteWebhook, with drop_pending_updates or without.     *)
Switch ==
  /\ switches < MaxSwitches
  /\ switches' = switches + 1
  /\ mode' = IF mode = "poll" THEN "webhook" ELSE "poll"
  /\ poll' = NoPoll
  /\ hook' = NewHook
  /\ \E drop \in BOOLEAN :
       LET q == IF drop THEN clear(tqueue, 0) ELSE tqueue
       IN  SetQueue(q, ClearRecords(tqueue.events, q.events), Queued(tqueue) \ Queued(q))
  /\ UNCHANGED <<pushed, chat, life, bot, crashed, got>>

(* The process ends at any moment and starts again: the records written    *)
(* last may be missing from the log.  The webhook is restored.             *)
Crash ==
  /\ crashed = "no" /\ "crash" \in Faults
  /\ \E n \in 0..Len(unflushed) :
       /\ n = Len(unflushed) \/ "torn" \in Faults
       /\ disk' = Written(disk, SubSeq(unflushed, 1, n))
       /\ crashed' = IF n = Len(unflushed) THEN "clean" ELSE "torn"
  /\ unflushed' = <<>>
  /\ tqueue' = Replay(disk')
  /\ poll' = NoPoll
  /\ hook' = NewHook
  /\ UNCHANGED <<excused, pushed, chat, life, bot, mode, switches, got>>

(* A tick: not before a timer that is due has been handled. *)
Less(t) == IF t = Forever \/ t < 0 THEN t ELSE t - 1
Elapsed(t) == IF t > 0 THEN t - 1 ELSE 0

Tick ==
  /\ ~(poll.on /\ poll.slot = 0)
  /\ life' = [u \in Updates |-> IF u <= pushed THEN Less(life[u]) ELSE life[u]]
  /\ poll' = IF ~poll.on THEN poll
             ELSE [poll EXCEPT !.hard = Elapsed(@), !.slot = Elapsed(@), !.waited = @ + 1,
                               !.kept = IF poll.woken THEN @ + 1 ELSE 0]
  /\ hook' = [hook EXCEPT !.active = FALSE,
                          !.loaded = [id \in DOMAIN @ |->
                                        [@[id] EXCEPT !.wake = Elapsed(hook.loaded[id].wake)]]]
  /\ life' # life \/ poll' # poll \/ hook' # hook
  /\ UNCHANGED <<queueVars, pushed, chat, bot, mode, switches, crashed, got>>

-------------------------------------------------------------------------------
(* A new queue, or one whose last update was delivered before the start.   *)
Init ==
  /\ disk \in {<<>>, <<Event(MaxId - 4, NoData)>>}
  /\ tqueue = Replay(disk)
  /\ unflushed = <<>>
  /\ pushed = 0
  /\ \E t \in Traffic : /\ chat = [u \in Updates |-> t[u].chat]
                         /\ life = [u \in Updates |-> t[u].life]
  /\ poll = NoPoll
  /\ bot = 0
  /\ hook = NewHook
  /\ mode \in {"poll", "webhook"}
  /\ switches = 0
  /\ crashed = "no"
  /\ got = {}
  /\ excused = {}

Poll == \/ \E offset \in {bot, 0, -1}, limit \in Limits, timeout \in {0, PollTimeout} :
             GetUpdates(offset, limit, timeout)
        \/ LongPollTimeout
Hook == \/ HookUpdate \/ HookTimer
        \/ \E c \in 1..MaxConnections : HandleOk(c) \/ HandleError(c) \/ HandleHangup(c)

Next == AddUpdate \/ CollectGarbage \/ Flush \/ Switch \/ Crash \/ Tick \/ Poll \/ Hook

Spec == Init /\ [][Next]_vars

(* Fairness.  A message, a timer that is due, a connection that the flood  *)
(* control holds back and a record not yet on the disk do not stay for     *)
(* ever, and time passes.  The bot does not leave an update for ever that  *)
(* is offered to it again and again, by the webhook or in the answer to    *)
(* what it would ask for next: it is offered for the last time.            *)
Offered(u) ==
  \/ mode = "poll" /\ u \in Data(Read(bot, MaxQueueEvents).events)
  \/ \E c \in DOMAIN hook.conns : hook.conns[c] # 0 /\ hook.loaded[hook.conns[c]].data = u

Scheduling ==
  /\ []<>~hook.told
  /\ []<>~WakeUp(hook)
  /\ []<>~(poll.on /\ poll.slot = 0)
  /\ []<>(unflushed = <<>>)
  /\ WF_vars(Tick)

FairSpec ==
  /\ Spec
  /\ Scheduling
  /\ \A u \in Updates : <>[]~Offered(u)

-------------------------------------------------------------------------------
(* The variables have their types; an identifier in the queue is below     *)
(* tail_id.                                                                *)
TypeOK ==
  /\ tqueue.tail \in 0..(MaxId - 1) /\ tqueue.gc \in 0..MaxUpdates
  /\ \A k \in 1..Len(tqueue.events) :
       tqueue.events[k].id \in 1..(tqueue.tail - 1) /\ tqueue.events[k].data \in 0..MaxUpdates
  /\ pushed \in 0..MaxUpdates /\ bot \in 0..MaxId
  /\ mode \in {"poll", "webhook"} /\ crashed \in {"no", "clean", "torn"}
  /\ got \subseteq 1..pushed /\ excused \subseteq 1..pushed
  /\ DOMAIN hook.conns \subseteq 1..MaxConnections

(* No update is lost.  Whatever was pushed is in the queue until the bot   *)
(* has received it, it has expired, or it was decided to drop it (a full   *)
(* queue, a negative offset, drop_pending_updates, used-up identifiers):   *)
(* through partial and lost answers, retries of the webhook, changes       *)
(* between getUpdates and the webhook, and a restart from the whole log.   *)
Accounted ==
  crashed # "torn" => 1..pushed \subseteq Queued(tqueue) \cup got \cup excused

(* A restart loses nothing that was written: the queue replayed from the   *)
(* log has the events of the queue and its tail_id, so that no identifier  *)
(* is given out twice, although the events themselves are gone by then.    *)
ReplayExact ==
  LET q == Replay(Written(disk, unflushed))
  IN  q.tail = tqueue.tail /\ q.events = tqueue.events

(* Wherever the log breaks off, start_up adds every event in it: replay    *)
(* never returns "Failed to add event".                                    *)
ReplayAccepts ==
  \A n \in 0..Len(unflushed) :
    LET log == Written(disk, SubSeq(unflushed, 1, n))
    IN  \A k \in 1..Len(log) : PushOK(Replay(SubSeq(log, 1, k - 1)), log[k].id)

(* A restart is exact and never refused, wherever it happens. *)
RestartExact == ReplayExact /\ ReplayAccepts

(* The CHECKs of drop_event, on_update_ok, on_update_error and send_update *)
(* hold: a chain either waits in queues_, once, or its first update is on  *)
(* exactly one connection; never both and never neither.                   *)
Sent(c) == {k \in DOMAIN hook.conns : hook.conns[k] = Head(hook.chains[c])}
Scheduled ==
  /\ \A c \in DOMAIN hook.chains :
       /\ hook.chains[c] # <<>> /\ Range(hook.chains[c]) \subseteq DOMAIN hook.loaded
       /\ Cardinality(Sent(c)) + Cardinality({k \in 1..Len(hook.due) : hook.due[k] = c}) = 1
  /\ \A k \in DOMAIN hook.conns :
       hook.conns[k] # 0 => \E c \in DOMAIN hook.chains : k \in Sent(c)

(* Updates of one chat reach the bot in the order they were pushed, with   *)
(* several connections, retries and a restart of the sender.               *)
InOrder ==
  crashed # "torn" =>
    \A v \in got : \A u \in 1..(v - 1) :
      chat[u] = chat[v] /\ chat[u] # 0 => u \in got \cup excused

(* The garbage collection waits for something as long as the queue holds   *)
(* an update, so that expired updates do not fill it.                      *)
GcScheduled == Queued(tqueue) # {} => tqueue.gc # NoData

(* The queue is well formed and its garbage collection is on. *)
Consistent == TypeOK /\ GcScheduled

(* A long poll ends when its timeout is over, and within                   *)
(* LONG_POLL_MAX_DELAY of the first update, however many more arrive.      *)
PollOnTime == poll.waited <= PollTimeout /\ poll.kept <= MaxDelay

(* An update that does not expire reaches the bot in the end: no wake-up   *)
(* of the webhook is missed, and no chain is left behind.                  *)
Delivered ==
  \A u \in Updates :
    (pushed >= u /\ life[u] = Forever) ~> (u \in got \cup excused \/ crashed = "torn")
===============================================================================
