----------------------------- MODULE UpdateQueue -----------------------------
(***************************************************************************)
(* The queue of updates of one bot: TQueue of td/db/TQueue.cpp, and the    *)
(* log it is replayed from after a restart (TQueueBinlog).                 *)
(*                                                                         *)
(* A queue is a record: tail_id (0 when there is no queue yet), the events *)
(* in the order of their identifiers, and the update whose expiration the  *)
(* garbage collection waits for (gc_at).  An event is its identifier and   *)
(* the update it carries; the last event is kept with empty data when it   *)
(* is popped, for its record in the log is all that remembers tail_id.     *)
(* Every event has a record in the log, so log_event_id is left out: the   *)
(* records are the events, in the order they were added.                   *)
(***************************************************************************)
EXTENDS Integers, Sequences, SequencesExt

CONSTANTS
  MaxId,            \* EventId::MAX_ID
  FreshIds,         \* the first identifiers that push may draw for a new queue
  MaxQueueEvents,   \* MAX_QUEUE_EVENTS
  FutureIds         \* how far beyond tail_id get accepts from_id (10)

ASSUME IdAssumption == /\ MaxId \in Nat /\ FutureIds \in Nat /\ MaxQueueEvents \in Nat \ {0}
                       /\ FreshIds # {} /\ FreshIds \subseteq 1..(MaxId - 2)

NoData == 0
Event(id, data) == [id |-> id, data |-> data]
IsMarker(e) == e.data = NoData

NoQueue == [tail |-> 0, events |-> <<>>, gc |-> NoData]

(* SelectSeq, with a set in the place of the test. *)
Select(s, A) ==
  LET f[n \in 0..Len(s)] ==
        IF n = 0 THEN <<>> ELSE IF s[n] \in A THEN Append(f[n - 1], s[n]) ELSE f[n - 1]
  IN  f[Len(s)]

Ids(events)  == {events[k].id : k \in 1..Len(events)}
Data(events) == {events[k].data : k \in 1..Len(events)} \ {NoData}

get_queue_head(q) == IF q.events = <<>> THEN q.tail ELSE q.events[1].id

get_size(q) ==
  IF q.events = <<>> THEN 0
  ELSE Len(q.events) - (IF IsMarker(Last(q.events)) THEN 1 ELSE 0)

-------------------------------------------------------------------------------
(* pop of every event of ids: the one just below tail stays as a marker.   *)

RemoveAll(events, ids, tail) == Select(events, {e \in Range(events) : e.id \notin ids})
KeepMarker(events, ids, tail) ==
  LET kept == Select(events, {e \in Range(events) : e.id \notin ids \/ e.id + 1 = tail})
  IN  [k \in 1..Len(kept) |->
         IF kept[k].id \in ids THEN Event(kept[k].id, NoData) ELSE kept[k]]

pop(q, ids) == [q EXCEPT !.events = KeepMarker(q.events, ids, q.tail)]

(* forget: an event that is no longer there is nothing to forget. *)
forget(q, id) == pop(q, {id})

(* do_push: the marker gives way to the event after it. *)
PushOK(q, id) == Len(q.events) < MaxQueueEvents /\ id >= q.tail

ScheduleOnce(q, e) ==
  LET kept == IF q.events # <<>> /\ IsMarker(Last(q.events)) THEN Front(q.events) ELSE q.events
  IN  IF ~PushOK(q, e.id) THEN q
      ELSE [tail   |-> e.id + 1,
            events |-> Append(kept, e),
            gc     |-> IF q.events = <<>> /\ ~IsMarker(e) THEN e.data ELSE q.gc]
do_push(q, e) ==
  LET kept == IF q.events # <<>> /\ IsMarker(Last(q.events)) THEN Front(q.events) ELSE q.events
  IN  IF ~PushOK(q, e.id) THEN q
      ELSE [tail   |-> e.id + 1,
            events |-> Append(kept, e),
            gc     |-> IF kept = <<>> /\ ~IsMarker(e) THEN e.data ELSE q.gc]

(* push: the identifier is tail_id, or a new one for a new queue and for a *)
(* queue that has used up its identifiers; the latter loses its events.    *)
UsedUp(q) == q.tail + 1 >= MaxId
Renewed(q) == IF UsedUp(q) THEN [q EXCEPT !.tail = 0, !.events = <<>>] ELSE q

push(q, data, fresh) ==
  LET r == Renewed(q)
  IN  do_push(r, Event(IF r.tail = 0 THEN fresh ELSE r.tail, data))

(* get.  expired is the set of updates that have expired.  The events from *)
(* from_id on that have expired are popped up to the first live event that *)
(* does not fit into limit.                                                *)
GetOK(q, from) == from <= q.tail + FutureIds /\ from >= get_queue_head(q) - MaxQueueEvents

Live(events, from, expired) ==
  Select(events, {e \in Range(events) : e.id >= from /\ ~IsMarker(e) /\ e.data \notin expired})

do_get(q, from, forget_previous, expired, limit) ==
  LET q1    == IF forget_previous THEN pop(q, {id \in Ids(q.events) : id < from}) ELSE q
      live  == Live(q1.events, from, expired)
      fits  == IF Len(live) > limit THEN SubSeq(live, 1, limit) ELSE live
      below == IF Len(live) > limit THEN live[limit + 1].id ELSE MaxId
      stale == {id \in Ids(q1.events) : id >= from /\ id < below} \ Ids(live)
  IN  [queue |-> pop(q1, stale), events |-> fits]

(* clear: only the last keep events stay; the last one of all as a marker. *)
clear(q, keep) ==
  LET n == Len(q.events)
  IN  IF get_size(q) <= keep THEN q
      ELSE [q EXCEPT !.events =
              IF keep = 0 THEN <<[q.events[n] EXCEPT !.data = NoData]>>
              ELSE SubSeq(q.events, n - keep + 1, n)]

(* run_gc, once gc has expired: the expired events before the second live  *)
(* one are popped, and the first live one is waited for next.              *)
run_gc(q, expired) ==
  LET live  == Live(q.events, 0, expired)
      below == IF Len(live) > 1 THEN live[2].id ELSE MaxId
      stale == {id \in Ids(q.events) : id < below} \ Ids(live)
  IN  [pop(q, stale) EXCEPT !.gc = IF live = <<>> THEN NoData ELSE live[1].data]

-------------------------------------------------------------------------------
(* The log.  A record is added, rewritten (as a marker) or erased.         *)

Erased == -1
Erase(e)  == Event(e.id, Erased)

Erases(old, new) ==
  LET gone == Select(old, {e \in Range(old) : e.id \notin Ids(new)})
  IN  [k \in 1..Len(gone) |-> Erase(gone[k])]
Rewrites(old, new) == Select(new, {e \in Range(new) : e.id \in Ids(old) /\ e \notin Range(old)})
Adds(old, new)     == Select(new, {e \in Range(new) : e.id \notin Ids(old)})

(* The records written by a call that pops from the front, pushes or both, *)
(* and by clear, which rewrites the last record first.                     *)
PopRecords(old, new)   == Erases(old, new) \o Rewrites(old, new) \o Adds(old, new)
ClearRecords(old, new) == Rewrites(old, new) \o Erases(old, new)

ApplyRecord(log, r) ==
  CASE r.data = Erased -> Select(log, {e \in Range(log) : e.id # r.id})
    [] r.data # Erased /\ r.id \in Ids(log) ->
         [k \in 1..Len(log) |-> IF log[k].id = r.id THEN r ELSE log[k]]
    [] OTHER -> Append(log, r)

Written(log, records) ==
  LET w[n \in 0..Len(records)] == IF n = 0 THEN log ELSE ApplyRecord(w[n - 1], records[n])
  IN  w[Len(records)]

(* The queue replayed from the log at start-up. *)
Replay(log) ==
  LET q[n \in 0..Len(log)] == IF n = 0 THEN NoQueue ELSE do_push(q[n - 1], log[n])
  IN  q[Len(log)]
===============================================================================
