---------------------------- MODULE WebhookControl ----------------------------
(***************************************************************************)
(* How the webhook of one bot is set, changed and deleted: Client          *)
(* (server/Client.cpp), the life of WebhookActor as Client sees it, the    *)
(* copy and the removal of the certificate on another scheduler, the saved *)
(* webhook (webhook_db_) and the Client that follows a closed one or a     *)
(* restart (server/ClientManager.cpp).                                     *)
(*                                                                         *)
(* A url stands for all the settings of a webhook.  A setWebhook or        *)
(* deleteWebhook request is known by its number; deleteWebhook is the one  *)
(* with the url None.  What the WebhookActor does with updates is modelled *)
(* by UpdateDelivery.                                                      *)
(***************************************************************************)
EXTENDS Naturals, Sequences, FiniteSets

CONSTANTS
  Requests,     \* what may be asked: url, certificate, drop_pending_updates, valid
  MaxQueries,   \* bound on the requests
  MaxClients,   \* bound on the Clients created for the bot
  Faults        \* what may happen: "crash", "logout", "close", "cleanup"

None == 0
Internal == MaxQueries + 1     \* the request that restores the saved webhook
NotSaved == [url |-> None, cert |-> 0]

(* cert is new_has_certificate: none is looked for without a url. *)
ASSUME ControlAssumption ==
  /\ Requests \subseteq [url : Nat, cert : BOOLEAN, drop : BOOLEAN, valid : BOOLEAN]
  /\ \A r \in Requests : r.cert => r.url # None
  /\ MaxQueries \in Nat /\ MaxClients \in Nat \ {0}
  /\ Faults \subseteq {"crash", "logout", "close", "cleanup"}

VARIABLES
  client,    \* the members of Client that concern the webhook
  actor,     \* the WebhookActor
  mail,      \* its messages to Client, in order
  tasks,     \* the work queued on the certificate scheduler
  results,   \* its results on their way to Client
  file,      \* cert.pem: the request it came with, or 0 if there is no whole one
  db,        \* the value of webhook_db_ for the bot
  asked,     \* the requests, in order
  answer     \* "none" until they are answered: "ok", or "failed" with any error

vars == <<client, actor, mail, tasks, results, file, db, asked, answer>>

(* cert is the request whose certificate is in use (has_webhook_certificate_), *)
(* id tells whether webhook_id_ is set, set and active are the requests held   *)
(* in webhook_set_query_ and active_webhook_set_query_.  restored: whether the *)
(* saved webhook, if any, has been given to this Client.                       *)
(* lost is history: what the program does that may cost a saved webhook its    *)
(* certificate has happened since that was copied, to this Client or before.   *)
NewClient(n, restored, lost) ==
  [number |-> n, url |-> None, cert |-> 0, id |-> FALSE, set |-> 0, active |-> 0,
   type |-> "Verify", gen |-> 0, poll |-> FALSE, logging_out |-> FALSE, closing |-> FALSE,
   closed |-> FALSE, need_close |-> FALSE, wiped |-> FALSE, alive |-> TRUE, restored |-> restored,
   lost |-> lost]

NoActor == [on |-> FALSE, gen |-> 0, checked |-> FALSE, close |-> FALSE]

Ending(c) == c.logging_out \/ c.closing
Saved(c)  == [url |-> c.url, cert |-> c.cert]

Reply(ans, q, what) == [k \in DOMAIN ans |-> IF k = q THEN what ELSE ans[k]]

-------------------------------------------------------------------------------
(* finish_set_webhook: a new WebhookActor, whose answer the request waits for. *)
FinishSetWebhook(c, ans, q, url) ==
  \/ /\ Ending(c)
     /\ client' = c
     /\ answer' = Reply(ans, q, "failed")
     /\ UNCHANGED actor
  \/ /\ ~Ending(c)
     /\ client' = [c EXCEPT !.url = url, !.id = TRUE, !.type = "Verify", !.set = q]
     /\ actor' = [on |-> TRUE, gen |-> c.gen, checked |-> FALSE, close |-> FALSE]
     /\ answer' = ans

(* do_set_webhook, once there is no webhook: the certificate is copied     *)
(* first, over that of the saved webhook if this Client was not given it.  *)
DoSetWebhook(c, ans, q, r) ==
  \/ /\ Ending(c) \/ r.url = None \/ ~r.valid \/ c.active # 0
     /\ client' = c
     /\ answer' = Reply(ans, q, IF ~Ending(c) /\ r.url = None THEN "ok" ELSE "failed")
     /\ UNCHANGED <<actor, tasks>>
  \/ /\ ~Ending(c) /\ r.url # None /\ r.valid /\ c.active = 0
     /\ \/ /\ r.cert
           /\ client' = [c EXCEPT !.active = q, !.lost = ~c.restored]
           /\ tasks' = Append(tasks, [what |-> "copy", of |-> q, for |-> c.number])
           /\ answer' = ans
           /\ UNCHANGED actor
        \/ /\ ~r.cert
           /\ FinishSetWebhook(c, ans, q, r.url)
           /\ UNCHANGED tasks

(* process_set_webhook_query.  A request that is held is replaced, one     *)
(* whose certificate is being copied is not; a webhook that is there is    *)
(* closed first, and one with a certificate is set again even if nothing   *)
(* changes.                                                                *)
Unchanged(c, r) == c.url = r.url /\ c.cert = 0 /\ ~r.cert /\ ~r.drop
Unanswered(ans, held) == ans
Replaced(ans, held) == Reply(ans, held, "failed")

KeepPoll(c, r) == c
AbortLongPoll(c, r) == IF r.url = None THEN c ELSE [c EXCEPT !.poll = FALSE]

ProcessSetWebhook(c, q, r) ==
  LET ans == Append(answer, "none")
      a   == Replaced(ans, c.set)
      n   == [AbortLongPoll(c, r) EXCEPT !.set = 0, !.gen = @ + 1]
  IN  \/ /\ \/ r.url # None /\ c.gen > 0                \* asked again too soon
            \/ c.set = 0 /\ c.active # 0
         /\ client' = c
         /\ answer' = Reply(ans, q, "failed")
         /\ UNCHANGED <<actor, tasks>>
      \/ /\ c.set = 0 /\ c.active = 0 /\ Unchanged(c, r)
         /\ client' = c
         /\ answer' = Reply(ans, q, "ok")
         /\ UNCHANGED <<actor, tasks>>
      \/ /\ c.set # 0 \/ (c.active = 0 /\ ~Unchanged(c, r))
         /\ \/ /\ c.url # None
               /\ client' = [n EXCEPT !.id = FALSE, !.type = "Cancel", !.set = q]
               /\ actor' = [actor EXCEPT !.close = @ \/ c.id]
               /\ answer' = a
               /\ UNCHANGED tasks
            \/ /\ c.url = None
               /\ DoSetWebhook(n, a, q, r)

(* A Client that is ending fails the request. *)
FailQueryClosing(ans) == Append(ans, "failed")

(* The request reaches the Client of the bot, or a new one that is not     *)
(* given the saved webhook.                                                *)
SetWebhook(r) ==
  LET q == Len(asked) + 1
  IN  /\ q <= MaxQueries
      /\ asked' = Append(asked, r)
      /\ \/ /\ client.alive /\ ~Ending(client)
            /\ ProcessSetWebhook(client, q, r)
         \/ /\ client.alive /\ Ending(client)
            /\ answer' = FailQueryClosing(answer)
            /\ UNCHANGED <<client, actor, tasks>>
         \/ /\ ~client.alive /\ client.number < MaxClients
            /\ ProcessSetWebhook(NewClient(client.number + 1, db = NotSaved, client.lost), q, r)
      /\ UNCHANGED <<mail, results, file, db>>

(* A new Client that is given the saved webhook: by the first request of   *)
(* another method, and at the start of the process.                        *)
Restored(n, saved, lost) ==
  LET c == NewClient(n, TRUE, lost)
  IN  IF saved = NotSaved THEN c
      ELSE [c EXCEPT !.gen = 1, !.url = saved.url, !.cert = saved.cert, !.id = TRUE,
                     !.set = Internal]
RestoredActor(saved) ==
  IF saved = NotSaved THEN NoActor ELSE [on |-> TRUE, gen |-> 1, checked |-> FALSE, close |-> FALSE]

OtherMethod ==
  /\ ~client.alive /\ client.number < MaxClients
  /\ client' = Restored(client.number + 1, db, client.lost)
  /\ actor' = RestoredActor(db)
  /\ UNCHANGED <<mail, tasks, results, file, db, asked, answer>>

(* getUpdates waits for updates, or is answered. *)
GetUpdates ==
  /\ client.alive /\ ~Ending(client)
  /\ client.url = None /\ client.set = 0 /\ client.active = 0
  /\ client' = [client EXCEPT !.poll = ~@]
  /\ UNCHANGED <<actor, mail, tasks, results, file, db, asked, answer>>

-------------------------------------------------------------------------------
(* WebhookActor.  It tells Client that the webhook is verified, once more  *)
(* when the IP address has changed, and once that it is closed.            *)
StillOn(a) == a
Stopped(a) == [a EXCEPT !.on = FALSE]
Tell(what) == mail' = Append(mail, [what |-> what, gen |-> actor.gen])
ActorStep == UNCHANGED <<client, tasks, results, file, db, asked, answer>>

Verify ==
  /\ ActorStep /\ actor.on /\ ~actor.checked
  /\ actor' = [actor EXCEPT !.checked = TRUE]
  /\ Tell("verified")

(* on_resolved_ip_address: not before the last change has been handled. *)
AddressChanged ==
  /\ ActorStep /\ actor.on /\ actor.checked /\ mail = <<>>
  /\ Tell("verified")
  /\ UNCHANGED actor

(* on_error: only until the webhook is verified. *)
Fail ==
  /\ ActorStep /\ actor.on /\ ~actor.checked
  /\ actor' = Stopped(actor)
  /\ Tell("closed")

(* close. *)
Close ==
  /\ ActorStep /\ actor.on /\ actor.close
  /\ actor' = Stopped(actor)
  /\ Tell("closed")

(* handle: the webhook answers with 410 for too long. *)
Gone ==
  /\ actor.on /\ actor.checked /\ ~actor.close
  /\ actor' = [actor EXCEPT !.close = TRUE]
  /\ UNCHANGED <<client, mail, tasks, results, file, db, asked, answer>>

-------------------------------------------------------------------------------
(* The certificate scheduler.  A copy that fails may leave the file torn,  *)
(* and that a removal fails is ignored.                                    *)
RunTask ==
  /\ tasks # <<>>
  /\ LET t == Head(tasks)
     IN  \E ok \in BOOLEAN :
           /\ t.what = "unlink" => ok
           /\ IF t.what = "copy" /\ ok THEN file' = t.of ELSE file' \in {0, file}
           /\ results' = Append(results, [what |-> t.what, ok |-> ok, for |-> t.for])
  /\ tasks' = Tail(tasks)
  /\ UNCHANGED <<client, actor, mail, db, asked, answer>>

(* A removal for this Client of which on_webhook_closed is still to come. *)
Removal(seq) == \E k \in 1..Len(seq) : seq[k].what = "unlink" /\ seq[k].for = client.number

(* WorkdirCleanupManager: to a round, cert.pem is a file like any other. *)
Cleanup ==
  /\ "cleanup" \in Faults /\ file # 0
  /\ file' = 0
  /\ client' = [client EXCEPT !.lost = TRUE]
  /\ UNCHANGED <<actor, mail, tasks, results, db, asked, answer>>

(* on_webhook_closed: the request that waits fails, or goes on. *)
CertificateStays(c) == [c EXCEPT !.id = FALSE, !.url = None, !.set = 0]
WithoutWebhook(c) == [c EXCEPT !.id = FALSE, !.url = None, !.cert = 0, !.set = 0]
SavedStays(saved) == saved
Erased(saved) == NotSaved

OnWebhookClosed ==
  LET c == WithoutWebhook(client)
      q == client.set
  IN  /\ db' = Erased(db)
      /\ \/ /\ q = 0
            /\ client' = c
            /\ UNCHANGED <<actor, tasks, answer>>
         \/ /\ q # 0 /\ client.type = "Verify"
            /\ client' = c
            /\ answer' = Reply(answer, q, "failed")
            /\ UNCHANGED <<actor, tasks>>
         \/ /\ q # 0 /\ client.type = "Cancel"
            /\ DoSetWebhook(c, answer, q, asked[q])

(* webhook_verified: not that of a webhook that is being replaced. *)
AnyVerified(m) == TRUE
IsCurrent(m) == m.gen = client.gen

OnVerified ==
  /\ client.alive /\ mail # <<>> /\ Head(mail).what = "verified"
  /\ mail' = Tail(mail)
  /\ \/ /\ ~IsCurrent(Head(mail))
        /\ UNCHANGED <<client, db, answer>>
     \/ /\ IsCurrent(Head(mail))
        /\ client' = [client EXCEPT !.set = 0]
        /\ db' = Saved(client)
        /\ answer' = Reply(answer, client.set, "ok")
  /\ UNCHANGED <<actor, tasks, results, file, asked>>

(* webhook_closed: the certificate is removed first. *)
OnClosed ==
  /\ client.alive /\ mail # <<>> /\ Head(mail).what = "closed"
  /\ mail' = Tail(mail)
  /\ \/ /\ client.cert # 0
        /\ tasks' = Append(tasks, [what |-> "unlink", of |-> 0, for |-> client.number])
        /\ UNCHANGED <<client, actor, db, answer>>
     \/ /\ client.cert = 0
        /\ OnWebhookClosed
  /\ UNCHANGED <<results, file, asked>>

(* on_webhook_certificate_copied. *)
NeverFails(ok) == FALSE
CopyFails(ok) == ~ok
OnWebhookCertificateCopied(ok) ==
  LET q == client.active
      c == [client EXCEPT !.active = 0]
  IN  /\ q # 0
      /\ \/ /\ CopyFails(ok)
            /\ client' = c
            /\ answer' = Reply(answer, q, "failed")
            /\ UNCHANGED actor
         \/ /\ ~CopyFails(ok)
            /\ FinishSetWebhook([c EXCEPT !.cert = q], answer, q, asked[q].url)
      /\ UNCHANGED <<tasks, db>>

(* The result of a task reaches the Client it is for, if it is still there. *)
IsFor(r) == client.alive /\ r.for = client.number
OnResult ==
  /\ results # <<>>
  /\ results' = Tail(results)
  /\ LET r == Head(results)
     IN  \/ ~IsFor(r) /\ UNCHANGED <<client, actor, tasks, db, answer>>
         \/ IsFor(r) /\ r.what = "unlink" /\ OnWebhookClosed
         \/ IsFor(r) /\ r.what = "copy" /\ OnWebhookCertificateCopied(r.ok)
  /\ UNCHANGED <<mail, file, asked>>

-------------------------------------------------------------------------------
(* The end of the Client. *)
LogOut ==
  /\ "logout" \in Faults /\ client.alive /\ ~client.logging_out /\ ~client.closed
  /\ client' = [client EXCEPT !.logging_out = TRUE]
  /\ UNCHANGED <<actor, mail, tasks, results, file, db, asked, answer>>

CloseClient ==
  /\ "close" \in Faults /\ client.alive /\ ~client.closing /\ ~client.closed
  /\ client' = [client EXCEPT !.closing = TRUE, !.need_close = TRUE]
  /\ UNCHANGED <<actor, mail, tasks, results, file, db, asked, answer>>

(* The Client stops: nothing reaches it any more, and a removal goes on. *)
Stop(c) ==
  /\ client' = [c EXCEPT !.alive = FALSE, !.lost = @ \/ Removal(tasks) \/ Removal(results)]
  /\ actor' = NoActor
  /\ mail' = <<>>

(* on_closed: every request held is answered, the webhook goes without a   *)
(* word, and a bot that logs out loses the saved one and its directory.    *)
OnClientClosed ==
  /\ client.alive /\ Ending(client) /\ ~client.closed
  /\ LET c == [client EXCEPT !.closed = TRUE, !.set = 0, !.active = 0, !.poll = FALSE, !.id = FALSE]
     IN  /\ answer' = [q \in DOMAIN answer |->
                         IF q \in {client.set, client.active} THEN "failed" ELSE answer[q]]
         /\ \/ /\ ~c.logging_out
               /\ Stop(c)
            \/ /\ c.logging_out
               /\ client' = [c EXCEPT !.lost = TRUE]
               /\ actor' = IF client.id THEN NoActor ELSE actor
               /\ UNCHANGED mail
         /\ db' = IF c.logging_out THEN NotSaved ELSE db
  /\ UNCHANGED <<tasks, results, file, asked>>

(* finish_closing after the directory of the bot is removed. *)
FinishClosing ==
  /\ client.alive /\ client.closed /\ client.logging_out /\ ~client.wiped
  /\ file' = 0
  /\ \/ /\ client.need_close
        /\ Stop([client EXCEPT !.wiped = TRUE])
     \/ /\ ~client.need_close
        /\ client' = [client EXCEPT !.wiped = TRUE]
        /\ UNCHANGED <<actor, mail>>
  /\ UNCHANGED <<tasks, results, db, asked, answer>>

(* timeout_expired. *)
TimeoutExpired ==
  /\ client.alive /\ client.wiped
  /\ Stop(client)
  /\ UNCHANGED <<tasks, results, file, db, asked, answer>>

(* The process ends, and starts again with the saved webhook: a removal    *)
(* may be done, a webhook that was closed by it still saved.               *)
StartAgain ==
  /\ client.number < MaxClients
  /\ client' = Restored(client.number + 1, db, client.lost \/ Removal(results))
  /\ actor' = RestoredActor(db)
  /\ mail' = <<>> /\ tasks' = <<>> /\ results' = <<>>
  /\ answer' = [q \in DOMAIN answer |-> IF answer[q] = "none" THEN "failed" ELSE answer[q]]
  /\ UNCHANGED <<file, db, asked>>

Restart == "crash" \in Faults /\ StartAgain

(* CHECK(active_webhook_set_query_) of on_webhook_certificate_copied fails. *)
Abort ==
  /\ results # <<>> /\ IsFor(Head(results)) /\ Head(results).what = "copy" /\ client.active = 0
  /\ StartAgain

-------------------------------------------------------------------------------
Init ==
  /\ client = NewClient(1, TRUE, FALSE)
  /\ actor = NoActor
  /\ mail = <<>> /\ tasks = <<>> /\ results = <<>>
  /\ file = 0
  /\ db = NotSaved
  /\ asked = <<>> /\ answer = <<>>

Ask    == (\E r \in Requests : SetWebhook(r)) \/ OtherMethod \/ GetUpdates
Actor  == Verify \/ AddressChanged \/ Fail \/ Close \/ Gone
Handle == OnVerified \/ OnClosed \/ RunTask \/ Cleanup \/ OnResult
End    == LogOut \/ CloseClient \/ OnClientClosed \/ FinishClosing \/ TimeoutExpired
          \/ Restart \/ Abort

Next == Ask \/ Actor \/ Handle \/ End

Spec == Init /\ [][Next]_vars

(* Messages are handled, tasks run, a new webhook is verified or fails,    *)
(* TDLib closes a Client that is closing.                                  *)
FairSpec ==
  /\ Spec
  /\ WF_vars(OnVerified) /\ WF_vars(OnClosed) /\ WF_vars(RunTask) /\ WF_vars(OnResult)
  /\ WF_vars(Verify \/ Fail) /\ WF_vars(Close)
  /\ WF_vars(OnClientClosed)

-------------------------------------------------------------------------------
(* The variables have their types, and few messages are ever under way: a  *)
(* Client starts no second task before the first has come back.            *)
TypeOK ==
  /\ client.number \in 1..MaxClients /\ client.type \in {"Verify", "Cancel"}
  /\ {client.set, client.active} \subseteq 0..Internal /\ client.cert \in 0..MaxQueries
  /\ Len(mail) <= 2 /\ Len(tasks) + Len(results) <= MaxClients
  /\ Len(asked) <= MaxQueries /\ Len(answer) = Len(asked)
  /\ file \in 0..MaxQueries

(* The updates of the bot have one consumer: while getUpdates waits there  *)
(* is no WebhookActor, however setWebhook, deleteWebhook and the messages  *)
(* of the actor interleave with it.                                        *)
OneConsumer == client.poll => ~actor.on

(* A webhook in use ends once: as long as webhook_url_ is set there is     *)
(* exactly one WebhookActor, or webhook_closed or on_webhook_closed of it  *)
(* is still to come.  So a webhook_closed, which does not look at the      *)
(* generation, never takes a newer webhook for the one that was closed.    *)
Pending(seq, what) == Cardinality({k \in 1..Len(seq) : seq[k].what = what})
Own(seq, what) ==
  Cardinality({k \in 1..Len(seq) : seq[k].what = what /\ seq[k].for = client.number})
EndsOnce ==
  client.alive /\ ~client.closed =>
    (IF actor.on THEN 1 ELSE 0) + Pending(mail, "closed")
      + Own(tasks, "unlink") + Own(results, "unlink")
    = (IF client.url = None THEN 0 ELSE 1)

(* The members and the messages under way belong together. *)
Consistent == TypeOK /\ EndsOnce

(* The CHECKs of clear_tqueue, do_set_webhook, finish_set_webhook and      *)
(* process_set_webhook_query: no actor and no certificate without a url,   *)
(* and never a second request held beside one whose certificate is being   *)
(* copied.  A copy that ends finds its request, unless the Client has      *)
(* closed in the meantime.                                                 *)
ChecksHold ==
  client.alive =>
    /\ client.url = None /\ ~Ending(client) => ~client.id /\ client.cert = 0 /\ client.set = 0
    /\ client.active # 0 => client.set = 0 /\ client.url = None
    /\ client.closed => ~client.id /\ client.set = 0 /\ client.active = 0
    /\ ~client.closed => Own(tasks, "copy") + Own(results, "copy")
                         = (IF client.active = 0 THEN 0 ELSE 1)

(* While no request is held, what is saved is what is in use, so that a    *)
(* restart neither loses a webhook that the bot was told is set nor brings *)
(* back one that it was told is deleted.  It does not hold for a Client    *)
(* that was created by setWebhook or deleteWebhook and not given the saved *)
(* webhook.                                                                *)
SavedExactly ==
  client.alive /\ ~client.closed /\ client.restored /\ client.set = 0 /\ client.active = 0
    => db = (IF client.url = None THEN NotSaved ELSE Saved(client))

(* A saved webhook with a certificate finds its own certificate in         *)
(* cert.pem, also after a restart and after copies and removals that run   *)
(* late for Clients that have ended.  It may be gone only if a cleanup     *)
(* round deleted it, if a Client or the process ended during its removal,  *)
(* if the bot has logged out, or if a Client that was not given the saved  *)
(* webhook copied its own certificate over it.                             *)
SavedCertificate ==
  client.alive /\ ~client.closed /\ client.restored /\ ~client.lost /\ db.cert # 0
    => file = db.cert \/ Own(results, "unlink") = 1

(* A request that is answered with success has got what it asked for: its  *)
(* own webhook, with its own certificate, in use and saved, and not the    *)
(* one it replaces; or none, if the Client knew the saved one.             *)
SuccessIsOwn ==
  [][\A q \in DOMAIN answer' :
       answer'[q] = "ok" /\ (q \in DOMAIN answer => answer[q] # "ok") =>
         /\ client'.url = asked'[q].url
         /\ client'.restored \/ asked'[q].url # None =>
              db' = [url |-> asked'[q].url, cert |-> IF asked'[q].cert THEN q ELSE 0]]_vars

(* Every request is answered in the end. *)
Answered == \A q \in 1..MaxQueries :
              (Len(asked) >= q) ~> (Len(asked) >= q /\ answer[q] # "none")

(* on_webhook_certificate_copied finds the request it is about:            *)
(* CHECK(active_webhook_set_query_).                                       *)
CopyFindsRequest ==
  results # <<>> /\ Head(results).what = "copy" /\ IsFor(Head(results)) => client.active # 0
===============================================================================
