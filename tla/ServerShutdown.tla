---------------------------- MODULE ServerShutdown ----------------------------
(***************************************************************************)
(* How the server ends: the main loop (server/telegram-bot-api.cpp),       *)
(* ClientManager with its clients and databases (server/ClientManager.cpp) *)
(* and the life of each Client (server/Client.cpp).                        *)
(*                                                                         *)
(* Client and ClientManager exchange messages: close_mail, the calls of    *)
(* Client::close on their way; events[i], what client i has sent to        *)
(* ClientManager, in order ("up" and "down" are the raw events of a bot    *)
(* that is logged in or no longer, "hangup" is the end of the actor).      *)
(* TDLib is seen through its authorization updates, each handled in one    *)
(* step.                                                                   *)
(***************************************************************************)
EXTENDS Integers, Sequences, FiniteSets

CONSTANTS
  Bots,        \* the bot tokens used
  BadTokens,   \* those whose secret part is malformed
  TQueueOf,    \* the update queue of each bot: bots with one user_id share it
  MaxClients,  \* how many Client actors may be created
  MaxQuits     \* how many signals and disk emergencies may happen

Ids       == 1..MaxClients
Queues    == {TQueueOf[t] : t \in Bots}
Databases == {"tqueue", "webhook_db"}

ASSUME BotsAssumption == BadTokens \subseteq Bots /\ IsFiniteSet(Bots)
ASSUME BoundsAssumption == MaxClients \in Nat /\ MaxQuits \in Nat

VARIABLES
  client,     \* per id: the members of its Client
  asked,      \* the clients whose TDLib has been sent close
  close_mail, \* the clients to which close() is on its way
  events,     \* per id: events on their way to ClientManager
  clients,    \* clients_ and token_to_id_
  active,     \* active_client_count_ (0: no entry)
  closing,    \* close_flag_, close_db_started_, close_finished_
  open_dbs,   \* the databases not yet closed
  deadline,   \* a deadline of the shutdown has passed
  main        \* the main loop

clientVars  == <<client, asked>>
managerVars == <<clients, active, closing, open_dbs, deadline>>
vars == <<clientVars, close_mail, events, managerVars, main>>

Token(i)  == client[i].token
Queue(i)  == TQueueOf[Token(i)]
TheClient(t) == {i \in clients : Token(i) = t}

-------------------------------------------------------------------------------
(* Client. *)

NewClient(t) ==
  [token |-> t, alive |-> TRUE, td |-> t \notin BadTokens, was_authorized |-> FALSE,
   closing |-> FALSE, logging_out |-> t \in BadTokens, need_close |-> FALSE,
   erasing |-> FALSE, timer |-> IF t \in BadTokens THEN "later" ELSE "off"]

Running(i) == i <= Len(client) /\ client[i].alive
HasTd(i)   == Running(i) /\ client[i].td

Tell(i, event) == events' = [events EXCEPT ![i] = Append(@, event)]

(* stop(): the link to ClientManager goes with the actor. *)
StopClient(i) ==
  /\ client' = [client EXCEPT ![i].alive = FALSE, ![i].timer = "off"]
  /\ Tell(i, "hangup")

(* authorizationStateReady. *)
OnReady(i) ==
  /\ HasTd(i)
  /\ ~client[i].was_authorized /\ ~client[i].closing /\ ~client[i].logging_out
  /\ client' = [client EXCEPT ![i].was_authorized = TRUE]
  /\ Tell(i, "up")
  /\ UNCHANGED <<asked, close_mail, managerVars, main>>

(* authorizationStateLoggingOut: asked for, or the token has been revoked. *)
OnLoggingOut(i) ==
  /\ HasTd(i)
  /\ ~client[i].closing /\ ~client[i].logging_out
  /\ client' = [client EXCEPT ![i].logging_out = TRUE]
  /\ IF client[i].was_authorized THEN Tell(i, "down") ELSE UNCHANGED events
  /\ UNCHANGED <<asked, close_mail, managerVars, main>>

(* authorizationStateClosing: asked for, perhaps while logging out; a bot  *)
(* that logs out has been reported already.                                *)
ReportEveryClosing(i) == client[i].was_authorized
ReportClosing(i) == client[i].was_authorized /\ ~client[i].logging_out

OnClosing(i) ==
  /\ HasTd(i) /\ i \in asked
  /\ ~client[i].closing
  /\ client' = [client EXCEPT ![i].closing = TRUE]
  /\ IF ReportClosing(i) THEN Tell(i, "down") ELSE UNCHANGED events
  /\ UNCHANGED <<asked, close_mail, managerVars, main>>

(* finish_closing: the client ends if it was asked to, and else stays for  *)
(* a while to refuse queries.                                              *)
FinishClosing(i, c) ==
  IF c.need_close
  THEN /\ client' = [client EXCEPT ![i] = [c EXCEPT !.alive = FALSE, !.timer = "off"]]
       /\ Tell(i, "hangup")
  ELSE /\ client' = [client EXCEPT ![i] = [c EXCEPT !.timer = "later"]]
       /\ UNCHANGED events

(* on_closed: TDLib is gone; the directory of a bot that logged out is     *)
(* erased first, on another scheduler.                                     *)
on_closed(i) ==
  /\ HasTd(i) /\ (client[i].closing \/ client[i].logging_out)
  /\ LET c == [client[i] EXCEPT !.td = FALSE]
     IN  IF c.logging_out
         THEN client' = [client EXCEPT ![i] = [c EXCEPT !.erasing = TRUE]] /\ UNCHANGED events
         ELSE FinishClosing(i, c)
  /\ UNCHANGED <<asked, close_mail, managerVars, main>>

CalledOnThis(i) ==
  /\ i <= Len(client) /\ client[i].erasing
  /\ FinishClosing(i, [client[i] EXCEPT !.erasing = FALSE])
  /\ UNCHANGED <<asked, close_mail, managerVars, main>>

finish_closing(i) ==
  /\ Running(i) /\ client[i].erasing
  /\ FinishClosing(i, [client[i] EXCEPT !.erasing = FALSE])
  /\ UNCHANGED <<asked, close_mail, managerVars, main>>

(* Client::timeout_expired. *)
ClientTimeout(i) ==
  /\ Running(i) /\ client[i].timer # "off"
  /\ StopClient(i)
  /\ UNCHANGED <<asked, close_mail, managerVars, main>>

TimerDue(i) == Running(i) /\ client[i].timer = "now"

(* Client::close: a client without TDLib ends at once, any other when TDLib *)
(* has closed.                                                              *)
NoTimer(c) == [c EXCEPT !.need_close = TRUE]
Closed(c)  == [c EXCEPT !.need_close = TRUE, !.timer = IF c.td THEN @ ELSE "now"]

CloseClient(i) ==
  /\ i \in close_mail
  /\ close_mail' = close_mail \ {i}
  /\ IF Running(i)
     THEN /\ client' = [client EXCEPT ![i] = Closed(@)]
          /\ asked' = IF client[i].td /\ ~client[i].closing
                      THEN asked \cup {i} ELSE asked
     ELSE UNCHANGED clientVars
  /\ UNCHANGED <<events, managerVars, main>>

(* The method close of the Bot API; logOut only has TDLib log out, which it *)
(* also does on its own (OnLoggingOut).  The update queue that logOut has   *)
(* cleared is not modelled here.                                            *)
on_cmd(i) ==
  /\ HasTd(i) /\ client[i].was_authorized
  /\ client' = [client EXCEPT ![i].need_close = TRUE]
  /\ asked' = asked \cup {i}
  /\ UNCHANGED <<close_mail, events, managerVars, main>>

-------------------------------------------------------------------------------
(* ClientManager. *)

Manager == ~closing.finished

(* close_db and finish_close. *)
DbClosing(c) == IF c.db \/ c.finished THEN c ELSE [c EXCEPT !.db = TRUE]

finish_close ==
  /\ closing' = [closing EXCEPT !.finished = TRUE]
  /\ client' = [i \in 1..Len(client) |->
                  [client[i] EXCEPT !.alive = IF i \in clients THEN FALSE ELSE @]]
  /\ main' = [main EXCEPT !.can_quit = TRUE]

(* send, send_file_stream: a query for a bot without a client creates one. *)
AcceptAlways == TRUE
Accepts == ~closing.flag

send(t) ==
  /\ Manager /\ Accepts
  /\ TheClient(t) = {} /\ Len(client) < MaxClients
  /\ client' = Append(client, NewClient(t))
  /\ clients' = clients \cup {Len(client) + 1}
  /\ UNCHANGED <<asked, close_mail, events, active, closing, open_dbs, deadline, main>>

close ==
  /\ Manager /\ main.close_call
  /\ main' = [main EXCEPT !.close_call = FALSE]
  /\ closing' = IF clients = {} THEN DbClosing([closing EXCEPT !.flag = TRUE])
                                ELSE [closing EXCEPT !.flag = TRUE]
  /\ close_mail' = close_mail \cup clients
  /\ UNCHANGED <<clientVars, events, clients, active, open_dbs, deadline>>

TakeEvent(i, event) ==
  /\ Manager
  /\ events[i] # <<>>
  /\ Head(events[i]) = event
  /\ events' = [events EXCEPT ![i] = Tail(@)]

raw_event(i) ==
  /\ \/ TakeEvent(i, "up")   /\ active' = [active EXCEPT ![Queue(i)] = @ + 1]
     \/ TakeEvent(i, "down") /\ active' = [active EXCEPT ![Queue(i)] = @ - 1]
  /\ UNCHANGED <<clientVars, close_mail, clients, closing, open_dbs, deadline, main>>

hangup_shared(i) ==
  /\ TakeEvent(i, "hangup")
  /\ clients' = clients \ {i}
  /\ closing' = IF closing.flag /\ clients' = {} THEN DbClosing(closing) ELSE closing
  /\ UNCHANGED <<clientVars, close_mail, active, open_dbs, deadline, main>>

(* The databases close on their own; ClientManager is told when both have. *)
CloseDatabase(d) ==
  /\ closing.db /\ d \in open_dbs
  /\ open_dbs' = open_dbs \ {d}
  /\ UNCHANGED <<clientVars, close_mail, events, clients, active, closing, deadline, main>>

AnyClosed == open_dbs # Databases
AllClosed == open_dbs = {}

DatabasesClosed ==
  /\ Manager /\ closing.db /\ AllClosed
  /\ finish_close
  /\ UNCHANGED <<asked, close_mail, events, clients, active, open_dbs, deadline>>

(* timeout_expired: 30 s for the clients, then 10 s for the databases. *)
timeout_expired ==
  /\ Manager /\ closing.flag
  /\ deadline' = TRUE
  /\ finish_close
  /\ UNCHANGED <<asked, close_mail, events, clients, active, open_dbs>>

-------------------------------------------------------------------------------
(* The main loop. *)

(* A signal, or a disk emergency seen by a round of the workdir cleanup. *)
QuitRequest ==
  /\ main.exited = "no" /\ main.quits < MaxQuits
  /\ main' = [main EXCEPT !.quits = @ + 1, !.need_quit = TRUE]
  /\ UNCHANGED <<clientVars, close_mail, events, managerVars>>

(* The first request starts the shutdown, a second one exits at once. *)
MainLoop ==
  /\ main.exited = "no"
  /\ \/ /\ main.need_quit /\ main.close_flag
        /\ main' = [main EXCEPT !.exited = "at once"]
     \/ /\ main.need_quit /\ ~main.close_flag
        /\ main' = [main EXCEPT !.need_quit = FALSE, !.close_flag = TRUE, !.close_call = TRUE]
     \/ /\ ~main.need_quit /\ main.can_quit
        /\ main' = [main EXCEPT !.can_quit = FALSE, !.exited = "finished"]
  /\ UNCHANGED <<clientVars, close_mail, events, managerVars>>

-------------------------------------------------------------------------------
Init ==
  /\ client = <<>>
  /\ asked = {}
  /\ close_mail = {}
  /\ events = [i \in Ids |-> <<>>]
  /\ clients = {}
  /\ active = [q \in Queues |-> 0]
  /\ closing = [flag |-> FALSE, db |-> FALSE, finished |-> FALSE]
  /\ open_dbs = Databases
  /\ deadline = FALSE
  /\ main = [quits |-> 0, need_quit |-> FALSE, close_flag |-> FALSE, close_call |-> FALSE,
             can_quit |-> FALSE, exited |-> "no"]

ClientStep(i) == \/ OnClosing(i) \/ on_closed(i) \/ finish_closing(i) \/ CloseClient(i)
ManagerStep   == \/ close \/ DatabasesClosed
                 \/ \E i \in Ids : raw_event(i) \/ hangup_shared(i)

Next ==
  \/ /\ main.exited = "no"
     /\ \/ \E i \in Ids : \/ ClientStep(i) \/ OnReady(i) \/ OnLoggingOut(i)
                          \/ ClientTimeout(i) \/ on_cmd(i)
        \/ \E t \in Bots : send(t)
        \/ ManagerStep \/ timeout_expired
        \/ \E d \in Databases : CloseDatabase(d)
  \/ QuitRequest \/ MainLoop

(* Actors handle their messages, TDLib closes when asked to and says so,   *)
(* databases close, the main loop runs, and a timer set to fire at once    *)
(* fires.  No deadline of the shutdown has to pass.                        *)
Spec == Init /\ [][Next]_vars
FairSpec ==
  /\ Spec
  /\ \A i \in Ids : /\ WF_vars(ClientStep(i) /\ main.exited = "no")
                    /\ WF_vars(TimerDue(i) /\ ClientTimeout(i) /\ main.exited = "no")
  /\ WF_vars(ManagerStep /\ main.exited = "no")
  /\ \A d \in Databases : WF_vars(CloseDatabase(d) /\ main.exited = "no")
  /\ WF_vars(MainLoop)

-------------------------------------------------------------------------------
(* Properties. *)

Members == [token : Bots, alive : BOOLEAN, td : BOOLEAN, was_authorized : BOOLEAN,
            closing : BOOLEAN, logging_out : BOOLEAN, need_close : BOOLEAN,
            erasing : BOOLEAN, timer : {"off", "now", "later"}]

(* Every variable has its type; no count of clients goes below 0. *)
TypeOK ==
  /\ client \in Seq(Members) /\ Len(client) <= MaxClients
  /\ asked \subseteq Ids /\ close_mail \subseteq Ids
  /\ events \in [Ids -> Seq({"up", "down", "hangup"})]
  /\ clients \subseteq Ids
  /\ active \in [Queues -> Nat]
  /\ closing \in [flag : BOOLEAN, db : BOOLEAN, finished : BOOLEAN]
  /\ open_dbs \subseteq Databases
  /\ deadline \in BOOLEAN
  /\ main \in [quits : 0..MaxQuits, need_quit : BOOLEAN, close_flag : BOOLEAN,
               close_call : BOOLEAN, can_quit : BOOLEAN, exited : {"no", "at once", "finished"}]

Reported(i, event) == \E k \in 1..Len(events[i]) : events[i][k] = event

(* The client is one of those that ClientManager counts: it has seen it    *)
(* log in and not yet log out or close.                                    *)
IsCounted(i) ==
  /\ client[i].was_authorized /\ ~Reported(i, "up")
  /\ (client[i].closing \/ client[i].logging_out) => Reported(i, "down")

(* active_client_count_ is exact: for each update queue, the number of     *)
(* clients that are logged in as far as ClientManager has been told.  The  *)
(* CHECKs of raw_event (an entry to count down) and hangup_shared (no      *)
(* entry left when the last client has gone) therefore hold.               *)
ActiveClientsExact ==
  Manager => \A q \in Queues :
               active[q] = Cardinality({i \in clients : Queue(i) = q /\ IsCounted(i)})

(* The variables have their types and the counts are exact. *)
Consistent == TypeOK /\ ActiveClientsExact

(* A client that ends has been counted down first: its hangup is the last  *)
(* of its events and no event of it comes after it is forgotten.           *)
HangupIsLast ==
  Manager => \A i \in 1..Len(client) :
    /\ i \notin clients => events[i] = <<>>
    /\ \A k \in 1..Len(events[i]) : events[i][k] = "hangup" => k = Len(events[i])
    /\ i \in clients /\ ~client[i].alive => Reported(i, "hangup")

(* The databases outlive the clients that use them: none is closed before  *)
(* every Client has ended, and none is created afterwards.                 *)
DatabasesOutliveClients ==
  closing.db => \A i \in 1..Len(client) : ~client[i].alive

(* The server leaves the main loop with its databases closed, unless a     *)
(* deadline has passed.                                                    *)
CleanExit == main.exited = "finished" => open_dbs = {} \/ deadline

(* The shutdown needs no deadline: if TDLib closes when asked to, every    *)
(* client ends, whatever it was doing, and so does the server.             *)
ShutdownCompletes == main.close_flag ~> main.exited # "no"
===============================================================================
