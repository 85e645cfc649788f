------------------------- MODULE ServerShutdownProofs -------------------------
(***************************************************************************)
(* Proofs about ServerShutdown, for any number of bots, of clients and of  *)
(* requests to stop.  The databases outlive the clients because a Client   *)
(* that runs is one that ClientManager still lists: its hangup is sent     *)
(* when it ends and not before.  The counts of active clients are exact    *)
(* because of what a Client still has to say: see ShapeOf below.           *)
(***************************************************************************)
EXTENDS ServerShutdown, FiniteSetTheorems, SequenceTheorems, TLAPS

Event == {"up", "down", "hangup"}

MainState == [quits : 0..MaxQuits, need_quit : BOOLEAN, close_flag : BOOLEAN,
              close_call : BOOLEAN, can_quit : BOOLEAN, exited : {"no", "at once", "finished"}]

Types ==
  /\ client \in Seq(Members) /\ Len(client) <= MaxClients
  /\ events \in [Ids -> Seq(Event)]
  /\ clients \subseteq 1..Len(client)
  /\ closing \in [flag : BOOLEAN, db : BOOLEAN, finished : BOOLEAN]
  /\ main \in MainState

(* A client that does not exist has sent nothing; one that runs is listed  *)
(* and has not sent its hangup.                                            *)
NothingBefore == \A i \in Ids : i > Len(client) => events[i] = <<>>
AliveListed   == \A i \in 1..Len(client) :
                   client[i].alive => i \in clients /\ ~Reported(i, "hangup")

DatabasesLast == closing.db => closing.flag /\ clients = {}

(* What HangupIsLast says of one client. *)
HangupIsLastOf(i) ==
  /\ i \notin clients => events[i] = <<>>
  /\ \A k \in 1..Len(events[i]) : events[i][k] = "hangup" => k = Len(events[i])
  /\ i \in clients /\ ~client[i].alive => Reported(i, "hangup")

IInv == Types /\ NothingBefore /\ AliveListed /\ HangupIsLast /\ DatabasesLast

-------------------------------------------------------------------------------
LEMMA BoundsType == MaxClients \in Nat /\ Ids = 1..MaxClients
  BY BoundsAssumption DEF Ids

LEMMA TypesOfParts ==
  ASSUME Types
  PROVE  /\ Len(client) \in Nat
         /\ \A j \in 1..Len(client) : j \in Ids /\ client[j] \in Members
         /\ \A j \in Ids : events[j] \in Seq(Event) /\ Len(events[j]) \in Nat
<1>1. client \in Seq(Members) /\ Len(client) <= MaxClients
  BY DEF Types
<1>2. Len(client) \in Nat /\ \A j \in 1..Len(client) : client[j] \in Members
  BY <1>1
<1>3. \A j \in 1..Len(client) : j \in Ids
  BY <1>1, <1>2, BoundsType
<1>4. \A j \in Ids : events[j] \in Seq(Event)
  BY DEF Types
<1>5. \A j \in Ids : Len(events[j]) \in Nat
  BY <1>4
<1>6. QED  BY <1>2, <1>3, <1>4, <1>5

LEMMA ClientReplaced ==
  ASSUME NEW c \in Seq(Members), NEW i \in 1..Len(c), NEW m \in Members
  PROVE  /\ [c EXCEPT ![i] = m] \in Seq(Members)
         /\ Len([c EXCEPT ![i] = m]) = Len(c)
         /\ [c EXCEPT ![i] = m][i] = m
         /\ \A j \in 1..Len(c) : j # i => [c EXCEPT ![i] = m][j] = c[j]
  BY ExceptSeq

LEMMA EventAppended ==
  ASSUME NEW q \in Seq(Event), NEW e \in Event
  PROVE  /\ Append(q, e) \in Seq(Event)
         /\ Len(Append(q, e)) = Len(q) + 1
         /\ \A k \in 1..Len(q) : Append(q, e)[k] = q[k]
         /\ Append(q, e)[Len(q) + 1] = e
  BY AppendProperties

LEMMA EventTaken ==
  ASSUME NEW q \in Seq(Event), q # <<>>
  PROVE  /\ Tail(q) \in Seq(Event)
         /\ Len(q) \in Nat \ {0} /\ Len(Tail(q)) = Len(q) - 1
         /\ \A k \in 1..(Len(q) - 1) : Tail(q)[k] = q[k + 1]
         /\ Head(q) = q[1]
  BY HeadTailProperties, EmptySeq

-------------------------------------------------------------------------------
(* A step of a running client: it changes its members and may tell         *)
(* ClientManager so; it ends exactly when it sends its hangup.             *)
LEMMA ClientActs ==
  ASSUME IInv, NEW i \in Ids, Running(i), NEW m \in Members,
         client' = [client EXCEPT ![i] = m],
         \/ m.alive /\ UNCHANGED events
         \/ \E e \in {"up", "down"} : m.alive /\ Tell(i, e)
         \/ ~m.alive /\ Tell(i, "hangup"),
         UNCHANGED <<managerVars, main>>
  PROVE  IInv'
<1>1. /\ i \in 1..Len(client) /\ client[i].alive
      /\ i \in clients /\ ~Reported(i, "hangup")
  <2>1. i \in 1..Len(client)
    BY BoundsType, TypesOfParts DEF IInv, Running
  <2>2. client[i].alive
    BY DEF Running
  <2>3. QED  BY <2>1, <2>2 DEF IInv, AliveListed
<1>2. /\ client' \in Seq(Members) /\ Len(client') = Len(client)
      /\ client'[i] = m
      /\ \A j \in 1..Len(client) : j # i => client'[j] = client[j]
  <2>1. client \in Seq(Members)
    BY DEF IInv, Types
  <2>2. QED  BY <1>1, <2>1, ClientReplaced
<1>3. clients' = clients /\ closing' = closing /\ main' = main
  BY DEF managerVars
<1>4. CASE m.alive /\ UNCHANGED events
  <2>1. Types'
    BY <1>2, <1>3, <1>4 DEF IInv, Types
  <2>2. NothingBefore'
    BY <1>2, <1>4 DEF IInv, NothingBefore
  <2>3. AliveListed'
    BY <1>1, <1>2, <1>3, <1>4 DEF IInv, AliveListed, Reported
  <2>4. HangupIsLast'
    BY <1>1, <1>2, <1>3, <1>4 DEF IInv, HangupIsLast, Reported, Manager
  <2>5. QED  BY <1>3, <2>1, <2>2, <2>3, <2>4 DEF IInv, DatabasesLast
<1>5. ASSUME NEW e \in Event, Tell(i, e), m.alive <=> e # "hangup"
      PROVE  IInv'
  <2>1. events[i] \in Seq(Event) /\ events' = [events EXCEPT ![i] = Append(events[i], e)]
    BY <1>5 DEF IInv, Types, Tell
  <2>2. /\ events' \in [Ids -> Seq(Event)]
        /\ \A j \in Ids : j # i => events'[j] = events[j]
        /\ Len(events'[i]) = Len(events[i]) + 1
        /\ \A k \in 1..Len(events[i]) : events'[i][k] = events[i][k]
        /\ events'[i][Len(events[i]) + 1] = e
    <3>1. events \in [Ids -> Seq(Event)]
      BY DEF IInv, Types
    <3>2. events'[i] = Append(events[i], e)
      BY <2>1, <3>1
    <3>3. Append(events[i], e) \in Seq(Event)
      BY <2>1, EventAppended
    <3>4. /\ events' \in [Ids -> Seq(Event)]
          /\ \A j \in Ids : j # i => events'[j] = events[j]
      BY <2>1, <3>1, <3>3
    <3>5. QED  BY <2>1, <3>2, <3>4, EventAppended
  <2>3. Len(events[i]) \in Nat
    BY TypesOfParts DEF IInv
  <2>4. Types'
    BY <1>2, <1>3, <2>2 DEF IInv, Types
  <2>5. NothingBefore'
    BY <1>1, <1>2, <2>2 DEF IInv, NothingBefore
  <2>6. \A k \in 1..Len(events[i]) : events[i][k] # "hangup"
    BY <1>1 DEF Reported
  <2>7. \A j \in 1..Len(client) : j \in Ids
    BY TypesOfParts DEF IInv
  <2>8. AliveListed'
    <3>1. ASSUME NEW j \in 1..Len(client), client'[j].alive
          PROVE  j \in clients' /\ ~Reported(j, "hangup")'
      <4>1. CASE j = i
        BY <1>1, <1>2, <1>3, <1>5, <2>2, <2>3, <2>6, <3>1, <4>1 DEF Reported
      <4>2. CASE j # i
        BY <1>2, <1>3, <2>2, <2>7, <3>1, <4>2 DEF IInv, AliveListed, Reported
      <4>3. QED  BY <4>1, <4>2
    <3>2. QED  BY <1>2, <3>1 DEF AliveListed
  <2>9. HangupIsLast'
    <3>1. SUFFICES ASSUME NEW j \in 1..Len(client), Manager'
                   PROVE  HangupIsLastOf(j)'
      BY <1>2 DEF HangupIsLast, HangupIsLastOf
    <3>2. HangupIsLastOf(j)
      BY <1>3, <3>1 DEF IInv, HangupIsLast, HangupIsLastOf, Manager
    <3>3. CASE j = i
      <4>1. j \notin clients' => events'[j] = <<>>
        BY <1>1, <1>3, <3>3
      <4>2. \A k \in 1..Len(events'[j]) : events'[j][k] = "hangup" => k = Len(events'[j])
        BY <2>2, <2>3, <2>6, <3>3
      <4>3. ~client'[j].alive => Reported(j, "hangup")'
        <5>1. SUFFICES ASSUME ~m.alive PROVE Reported(j, "hangup")'
          BY <1>2, <3>3
        <5>2. e = "hangup"
          BY <1>5, <5>1
        <5>3. QED  BY <2>2, <2>3, <3>3, <5>2 DEF Reported
      <4>4. QED  BY <4>1, <4>2, <4>3 DEF HangupIsLastOf
    <3>4. CASE j # i
      <4>1. events'[j] = events[j] /\ client'[j] = client[j] /\ clients' = clients
        BY <1>2, <1>3, <2>2, <2>7, <3>4
      <4>2. QED  BY <3>2, <4>1 DEF HangupIsLastOf, Reported
    <3>5. QED  BY <3>3, <3>4
  <2>10. QED  BY <1>3, <2>4, <2>5, <2>8, <2>9 DEF IInv, DatabasesLast
<1>6. QED  BY <1>4, <1>5 DEF Event

(* A step that leaves clients and events alone. *)
LEMMA ClientsUnchanged ==
  ASSUME IInv, UNCHANGED <<client, events, clients>>,
         closing' \in [flag : BOOLEAN, db : BOOLEAN, finished : BOOLEAN],
         main' \in MainState,
         closing.finished => closing'.finished,
         DatabasesLast'
  PROVE  IInv'
<1>1. Types'
  BY DEF IInv, Types
<1>2. NothingBefore' /\ AliveListed'
  BY DEF IInv, NothingBefore, AliveListed, Reported
<1>3. HangupIsLast'
  BY DEF IInv, HangupIsLast, Reported, Manager
<1>4. QED  BY <1>1, <1>2, <1>3 DEF IInv

(* The end of ClientManager takes its clients with it. *)
LEMMA FinishKeeps ==
  ASSUME IInv, finish_close, UNCHANGED <<events, clients>>
  PROVE  IInv'
<1>1. /\ Len(client) \in Nat /\ client \in Seq(Members)
      /\ \A j \in 1..Len(client) : client[j] \in Members
  BY TypesOfParts DEF IInv, Types
<1>2. \A j \in 1..Len(client) :
        [client[j] EXCEPT !.alive = IF j \in clients THEN FALSE ELSE client[j].alive] \in Members
  BY <1>1 DEF Members
<1>3. client' = [j \in 1..Len(client) |->
                   [client[j] EXCEPT !.alive = IF j \in clients THEN FALSE ELSE client[j].alive]]
  BY DEF finish_close
<1>4. client' \in Seq(Members) /\ Len(client') = Len(client)
  <2>1. client' \in [1..Len(client) -> Members]
    BY <1>2, <1>3
  <2>2. client' \in Seq(Members)
    BY <1>1, <2>1, SeqDef
  <2>3. DOMAIN client' = 1..Len(client') /\ Len(client') \in Nat
    BY <2>2, LenProperties
  <2>4. 1..Len(client') = 1..Len(client)
    BY <2>1, <2>3
  <2>5. QED  BY <1>1, <2>2, <2>3, <2>4
<1>5. \A j \in 1..Len(client) : ~client'[j].alive
  <2>1. SUFFICES ASSUME NEW j \in 1..Len(client) PROVE ~client'[j].alive
    OBVIOUS
  <2>2. client'[j].alive = IF j \in clients THEN FALSE ELSE client[j].alive
    BY <1>1, <1>3 DEF Members
  <2>3. QED  BY <2>2 DEF IInv, AliveListed
<1>6. closing' = [closing EXCEPT !.finished = TRUE] /\ main' = [main EXCEPT !.can_quit = TRUE]
  BY DEF finish_close
<1>7. Types'
  BY <1>4, <1>6 DEF IInv, Types, MainState
<1>8. NothingBefore' /\ AliveListed'
  BY <1>4, <1>5 DEF IInv, NothingBefore, AliveListed
<1>9. HangupIsLast'
  BY <1>6 DEF IInv, Types, HangupIsLast, Manager
<1>10. DatabasesLast'
  BY <1>6 DEF IInv, Types, DatabasesLast
<1>11. QED  BY <1>7, <1>8, <1>9, <1>10 DEF IInv

LEMMA InitHolds == Init => IInv
<1> SUFFICES ASSUME Init PROVE IInv
  OBVIOUS
<1>1. Types
  BY BoundsType, BoundsAssumption DEF Init, Types, MainState
<1>2. QED  BY <1>1 DEF Init, IInv, NothingBefore, AliveListed, HangupIsLast, DatabasesLast

-------------------------------------------------------------------------------
(* The steps of a client. *)
LEMMA RunningType ==
  ASSUME IInv, NEW i \in Ids, Running(i)
  PROVE  i \in 1..Len(client) /\ client[i] \in Members /\ client[i].alive
<1>1. i \in 1..Len(client)
  BY BoundsType, TypesOfParts DEF IInv, Running
<1>2. QED  BY <1>1, TypesOfParts DEF IInv, Running

LEMMA FinishClosingKeeps ==
  ASSUME IInv, NEW i \in Ids, Running(i), NEW c \in Members, c.alive,
         FinishClosing(i, c), UNCHANGED <<managerVars, main>>
  PROVE  IInv'
<1>1. CASE c.need_close
  <2> DEFINE m == [c EXCEPT !.alive = FALSE, !.timer = "off"]
  <2>1. m \in Members /\ ~m.alive
    BY DEF Members
  <2>2. client' = [client EXCEPT ![i] = m] /\ Tell(i, "hangup")
    BY <1>1 DEF FinishClosing
  <2> HIDE DEF m
  <2>3. QED  BY <2>1, <2>2, ClientActs
<1>2. CASE ~c.need_close
  <2> DEFINE m == [c EXCEPT !.timer = "later"]
  <2>1. m \in Members /\ m.alive
    BY DEF Members
  <2>2. client' = [client EXCEPT ![i] = m] /\ UNCHANGED events
    BY <1>2 DEF FinishClosing
  <2> HIDE DEF m
  <2>3. QED  BY <2>1, <2>2, ClientActs
<1>3. QED  BY <1>1, <1>2

LEMMA ClientStepsKeep ==
  ASSUME IInv, NEW i \in Ids,
         \/ OnReady(i) \/ OnLoggingOut(i) \/ OnClosing(i) \/ on_closed(i)
         \/ finish_closing(i) \/ ClientTimeout(i) \/ on_cmd(i) \/ CloseClient(i)
  PROVE  IInv'
<1>1. CASE OnReady(i)
  <2> DEFINE m == [client[i] EXCEPT !.was_authorized = TRUE]
  <2>1. Running(i)
    BY <1>1 DEF OnReady, HasTd
  <2>2. m \in Members /\ m.alive
    BY <2>1, RunningType DEF Members
  <2>3. /\ client' = [client EXCEPT ![i] = m]
        /\ Tell(i, "up") /\ UNCHANGED <<managerVars, main>>
    BY <1>1 DEF OnReady
  <2> HIDE DEF m
  <2>4. QED  BY <2>1, <2>2, <2>3, ClientActs
<1>2. CASE OnLoggingOut(i)
  <2> DEFINE m == [client[i] EXCEPT !.logging_out = TRUE]
  <2>1. Running(i)
    BY <1>2 DEF OnLoggingOut, HasTd
  <2>2. m \in Members /\ m.alive
    BY <2>1, RunningType DEF Members
  <2>3. /\ client' = [client EXCEPT ![i] = m]
        /\ Tell(i, "down") \/ UNCHANGED events
        /\ UNCHANGED <<managerVars, main>>
    BY <1>2 DEF OnLoggingOut
  <2> HIDE DEF m
  <2>4. QED  BY <2>1, <2>2, <2>3, ClientActs
<1>3. CASE OnClosing(i)
  <2> DEFINE m == [client[i] EXCEPT !.closing = TRUE]
  <2>1. Running(i)
    BY <1>3 DEF OnClosing, HasTd
  <2>2. m \in Members /\ m.alive
    BY <2>1, RunningType DEF Members
  <2>3. /\ client' = [client EXCEPT ![i] = m]
        /\ Tell(i, "down") \/ UNCHANGED events
        /\ UNCHANGED <<managerVars, main>>
    BY <1>3 DEF OnClosing
  <2> HIDE DEF m
  <2>4. QED  BY <2>1, <2>2, <2>3, ClientActs
<1>4. CASE on_closed(i)
  <2> DEFINE c == [client[i] EXCEPT !.td = FALSE]
             m == [c EXCEPT !.erasing = TRUE]
  <2>1. Running(i)
    BY <1>4 DEF on_closed, HasTd
  <2>2. c \in Members /\ c.alive /\ m \in Members /\ m.alive
    BY <2>1, RunningType DEF Members
  <2>3. /\ \/ client' = [client EXCEPT ![i] = m] /\ UNCHANGED events
           \/ FinishClosing(i, c)
        /\ UNCHANGED <<managerVars, main>>
    BY <1>4 DEF on_closed
  <2> HIDE DEF c, m
  <2>4. QED  BY <2>1, <2>2, <2>3, ClientActs, FinishClosingKeeps
<1>5. CASE finish_closing(i)
  <2> DEFINE c == [client[i] EXCEPT !.erasing = FALSE]
  <2>1. Running(i)
    BY <1>5 DEF finish_closing
  <2>2. c \in Members /\ c.alive
    BY <2>1, RunningType DEF Members
  <2>3. FinishClosing(i, c) /\ UNCHANGED <<managerVars, main>>
    BY <1>5 DEF finish_closing
  <2> HIDE DEF c
  <2>4. QED  BY <2>1, <2>2, <2>3, FinishClosingKeeps
<1>6. CASE ClientTimeout(i)
  <2> DEFINE m == [client[i] EXCEPT !.alive = FALSE, !.timer = "off"]
  <2>1. Running(i)
    BY <1>6 DEF ClientTimeout
  <2>2. m \in Members /\ ~m.alive
    BY <2>1, RunningType DEF Members
  <2>3. client' = [client EXCEPT ![i].alive = FALSE, ![i].timer = "off"]
    BY <1>6 DEF ClientTimeout, StopClient
  <2>4. client \in Seq(Members) /\ i \in DOMAIN client
    BY <2>1, RunningType, LenProperties DEF IInv, Types
  <2>5. client' = [client EXCEPT ![i] = m]
    BY <2>3, <2>4
  <2>6. Tell(i, "hangup") /\ UNCHANGED <<managerVars, main>>
    BY <1>6 DEF ClientTimeout, StopClient
  <2> HIDE DEF m
  <2>7. QED  BY <2>1, <2>2, <2>5, <2>6, ClientActs
<1>7. CASE on_cmd(i)
  <2> DEFINE m == [client[i] EXCEPT !.need_close = TRUE]
  <2>1. Running(i)
    BY <1>7 DEF on_cmd, HasTd
  <2>2. m \in Members /\ m.alive
    BY <2>1, RunningType DEF Members
  <2>3. /\ client' = [client EXCEPT ![i] = m]
        /\ UNCHANGED events /\ UNCHANGED <<managerVars, main>>
    BY <1>7 DEF on_cmd
  <2> HIDE DEF m
  <2>4. QED  BY <2>1, <2>2, <2>3, ClientActs
<1>8. CASE CloseClient(i) /\ Running(i)
  <2>1. Closed(client[i]) \in Members /\ Closed(client[i]).alive
    BY <1>8, RunningType DEF Closed, Members
  <2>2. /\ client' = [client EXCEPT ![i] = Closed(client[i])]
        /\ UNCHANGED events /\ UNCHANGED <<managerVars, main>>
    BY <1>8 DEF CloseClient
  <2>3. QED  BY <1>8, <2>1, <2>2, ClientActs
<1>9. CASE CloseClient(i) /\ ~Running(i)
  <2>1. UNCHANGED <<client, events, clients, closing, main>>
    BY <1>9 DEF CloseClient, clientVars, managerVars
  <2>2. QED  BY <2>1, ClientsUnchanged DEF IInv, Types, DatabasesLast
<1>10. QED  BY <1>1, <1>2, <1>3, <1>4, <1>5, <1>6, <1>7, <1>8, <1>9

-------------------------------------------------------------------------------
(* The steps of ClientManager. *)
LEMMA SendKeeps ==
  ASSUME IInv, NEW t \in Bots, send(t)
  PROVE  IInv'
<1> DEFINE n == Len(client) + 1
<1>1. client \in Seq(Members) /\ Len(client) \in Nat /\ Len(client) < MaxClients
  BY TypesOfParts DEF IInv, Types, send
<1>2. NewClient(t) \in Members
  BY DEF NewClient, Members
<1>3. client' = Append(client, NewClient(t)) /\ clients' = clients \cup {n}
  BY DEF send
<1>4. /\ client' \in Seq(Members) /\ Len(client') = n
      /\ \A j \in 1..Len(client) : client'[j] = client[j]
      /\ client'[n] = NewClient(t)
  BY <1>1, <1>2, <1>3, AppendProperties
<1>5. events' = events /\ closing' = closing /\ main' = main /\ ~closing.flag
  BY DEF send, Accepts
<1>6. n \in Ids /\ events[n] = <<>>
  BY <1>1, BoundsType DEF IInv, NothingBefore
<1>7. ~Reported(n, "hangup")
  BY <1>6 DEF Reported
<1>8. 1..n = (1..Len(client)) \cup {n}
  BY <1>1
<1> HIDE DEF n
<1>9. Types'
  <2>1. clients' \subseteq 1..Len(client')
    BY <1>3, <1>4, <1>8 DEF IInv, Types
  <2>2. Len(client') <= MaxClients
    BY <1>1, <1>4, BoundsType DEF n
  <2>3. QED  BY <1>4, <1>5, <2>1, <2>2 DEF IInv, Types
<1>10. NothingBefore'
  BY <1>1, <1>4, <1>5, BoundsType DEF IInv, NothingBefore, n
<1>11. AliveListed'
  <2>1. SUFFICES ASSUME NEW j \in 1..n, client'[j].alive
                 PROVE  j \in clients' /\ ~Reported(j, "hangup")
    BY <1>4, <1>5 DEF AliveListed, Reported
  <2>2. CASE j = n
    BY <1>3, <1>7, <2>2
  <2>3. CASE j \in 1..Len(client)
    BY <1>3, <1>4, <2>1, <2>3 DEF IInv, AliveListed
  <2>4. QED  BY <1>8, <2>2, <2>3
<1>12. HangupIsLast'
  <2>1. SUFFICES ASSUME NEW j \in 1..n, Manager
                 PROVE  HangupIsLastOf(j)'
    BY <1>4, <1>5 DEF HangupIsLast, HangupIsLastOf, Manager
  <2>2. CASE j = n
    <3>1. events'[j] = <<>> /\ j \in clients' /\ client'[j].alive
      BY <1>3, <1>4, <1>5, <1>6, <2>2 DEF NewClient
    <3>2. QED  BY <3>1 DEF HangupIsLastOf
  <2>3. CASE j \in 1..Len(client)
    <3>1. HangupIsLastOf(j)
      BY <2>1, <2>3 DEF IInv, HangupIsLast, HangupIsLastOf
    <3>2. events'[j] = events[j] /\ client'[j] = client[j] /\ (j \in clients' <=> j \in clients)
      BY <1>1, <1>3, <1>4, <1>5, <2>3 DEF n
    <3>3. QED  BY <3>1, <3>2 DEF HangupIsLastOf, Reported
  <2>4. QED  BY <1>8, <2>2, <2>3
<1>13. DatabasesLast'
  BY <1>5 DEF IInv, DatabasesLast
<1>14. QED  BY <1>9, <1>10, <1>11, <1>12, <1>13 DEF IInv

(* What ClientManager knows when it takes an event. *)
LEMMA EventOfClient ==
  ASSUME IInv, NEW i \in Ids, NEW e \in Event, TakeEvent(i, e)
  PROVE  /\ i \in clients /\ i \in 1..Len(client)
         /\ events' = [events EXCEPT ![i] = Tail(events[i])]
         /\ events' \in [Ids -> Seq(Event)]
         /\ \A j \in Ids : j # i => events'[j] = events[j]
         /\ events'[i] = Tail(events[i])
         /\ Len(events[i]) \in Nat \ {0} /\ Len(events'[i]) = Len(events[i]) - 1
         /\ \A k \in 1..(Len(events[i]) - 1) : events'[i][k] = events[i][k + 1]
         /\ events[i][1] = e
<1>1. events \in [Ids -> Seq(Event)] /\ events[i] \in Seq(Event)
  BY DEF IInv, Types
<1>2. /\ Manager /\ events[i] # <<>> /\ Head(events[i]) = e
      /\ events' = [events EXCEPT ![i] = Tail(events[i])]
  BY DEF TakeEvent
<1>3. i \in 1..Len(client)
  <2>1. ~(i > Len(client))
    BY <1>2 DEF IInv, NothingBefore
  <2>2. QED  BY <2>1, BoundsType, TypesOfParts DEF IInv
<1>4. i \in clients
  BY <1>2, <1>3 DEF IInv, HangupIsLast
<1>5. events'[i] = Tail(events[i]) /\ \A j \in Ids : j # i => events'[j] = events[j]
  BY <1>1, <1>2
<1>6. Tail(events[i]) \in Seq(Event)
  BY <1>1, <1>2, EventTaken
<1>7. events' \in [Ids -> Seq(Event)]
  BY <1>1, <1>2, <1>6
<1>8. QED  BY <1>1, <1>2, <1>3, <1>4, <1>5, <1>7, EventTaken

LEMMA RawEventKeeps ==
  ASSUME IInv, NEW i \in Ids, raw_event(i)
  PROVE  IInv'
<1>1. PICK e \in {"up", "down"} : TakeEvent(i, e)
  BY DEF raw_event
<1>2. /\ UNCHANGED <<client, clients, closing, main>> /\ Manager
  BY DEF raw_event, clientVars, TakeEvent
<1>3. /\ e \in Event /\ i \in clients /\ i \in 1..Len(client)
      /\ events' \in [Ids -> Seq(Event)]
      /\ \A j \in Ids : j # i => events'[j] = events[j]
      /\ Len(events[i]) \in Nat \ {0} /\ Len(events'[i]) = Len(events[i]) - 1
      /\ \A k \in 1..(Len(events[i]) - 1) : events'[i][k] = events[i][k + 1]
      /\ events[i][1] = e
  BY <1>1, EventOfClient DEF Event
<1>4. Reported(i, "hangup")' <=> Reported(i, "hangup")
  <2>1. ASSUME NEW k \in 1..Len(events[i]), events[i][k] = "hangup"
        PROVE  Reported(i, "hangup")'
    <3>1. k # 1
      BY <1>3, <2>1
    <3>2. k - 1 \in 1..Len(events'[i]) /\ events'[i][k - 1] = "hangup"
      BY <1>3, <2>1, <3>1
    <3>3. QED  BY <3>2 DEF Reported
  <2>2. ASSUME NEW k \in 1..Len(events'[i]), events'[i][k] = "hangup"
        PROVE  Reported(i, "hangup")
    <3>1. k + 1 \in 1..Len(events[i]) /\ events[i][k + 1] = "hangup"
      BY <1>3, <2>2
    <3>2. QED  BY <3>1 DEF Reported
  <2>3. QED  BY <2>1, <2>2 DEF Reported
<1>5. \A j \in 1..Len(client) : j \in Ids
  BY TypesOfParts DEF IInv
<1>6. Types'
  BY <1>2, <1>3 DEF IInv, Types
<1>7. NothingBefore'
  <2>1. SUFFICES ASSUME NEW j \in Ids, j > Len(client) PROVE events'[j] = <<>>
    BY <1>2 DEF NothingBefore
  <2>2. j # i
    BY <1>3, <2>1, BoundsType, TypesOfParts DEF IInv
  <2>3. QED  BY <1>3, <2>1, <2>2 DEF IInv, NothingBefore
<1>8. AliveListed'
  <2>1. SUFFICES ASSUME NEW j \in 1..Len(client), client[j].alive
                 PROVE  j \in clients /\ ~Reported(j, "hangup")'
    BY <1>2 DEF AliveListed
  <2>2. j \in clients /\ ~Reported(j, "hangup")
    BY <2>1 DEF IInv, AliveListed
  <2>3. QED  BY <1>3, <1>4, <1>5, <2>2 DEF Reported
<1>9. HangupIsLast'
  <2>1. SUFFICES ASSUME NEW j \in 1..Len(client) PROVE HangupIsLastOf(j)'
    BY <1>2 DEF HangupIsLast, HangupIsLastOf
  <2>2. HangupIsLastOf(j)
    BY <1>2 DEF IInv, HangupIsLast, HangupIsLastOf
  <2>3. CASE j = i
    <3>1. \A k \in 1..Len(events'[i]) : events'[i][k] = "hangup" => k = Len(events'[i])
      <4>1. SUFFICES ASSUME NEW k \in 1..Len(events'[i]), events'[i][k] = "hangup"
                     PROVE  k = Len(events'[i])
        OBVIOUS
      <4>2. k + 1 \in 1..Len(events[i]) /\ events[i][k + 1] = "hangup"
        BY <1>3, <4>1
      <4>3. k + 1 = Len(events[i])
        BY <2>2, <2>3, <4>2 DEF HangupIsLastOf
      <4>4. QED  BY <1>3, <4>1, <4>3
    <3>2. QED  BY <1>2, <1>3, <1>4, <2>2, <2>3, <3>1 DEF HangupIsLastOf
  <2>4. CASE j # i
    <3>1. events'[j] = events[j] /\ client' = client /\ clients' = clients
      BY <1>2, <1>3, <1>5, <2>4
    <3>2. QED  BY <2>2, <3>1 DEF HangupIsLastOf, Reported
  <2>5. QED  BY <2>3, <2>4
<1>10. QED  BY <1>2, <1>6, <1>7, <1>8, <1>9 DEF IInv, DatabasesLast

LEMMA HangupKeeps ==
  ASSUME IInv, NEW i \in Ids, hangup_shared(i)
  PROVE  IInv'
<1>1. TakeEvent(i, "hangup") /\ Manager
  BY DEF hangup_shared, TakeEvent
<1>2. /\ i \in clients /\ i \in 1..Len(client)
      /\ events' \in [Ids -> Seq(Event)] /\ events'[i] \in Seq(Event)
      /\ \A j \in Ids : j # i => events'[j] = events[j]
      /\ Len(events[i]) \in Nat \ {0} /\ Len(events'[i]) = Len(events[i]) - 1
      /\ events[i][1] = "hangup"
  BY <1>1, EventOfClient DEF Event
<1>3. UNCHANGED <<client, main>> /\ clients' = clients \ {i}
  BY DEF hangup_shared, clientVars
<1>4. closing' = closing \/ (closing' = DbClosing(closing) /\ closing.flag /\ clients' = {})
  BY DEF hangup_shared
<1>5. events'[i] = <<>>
  <2>1. Len(events[i]) = 1
    <3>1. HangupIsLastOf(i)
      BY <1>1, <1>2 DEF IInv, HangupIsLast, HangupIsLastOf
    <3>2. 1 \in 1..Len(events[i])
      BY <1>2
    <3>3. QED  BY <1>2, <3>1, <3>2 DEF HangupIsLastOf
  <2>2. QED  BY <1>2, <2>1, EmptySeq
<1>6. ~client[i].alive
  <2>1. Reported(i, "hangup")
    BY <1>2 DEF Reported
  <2>2. QED  BY <1>2, <2>1 DEF IInv, AliveListed
<1>7. \A j \in 1..Len(client) : j \in Ids
  BY TypesOfParts DEF IInv
<1>8. /\ closing' \in [flag : BOOLEAN, db : BOOLEAN, finished : BOOLEAN]
      /\ closing'.flag = closing.flag /\ closing'.finished = closing.finished
      /\ closing'.db => closing.db \/ (closing.flag /\ clients' = {})
  BY <1>4 DEF IInv, Types, DbClosing
<1>9. Types'
  BY <1>2, <1>3, <1>8 DEF IInv, Types
<1>10. NothingBefore'
  BY <1>2, <1>3, <1>5 DEF IInv, NothingBefore
<1>11. AliveListed'
  <2>1. SUFFICES ASSUME NEW j \in 1..Len(client), client[j].alive
                 PROVE  j \in clients' /\ ~Reported(j, "hangup")'
    BY <1>3 DEF AliveListed
  <2>2. j # i
    BY <1>6, <2>1
  <2>3. QED  BY <1>2, <1>3, <1>7, <2>1, <2>2 DEF IInv, AliveListed, Reported
<1>12. HangupIsLast'
  <2>1. SUFFICES ASSUME NEW j \in 1..Len(client) PROVE HangupIsLastOf(j)'
    BY <1>3 DEF HangupIsLast, HangupIsLastOf
  <2>2. CASE j = i
    BY <1>3, <1>5, <2>2 DEF HangupIsLastOf
  <2>3. CASE j # i
    <3>1. HangupIsLastOf(j)
      BY <1>1 DEF IInv, HangupIsLast, HangupIsLastOf
    <3>2. events'[j] = events[j] /\ client' = client /\ (j \in clients' <=> j \in clients)
      BY <1>2, <1>3, <1>7, <2>3
    <3>3. QED  BY <3>1, <3>2 DEF HangupIsLastOf, Reported
  <2>4. QED  BY <2>2, <2>3
<1>13. DatabasesLast'
  BY <1>3, <1>8 DEF IInv, DatabasesLast
<1>14. QED  BY <1>9, <1>10, <1>11, <1>12, <1>13 DEF IInv

LEMMA CloseKeeps ==
  ASSUME IInv, close
  PROVE  IInv'
<1>1. /\ UNCHANGED <<client, events, clients>>
      /\ main' = [main EXCEPT !.close_call = FALSE]
      /\ closing' = IF clients = {} THEN DbClosing([closing EXCEPT !.flag = TRUE])
                                    ELSE [closing EXCEPT !.flag = TRUE]
  BY DEF close, clientVars
<1>2. /\ closing' \in [flag : BOOLEAN, db : BOOLEAN, finished : BOOLEAN]
      /\ closing'.flag /\ closing'.finished = closing.finished
      /\ closing'.db => closing.db \/ clients = {}
  BY <1>1 DEF IInv, Types, DbClosing
<1>3. DatabasesLast'
  BY <1>1, <1>2 DEF IInv, DatabasesLast
<1>4. QED  BY <1>1, <1>2, <1>3, ClientsUnchanged DEF IInv, Types, MainState

LEMMA MainStates ==
  ASSUME main \in MainState, QuitRequest \/ MainLoop
  PROVE  main' \in MainState
<1>1. CASE QuitRequest
  <2>1. main.quits \in 0..MaxQuits /\ main.quits < MaxQuits
    BY <1>1 DEF QuitRequest, MainState
  <2>2. main.quits + 1 \in 0..MaxQuits
    BY <2>1, BoundsAssumption
  <2>3. main' = [main EXCEPT !.quits = main.quits + 1, !.need_quit = TRUE]
    BY <1>1 DEF QuitRequest
  <2>4. QED  BY <2>2, <2>3 DEF MainState
<1>2. CASE MainLoop
  <2>1. CASE main' = [main EXCEPT !.exited = "at once"]
    BY <2>1 DEF MainState
  <2>2. CASE main' = [main EXCEPT !.need_quit = FALSE, !.close_flag = TRUE, !.close_call = TRUE]
    BY <2>2 DEF MainState
  <2>3. CASE main' = [main EXCEPT !.can_quit = FALSE, !.exited = "finished"]
    BY <2>3 DEF MainState
  <2>4. QED  BY <1>2, <2>1, <2>2, <2>3 DEF MainLoop
<1>3. QED  BY <1>1, <1>2

LEMMA MainKeeps ==
  ASSUME IInv, QuitRequest \/ MainLoop
  PROVE  IInv'
<1>1. UNCHANGED <<client, events, clients, closing>>
  BY DEF QuitRequest, MainLoop, clientVars, managerVars
<1>2. main' \in MainState
  BY MainStates DEF IInv, Types
<1>3. QED  BY <1>1, <1>2, ClientsUnchanged DEF IInv, Types, DatabasesLast

LEMMA StepHolds == IInv /\ [Next]_vars => IInv'
<1> SUFFICES ASSUME IInv, [Next]_vars PROVE IInv'
  OBVIOUS
<1>1. ASSUME NEW i \in Ids,
             \/ OnReady(i) \/ OnLoggingOut(i) \/ OnClosing(i) \/ on_closed(i)
             \/ finish_closing(i) \/ ClientTimeout(i) \/ on_cmd(i) \/ CloseClient(i)
      PROVE  IInv'
  BY <1>1, ClientStepsKeep
<1>2. ASSUME NEW t \in Bots, send(t) PROVE IInv'
  BY <1>2, SendKeeps
<1>3. ASSUME NEW i \in Ids, raw_event(i) \/ hangup_shared(i) PROVE IInv'
  BY <1>3, RawEventKeeps, HangupKeeps
<1>4. CASE close
  BY <1>4, CloseKeeps
<1>5. CASE DatabasesClosed \/ timeout_expired
  BY <1>5, FinishKeeps DEF DatabasesClosed, timeout_expired
<1>6. ASSUME NEW d \in Databases, CloseDatabase(d) PROVE IInv'
  <2>1. UNCHANGED <<client, events, clients, closing, main>>
    BY <1>6 DEF CloseDatabase, clientVars
  <2>2. QED  BY <2>1, ClientsUnchanged DEF IInv, Types, DatabasesLast
<1>7. CASE QuitRequest \/ MainLoop
  BY <1>7, MainKeeps
<1>8. CASE UNCHANGED vars
  <2>1. UNCHANGED <<client, events, clients, closing, main>>
    BY <1>8 DEF vars, clientVars, managerVars
  <2>2. QED  BY <2>1, ClientsUnchanged DEF IInv, Types, DatabasesLast
<1>9. QED
  BY <1>1, <1>2, <1>3, <1>4, <1>5, <1>6, <1>7, <1>8 DEF Next, ClientStep, ManagerStep

-------------------------------------------------------------------------------
(* The order of a client's messages: its hangup comes last, is sent when   *)
(* it ends, and ClientManager gets no event of a client it has forgotten.  *)
THEOREM HangupAlwaysLast == Spec => []HangupIsLast
<1>1. Spec => []IInv
  BY InitHolds, StepHolds, PTL DEF Spec
<1>2. IInv => HangupIsLast
  BY DEF IInv
<1>3. QED  BY <1>1, <1>2, PTL

(* ClientManager::close_db runs only when no Client is left, and no Client *)
(* is created after it.                                                    *)
THEOREM DatabasesAlwaysOutlive == Spec => []DatabasesOutliveClients
<1>1. Spec => []IInv
  BY InitHolds, StepHolds, PTL DEF Spec
<1>2. IInv => DatabasesOutliveClients
  BY DEF IInv, DatabasesLast, AliveListed, DatabasesOutliveClients
<1>3. QED  BY <1>1, <1>2, PTL

-------------------------------------------------------------------------------
(* The end of the main loop: can_quit is set only by finish_close, which   *)
(* runs when both databases are closed or a deadline has passed.           *)
ExitKnown ==
  /\ main \in MainState
  /\ main.can_quit \/ main.exited = "finished" => open_dbs = {} \/ deadline

LEMMA ExitKnownStep == ExitKnown /\ [Next]_vars => ExitKnown'
<1> SUFFICES ASSUME ExitKnown, [Next]_vars PROVE ExitKnown'
  OBVIOUS
<1>1. CASE UNCHANGED <<open_dbs, deadline, main>>
  BY <1>1 DEF ExitKnown
<1>2. CASE close
  BY <1>2 DEF close, ExitKnown, MainState
<1>3. CASE DatabasesClosed
  BY <1>3 DEF DatabasesClosed, finish_close, AllClosed, ExitKnown, MainState
<1>4. CASE timeout_expired
  BY <1>4 DEF timeout_expired, finish_close, ExitKnown, MainState
<1>5. ASSUME NEW d \in Databases, CloseDatabase(d) PROVE ExitKnown'
  BY <1>5 DEF CloseDatabase, ExitKnown
<1>6. CASE QuitRequest
  BY <1>6, MainStates DEF QuitRequest, managerVars, ExitKnown, MainState
<1>7. CASE MainLoop
  <2>1. UNCHANGED <<open_dbs, deadline>> /\ main' \in MainState
    BY <1>7, MainStates DEF MainLoop, managerVars, ExitKnown
  <2>2. CASE main' = [main EXCEPT !.exited = "at once"]
    BY <2>1, <2>2 DEF ExitKnown, MainState
  <2>3. CASE main' = [main EXCEPT !.need_quit = FALSE, !.close_flag = TRUE, !.close_call = TRUE]
    BY <2>1, <2>3 DEF ExitKnown, MainState
  <2>4. CASE main.can_quit /\ main' = [main EXCEPT !.can_quit = FALSE, !.exited = "finished"]
    BY <2>1, <2>4 DEF ExitKnown, MainState
  <2>5. QED  BY <1>7, <2>2, <2>3, <2>4 DEF MainLoop
<1>8. QED
  BY <1>1, <1>2, <1>3, <1>4, <1>5, <1>6, <1>7
     DEF Next, ClientStep, ManagerStep, OnReady, OnLoggingOut, OnClosing, on_closed,
         finish_closing, ClientTimeout, on_cmd, CloseClient, send, raw_event, hangup_shared,
         vars, managerVars

(* The main loop ends with the databases closed, or after a deadline.      *)
THEOREM ExitAlwaysClean == Spec => []CleanExit
<1>1. Init => ExitKnown
  BY BoundsAssumption DEF Init, ExitKnown, MainState
<1>2. ExitKnown => CleanExit
  BY DEF ExitKnown, CleanExit
<1>3. QED  BY <1>1, <1>2, ExitKnownStep, PTL DEF Spec

-------------------------------------------------------------------------------
(* The counts of clients.  What a Client c still has to say in ev: that it *)
(* is up, if it is, comes first, that it is down follows or comes first,   *)
(* and only a Client that logs out or closes is without TDLib.             *)
Says(ev, event) == \E k \in 1..Len(ev) : ev[k] = event
Ends(c) == c.closing \/ c.logging_out
ShapeOf(c, ev) ==
  /\ \A k \in 1..Len(ev) : ev[k] = "up" => k = 1 /\ c.was_authorized
  /\ \A k \in 1..Len(ev) : ev[k] = "down" =>
       /\ k = 1 \/ (k = 2 /\ ev[1] = "up")
       /\ c.was_authorized /\ Ends(c)
  /\ Says(ev, "up") /\ Ends(c) => Says(ev, "down")
  /\ ~c.td => Ends(c)
  /\ ~c.alive \/ c.erasing \/ c.timer # "off" => ~c.td
CountedOf(c, ev) ==
  /\ c.was_authorized /\ ~Says(ev, "up")
  /\ Ends(c) => Says(ev, "down")

Shapes == \A i \in 1..Len(client) : ShapeOf(client[i], events[i])
Others ==
  /\ asked \subseteq Ids /\ close_mail \subseteq Ids
  /\ active \in [Queues -> Nat] /\ open_dbs \subseteq Databases /\ deadline \in BOOLEAN
CountInv == Others /\ (Manager => Shapes /\ ActiveClientsExact)

(* What each kind of step of a Client does to that, and whether it is      *)
(* counted: never anything, for ClientManager has not heard of it yet.     *)
LEMMA SaysNothing ==
  ASSUME NEW c \in Members, NEW m \in Members, NEW ev, ShapeOf(c, ev),
         m.was_authorized = c.was_authorized, Ends(c) => Ends(m),
         m.was_authorized /\ Ends(m) => Ends(c),
         ~m.td => Ends(m), ~m.alive \/ m.erasing \/ m.timer # "off" => ~m.td
  PROVE  ShapeOf(m, ev) /\ (CountedOf(m, ev) <=> CountedOf(c, ev))
  BY DEF ShapeOf, CountedOf, Says

Works(m) == m.td /\ m.alive /\ ~m.erasing /\ m.timer = "off"

GoesUp(c, m) == ~c.was_authorized /\ m.was_authorized /\ ~Ends(m) /\ Works(m)
GoesDown(c, m) ==
  c.was_authorized /\ m.was_authorized /\ ~Ends(c) /\ Ends(m) /\ Works(m)

LEMMA SaysUp ==
  ASSUME NEW c \in Members, NEW m \in Members, NEW ev \in Seq(Event), ShapeOf(c, ev),
         ~Says(ev, "hangup"), GoesUp(c, m), NEW new, new = Append(ev, "up")
  PROVE  ShapeOf(m, new) /\ (CountedOf(m, new) <=> CountedOf(c, ev))
<1>1. Len(ev) \in Nat /\ \A k \in 1..Len(ev) : ev[k] \in Event
  BY LenProperties, ElementOfSeq
<1>2. \A k \in 1..Len(ev) : FALSE
  BY <1>1 DEF ShapeOf, Says, Event, GoesUp, GoesDown
<1>3. Len(ev) = 0
  BY <1>1, <1>2
<1>4. Len(new) = 1 /\ new[1] = "up"
  BY <1>3, EventAppended DEF Event
<1> QED
  BY <1>4 DEF ShapeOf, CountedOf, Says, Works, GoesUp, GoesDown

LEMMA SaysDown ==
  ASSUME NEW c \in Members, NEW m \in Members, NEW ev \in Seq(Event), ShapeOf(c, ev),
         ~Says(ev, "hangup"), GoesDown(c, m), NEW new, new = Append(ev, "down")
  PROVE  ShapeOf(m, new) /\ (CountedOf(m, new) <=> CountedOf(c, ev))
<1>1. Len(ev) \in Nat /\ \A k \in 1..Len(ev) : ev[k] \in Event
  BY LenProperties, ElementOfSeq
<1>2. \A k \in 1..Len(ev) : k = 1 /\ ev[k] = "up"
  BY <1>1 DEF ShapeOf, Says, Event, GoesUp, GoesDown
<1>3. Len(ev) = 0 \/ (Len(ev) = 1 /\ ev[1] = "up")
  <2>1. Len(ev) # 0 => Len(ev) \in 1..Len(ev)
    BY <1>1
  <2> QED
    BY <1>2, <2>1
<1>4. /\ Len(new) = Len(ev) + 1 /\ new[Len(ev) + 1] = "down"
      /\ Len(ev) = 1 => new[1] = ev[1]
  BY <1>3, EventAppended DEF Event
<1>5. CASE Len(ev) = 0
  BY <1>4, <1>5 DEF ShapeOf, CountedOf, Says, Works, GoesUp, GoesDown
<1>6. CASE Len(ev) = 1 /\ ev[1] = "up"
  <2>1. Len(new) = 2 /\ new[1] = "up" /\ new[2] = "down"
    BY <1>4, <1>6
  <2>2. \A k \in 1..2 : k = 1 \/ k = 2
    OBVIOUS
  <2>3. "up" # "down" /\ 1 \in 1..2 /\ 2 \in 1..2 /\ 1 \in 1..1
    OBVIOUS
  <2> QED
    BY <1>6, <2>1, <2>2, <2>3 DEF ShapeOf, CountedOf, Says, Works, GoesUp, GoesDown
<1> QED
  BY <1>3, <1>5, <1>6

LEMMA SaysHangup ==
  ASSUME NEW c \in Members, NEW m \in Members, NEW ev \in Seq(Event), ShapeOf(c, ev),
         m.was_authorized = c.was_authorized, Ends(m) <=> Ends(c), Ends(m), ~m.td,
         NEW new, new = Append(ev, "hangup")
  PROVE  ShapeOf(m, new) /\ (CountedOf(m, new) <=> CountedOf(c, ev))
<1>1. /\ Len(ev) \in Nat /\ Len(new) = Len(ev) + 1 /\ new[Len(ev) + 1] = "hangup"
      /\ \A k \in 1..Len(ev) : new[k] = ev[k]
  BY LenProperties, EventAppended DEF Event
<1>2. "hangup" # "up" /\ "hangup" # "down"
  OBVIOUS
<1>3. \A k \in 1..Len(new) : new[k] \in {"up", "down"} => k \in 1..Len(ev) /\ new[k] = ev[k]
  BY <1>1, <1>2
<1>4. \A k \in 1..Len(ev) : k \in 1..Len(new)
  BY <1>1
<1>5. (Says(new, "up") <=> Says(ev, "up")) /\ (Says(new, "down") <=> Says(ev, "down"))
  BY <1>1, <1>3, <1>4 DEF Says
<1>6. \A k \in 1..Len(new) : new[k] = "up" => k = 1 /\ m.was_authorized
  BY <1>3 DEF ShapeOf
<1>7. \A k \in 1..Len(new) : new[k] = "down" =>
        (k = 1 \/ (k = 2 /\ new[1] = "up")) /\ m.was_authorized /\ Ends(m)
  BY <1>1, <1>3 DEF ShapeOf
<1> QED
  BY <1>5, <1>6, <1>7 DEF ShapeOf, CountedOf

(* The clients of a queue that are counted. *)
Counted(q) == {i \in clients : Queue(i) = q /\ IsCounted(i)}

LEMMA CountedIs ==
  ASSUME Types, NEW i \in 1..Len(client)
  PROVE  IsCounted(i) <=> CountedOf(client[i], events[i])
  BY DEF IsCounted, CountedOf, Reported, Says, Ends

(* Only the counts of a queue whose counted clients change have to change. *)
LEMMA SameCounts ==
  ASSUME Manager, ActiveClientsExact, active' = active, \A q \in Queues : Counted(q)' = Counted(q)
  PROVE  ActiveClientsExact'
  BY DEF ActiveClientsExact, Counted

LEMMA ClientCounts ==
  ASSUME IInv, CountInv, NEW i \in Ids, Running(i), NEW m \in Members,
         client' = [client EXCEPT ![i] = m], m.token = client[i].token,
         NEW new \in Seq(Event), events' = [events EXCEPT ![i] = new],
         Manager => ShapeOf(m, new) /\ (CountedOf(m, new) <=> CountedOf(client[i], events[i])),
         UNCHANGED managerVars, asked' \subseteq Ids, close_mail' \subseteq Ids
  PROVE  CountInv'
<1>1. i \in 1..Len(client) /\ client \in Seq(Members) /\ events \in [Ids -> Seq(Event)]
  BY RunningType DEF IInv, Types
<1>2. /\ Len(client') = Len(client) /\ client'[i] = m
      /\ \A j \in 1..Len(client) : j # i => client'[j] = client[j]
  BY <1>1, ClientReplaced
<1>3. events'[i] = new /\ \A j \in 1..Len(client) : j # i => events'[j] = events[j]
  BY <1>1, TypesOfParts DEF IInv
<1>4. UNCHANGED <<clients, active, closing, open_dbs, deadline>>
  BY DEF managerVars
<1>5. Others'
  BY <1>4 DEF CountInv, Others
<1>6. ASSUME Manager PROVE Shapes' /\ ActiveClientsExact'
  <2>1. Shapes /\ ActiveClientsExact
    BY <1>6 DEF CountInv
  <2>2. \A j \in 1..Len(client) : ShapeOf(client'[j], events'[j])
    BY <1>2, <1>3, <1>6, <2>1 DEF Shapes
  <2>3. \A j \in 1..Len(client) :
          CountedOf(client'[j], events'[j]) <=> CountedOf(client[j], events[j])
    BY <1>2, <1>3, <1>6
  <2>4. \A j \in 1..Len(client) : client'[j].token = client[j].token
    BY <1>2
  <2>5. \A j \in 1..Len(client) : IsCounted(j) <=> CountedOf(client[j], events[j])
    BY CountedIs DEF IInv
  <2>6. \A j \in 1..Len(client) : IsCounted(j)' <=> CountedOf(client'[j], events'[j])
    BY DEF IsCounted, CountedOf, Reported, Says, Ends
  <2>7. clients \subseteq 1..Len(client)
    BY DEF IInv, Types
  <2>8. \A q \in Queues : Counted(q)' = Counted(q)
    BY <1>4, <2>3, <2>4, <2>5, <2>6, <2>7 DEF Counted, Queue, Token
  <2> QED
    BY <1>2, <1>4, <1>6, <2>1, <2>2, <2>8, SameCounts DEF Shapes
<1> QED
  BY <1>4, <1>5, <1>6 DEF CountInv, Manager

(* A Client that says nothing, or that it is gone. *)
LEMMA ClientGoesOn ==
  ASSUME IInv, CountInv, NEW i \in Ids, Running(i), NEW m \in Members,
         client' = [client EXCEPT ![i] = m], m.token = client[i].token,
         m.was_authorized = client[i].was_authorized, Ends(client[i]) => Ends(m),
         m.was_authorized /\ Ends(m) => Ends(client[i]),
         Manager => /\ ~m.td => Ends(m)
                    /\ ~m.alive \/ m.erasing \/ m.timer # "off" => ~m.td,
         \/ UNCHANGED events
         \/ Tell(i, "hangup") /\ (Manager => Ends(client[i]) /\ ~m.td),
         UNCHANGED managerVars, asked' \subseteq Ids, close_mail' \subseteq Ids
  PROVE  CountInv'
<1>1. /\ i \in 1..Len(client) /\ client[i] \in Members /\ events[i] \in Seq(Event)
      /\ events \in [Ids -> Seq(Event)]
  BY RunningType DEF IInv, Types
<1>2. Manager => ShapeOf(client[i], events[i])
  BY <1>1 DEF CountInv, Shapes
<1>3. CASE UNCHANGED events
  <2>1. events' = [events EXCEPT ![i] = events[i]]
    BY <1>1, <1>3
  <2>2. Manager => ShapeOf(m, events[i]) /\ (CountedOf(m, events[i]) <=> CountedOf(client[i], events[i]))
    BY <1>1, <1>2, SaysNothing
  <2> QED
    BY <1>1, <2>1, <2>2, ClientCounts
<1>4. CASE Tell(i, "hangup") /\ (Manager => Ends(client[i]) /\ ~m.td)
  <2>1. PICK new : new = Append(events[i], "hangup")
    OBVIOUS
  <2>2. new \in Seq(Event)
    BY <1>1, <2>1, EventAppended DEF Event
  <2>3. events' = [events EXCEPT ![i] = new]
    BY <1>4, <2>1 DEF Tell
  <2>4. Manager => ShapeOf(m, new) /\ (CountedOf(m, new) <=> CountedOf(client[i], events[i]))
    BY <1>1, <1>2, <1>4, <2>1, SaysHangup
  <2> QED
    BY <2>2, <2>3, <2>4, ClientCounts
<1> QED
  BY <1>3, <1>4

LEMMA RunningShape ==
  ASSUME IInv, CountInv, NEW i \in Ids, Running(i)
  PROVE  /\ i \in 1..Len(client) /\ client[i] \in Members /\ client[i].alive
         /\ events[i] \in Seq(Event) /\ ~Says(events[i], "hangup")
         /\ asked \subseteq Ids /\ close_mail \subseteq Ids
         /\ Manager => /\ ShapeOf(client[i], events[i])
                       /\ ~client[i].td => Ends(client[i])
                       /\ client[i].erasing \/ client[i].timer # "off" => ~client[i].td
<1>1. i \in 1..Len(client) /\ client[i] \in Members /\ client[i].alive /\ events[i] \in Seq(Event)
  BY RunningType DEF IInv, Types
<1>2. ~Says(events[i], "hangup")
  BY <1>1 DEF IInv, AliveListed, Reported, Says
<1>3. Manager => ShapeOf(client[i], events[i])
  BY <1>1 DEF CountInv, Shapes
<1> QED
  BY <1>1, <1>2, <1>3 DEF ShapeOf, CountInv, Others

(* A Client that says that it is up or down. *)
LEMMA SaysChange ==
  ASSUME IInv, CountInv, NEW i \in Ids, Running(i), Manager, NEW m \in Members, NEW new,
         \/ GoesUp(client[i], m) /\ new = Append(events[i], "up")
         \/ GoesDown(client[i], m) /\ new = Append(events[i], "down")
  PROVE  ShapeOf(m, new) /\ (CountedOf(m, new) <=> CountedOf(client[i], events[i]))
<1>1. /\ client[i] \in Members /\ events[i] \in Seq(Event) /\ ~Says(events[i], "hangup")
      /\ ShapeOf(client[i], events[i])
  BY RunningShape
<1> QED
  BY <1>1, SaysUp, SaysDown

LEMMA ClientSays ==
  ASSUME IInv, CountInv, NEW i \in Ids, Running(i), NEW m \in Members,
         client' = [client EXCEPT ![i] = m], m.token = client[i].token,
         \/ Tell(i, "up") /\ (Manager => GoesUp(client[i], m))
         \/ Tell(i, "down") /\ (Manager => GoesDown(client[i], m)),
         UNCHANGED managerVars, asked' \subseteq Ids, close_mail' \subseteq Ids
  PROVE  CountInv'
<1>1. /\ client[i] \in Members /\ events[i] \in Seq(Event) /\ ~Says(events[i], "hangup")
      /\ Manager => ShapeOf(client[i], events[i])
  BY RunningShape
<1>2. CASE Tell(i, "up") /\ (Manager => GoesUp(client[i], m))
  <2>1. PICK new : new = Append(events[i], "up")
    OBVIOUS
  <2>2. new \in Seq(Event) /\ events' = [events EXCEPT ![i] = new]
    BY <1>1, <1>2, <2>1, EventAppended DEF Event, Tell
  <2>3. Manager => ShapeOf(m, new) /\ (CountedOf(m, new) <=> CountedOf(client[i], events[i]))
    BY <1>2, <2>1, SaysChange
  <2> QED
    BY <2>2, <2>3, ClientCounts
<1>3. CASE Tell(i, "down") /\ (Manager => GoesDown(client[i], m))
  <2>1. PICK new : new = Append(events[i], "down")
    OBVIOUS
  <2>2. new \in Seq(Event) /\ events' = [events EXCEPT ![i] = new]
    BY <1>1, <1>3, <2>1, EventAppended DEF Event, Tell
  <2>3. Manager => ShapeOf(m, new) /\ (CountedOf(m, new) <=> CountedOf(client[i], events[i]))
    BY <1>3, <2>1, SaysChange
  <2> QED
    BY <2>2, <2>3, ClientCounts
<1> QED
  BY <1>2, <1>3

LEMMA FinishClosingCounts ==
  ASSUME IInv, CountInv, NEW i \in Ids, Running(i), NEW c \in Members, c.token = client[i].token,
         c.was_authorized = client[i].was_authorized, Ends(c) <=> Ends(client[i]),
         Manager => ~c.td /\ Ends(c), FinishClosing(i, c),
         UNCHANGED <<asked, close_mail, managerVars>>
  PROVE  CountInv'
<1>0. asked' \subseteq Ids /\ close_mail' \subseteq Ids
  BY RunningShape
<1>1. CASE c.need_close
  <2>1. PICK m : m = [c EXCEPT !.alive = FALSE, !.timer = "off"]
    OBVIOUS
  <2>2. /\ m \in Members /\ m.token = c.token /\ m.was_authorized = c.was_authorized
        /\ (Ends(m) <=> Ends(c)) /\ m.td = c.td
    BY <2>1 DEF Members, Ends
  <2>3. client' = [client EXCEPT ![i] = m] /\ Tell(i, "hangup")
    BY <1>1, <2>1 DEF FinishClosing
  <2> QED
    BY <1>0, <2>2, <2>3, ClientGoesOn
<1>2. CASE ~c.need_close
  <2>1. PICK m : m = [c EXCEPT !.timer = "later"]
    OBVIOUS
  <2>2. /\ m \in Members /\ m.token = c.token /\ m.was_authorized = c.was_authorized
        /\ (Ends(m) <=> Ends(c)) /\ m.td = c.td
    BY <2>1 DEF Members, Ends
  <2>3. client' = [client EXCEPT ![i] = m] /\ UNCHANGED events
    BY <1>2, <2>1 DEF FinishClosing
  <2> QED
    BY <1>0, <2>2, <2>3, ClientGoesOn
<1> QED
  BY <1>1, <1>2

LEMMA ClientStepsCount ==
  ASSUME IInv, CountInv, NEW i \in Ids,
         \/ OnReady(i) \/ OnLoggingOut(i) \/ OnClosing(i) \/ on_closed(i)
         \/ finish_closing(i) \/ ClientTimeout(i) \/ on_cmd(i)
  PROVE  CountInv'
<1>0. Running(i)
  BY DEF OnReady, OnLoggingOut, OnClosing, on_closed, finish_closing, ClientTimeout, on_cmd, HasTd
<1>1. PICK c \in Members : c = client[i]
  BY <1>0, RunningShape
<1>2. /\ asked \subseteq Ids /\ close_mail \subseteq Ids /\ c.alive
      /\ Manager => /\ ~c.td => Ends(c)
                    /\ c.erasing \/ c.timer # "off" => ~c.td
  BY <1>0, <1>1, RunningShape
<1>3. CASE OnReady(i)
  <2>1. PICK m : m = [c EXCEPT !.was_authorized = TRUE]
    OBVIOUS
  <2>2. c.td /\ ~c.was_authorized /\ ~c.closing /\ ~c.logging_out
    BY <1>1, <1>3 DEF OnReady, HasTd
  <2>3. m \in Members /\ m.token = c.token /\ (Manager => GoesUp(c, m))
    BY <1>2, <2>1, <2>2 DEF Members, GoesUp, Works, Ends
  <2>4. /\ client' = [client EXCEPT ![i] = m] /\ Tell(i, "up")
        /\ UNCHANGED <<asked, close_mail, managerVars>>
    BY <1>1, <1>3, <2>1 DEF OnReady
  <2> QED
    BY <1>0, <1>1, <1>2, <2>3, <2>4, ClientSays
<1>4. CASE OnLoggingOut(i)
  <2>1. PICK m : m = [c EXCEPT !.logging_out = TRUE]
    OBVIOUS
  <2>2. c.td /\ ~c.closing /\ ~c.logging_out
    BY <1>1, <1>4 DEF OnLoggingOut, HasTd
  <2>3. /\ m \in Members /\ m.token = c.token /\ m.was_authorized = c.was_authorized
        /\ Ends(m) /\ m.td /\ m.alive /\ m.erasing = c.erasing /\ m.timer = c.timer /\ ~Ends(c)
    BY <1>2, <2>1, <2>2 DEF Members, Ends
  <2>4. /\ client' = [client EXCEPT ![i] = m] /\ UNCHANGED <<asked, close_mail, managerVars>>
        /\ IF c.was_authorized THEN Tell(i, "down") ELSE UNCHANGED events
    BY <1>1, <1>4, <2>1 DEF OnLoggingOut
  <2>5. CASE c.was_authorized
    <3>1. Manager => GoesDown(c, m)
      BY <1>2, <2>2, <2>3, <2>5 DEF GoesDown, Works
    <3> QED
      BY <1>0, <1>1, <1>2, <2>3, <2>4, <2>5, <3>1, ClientSays
  <2>6. CASE ~c.was_authorized
    BY <1>0, <1>1, <1>2, <2>2, <2>3, <2>4, <2>6, ClientGoesOn
  <2> QED
    BY <2>5, <2>6
<1>5. CASE OnClosing(i)
  <2>1. PICK m : m = [c EXCEPT !.closing = TRUE]
    OBVIOUS
  <2>2. c.td /\ ~c.closing
    BY <1>1, <1>5 DEF OnClosing, HasTd
  <2>3. /\ m \in Members /\ m.token = c.token /\ m.was_authorized = c.was_authorized
        /\ Ends(m) /\ m.td /\ m.alive /\ m.erasing = c.erasing /\ m.timer = c.timer
        /\ Ends(c) <=> c.logging_out
    BY <1>2, <2>1, <2>2 DEF Members, Ends
  <2>4. /\ client' = [client EXCEPT ![i] = m] /\ UNCHANGED <<asked, close_mail, managerVars>>
        /\ IF c.was_authorized /\ ~c.logging_out THEN Tell(i, "down") ELSE UNCHANGED events
    BY <1>1, <1>5, <2>1 DEF OnClosing, ReportClosing
  <2>5. CASE c.was_authorized /\ ~c.logging_out
    <3>1. Manager => GoesDown(c, m)
      BY <1>2, <2>2, <2>3, <2>5 DEF GoesDown, Works
    <3> QED
      BY <1>0, <1>1, <1>2, <2>3, <2>4, <2>5, <3>1, ClientSays
  <2>6. CASE ~c.was_authorized \/ c.logging_out
    BY <1>0, <1>1, <1>2, <2>2, <2>3, <2>4, <2>6, ClientGoesOn
  <2> QED
    BY <2>5, <2>6
<1>6. CASE on_closed(i)
  <2>1. PICK d : d = [c EXCEPT !.td = FALSE]
    OBVIOUS
  <2>2. PICK m : m = [d EXCEPT !.erasing = TRUE]
    OBVIOUS
  <2>3. c.td /\ Ends(c)
    BY <1>1, <1>6 DEF on_closed, HasTd, Ends
  <2>4. /\ d \in Members /\ d.token = c.token /\ d.was_authorized = c.was_authorized
        /\ (Ends(d) <=> Ends(c)) /\ ~d.td /\ d.erasing = c.erasing
    BY <2>1 DEF Members, Ends
  <2>5. /\ m \in Members /\ m.token = d.token /\ m.was_authorized = d.was_authorized
        /\ (Ends(m) <=> Ends(d)) /\ ~m.td
    BY <2>2, <2>4 DEF Members, Ends
  <2>6. /\ \/ client' = [client EXCEPT ![i] = m] /\ UNCHANGED events
           \/ FinishClosing(i, d)
        /\ UNCHANGED <<asked, close_mail, managerVars>>
    BY <1>1, <1>6, <2>1, <2>2 DEF on_closed
  <2>7. CASE client' = [client EXCEPT ![i] = m] /\ UNCHANGED events
    BY <1>0, <1>1, <1>2, <2>3, <2>4, <2>5, <2>6, <2>7, ClientGoesOn
  <2>8. CASE FinishClosing(i, d)
    BY <1>0, <1>1, <1>2, <2>3, <2>4, <2>6, <2>8, FinishClosingCounts
  <2> QED
    BY <2>6, <2>7, <2>8
<1>7. CASE finish_closing(i)
  <2>1. PICK d : d = [c EXCEPT !.erasing = FALSE]
    OBVIOUS
  <2>2. c.erasing
    BY <1>1, <1>7 DEF finish_closing
  <2>3. /\ d \in Members /\ d.token = c.token /\ d.was_authorized = c.was_authorized
        /\ (Ends(d) <=> Ends(c)) /\ d.td = c.td /\ ~d.erasing
    BY <2>1 DEF Members, Ends
  <2>4. FinishClosing(i, d) /\ UNCHANGED <<asked, close_mail, managerVars>>
    BY <1>1, <1>7, <2>1 DEF finish_closing
  <2> QED
    BY <1>0, <1>1, <1>2, <2>2, <2>3, <2>4, FinishClosingCounts
<1>8. CASE ClientTimeout(i)
  <2>1. PICK m : m = [c EXCEPT !.alive = FALSE, !.timer = "off"]
    OBVIOUS
  <2>2. c.timer # "off"
    BY <1>1, <1>8 DEF ClientTimeout
  <2>3. /\ m \in Members /\ m.token = c.token /\ m.was_authorized = c.was_authorized
        /\ (Ends(m) <=> Ends(c)) /\ m.td = c.td /\ m.erasing = c.erasing
    BY <2>1 DEF Members, Ends
  <2>4. client \in Seq(Members) /\ i \in DOMAIN client
    BY <1>0, RunningType, LenProperties DEF IInv, Types
  <2>5. client' = [client EXCEPT ![i].alive = FALSE, ![i].timer = "off"]
    BY <1>8 DEF ClientTimeout, StopClient
  <2>6. client' = [client EXCEPT ![i] = m]
    BY <1>1, <2>1, <2>4, <2>5
  <2>7. Tell(i, "hangup") /\ UNCHANGED <<asked, close_mail, managerVars>>
    BY <1>8 DEF ClientTimeout, StopClient
  <2> QED
    BY <1>0, <1>1, <1>2, <2>2, <2>3, <2>6, <2>7, ClientGoesOn
<1>9. CASE on_cmd(i)
  <2>1. PICK m : m = [c EXCEPT !.need_close = TRUE]
    OBVIOUS
  <2>2. /\ m \in Members /\ m.token = c.token /\ m.was_authorized = c.was_authorized
        /\ (Ends(m) <=> Ends(c)) /\ m.td = c.td /\ m.alive /\ m.erasing = c.erasing
        /\ m.timer = c.timer
    BY <1>2, <2>1 DEF Members, Ends
  <2>3. /\ client' = [client EXCEPT ![i] = m] /\ asked' = asked \cup {i}
        /\ UNCHANGED <<events, close_mail, managerVars>>
    BY <1>1, <1>9, <2>1 DEF on_cmd
  <2> QED
    BY <1>0, <1>1, <1>2, <2>2, <2>3, ClientGoesOn
<1> QED
  BY <1>3, <1>4, <1>5, <1>6, <1>7, <1>8, <1>9

LEMMA CloseClientCounts ==
  ASSUME IInv, CountInv, NEW i \in Ids, CloseClient(i)
  PROVE  CountInv'
<1>1. close_mail' \subseteq Ids /\ UNCHANGED <<events, managerVars>>
  BY DEF CountInv, Others, CloseClient
<1>2. CASE Running(i)
  <2>1. PICK c \in Members : c = client[i]
    BY <1>2, RunningShape
  <2>2. /\ asked \subseteq Ids /\ c.alive
        /\ Manager => /\ ~c.td => Ends(c)
                      /\ c.erasing \/ c.timer # "off" => ~c.td
    BY <1>2, <2>1, RunningShape
  <2>3. PICK m : m = Closed(c)
    OBVIOUS
  <2>4. /\ m \in Members /\ m.token = c.token /\ m.was_authorized = c.was_authorized
        /\ (Ends(m) <=> Ends(c)) /\ m.td = c.td /\ m.alive /\ m.erasing = c.erasing
        /\ m.timer = IF c.td THEN c.timer ELSE "now"
    BY <2>2, <2>3 DEF Closed, Members, Ends
  <2>5. client' = [client EXCEPT ![i] = m] /\ asked' \subseteq Ids
    BY <1>2, <2>1, <2>2, <2>3 DEF CloseClient
  <2> QED
    BY <1>1, <1>2, <2>1, <2>2, <2>4, <2>5, ClientGoesOn
<1>3. CASE ~Running(i)
  <2>1. UNCHANGED <<client, asked>>
    BY <1>3 DEF CloseClient, clientVars
  <2> QED
    BY <1>1, <2>1 DEF CountInv, Others, Shapes, ActiveClientsExact, Manager, managerVars, Queue,
                      Token, IsCounted, Reported
<1> QED
  BY <1>2, <1>3

(* A step that leaves clients, events and counts alone. *)
LEMMA CountsUnchanged ==
  ASSUME CountInv, UNCHANGED <<client, events, clients, active>>,
         closing.finished => closing'.finished,
         asked' \subseteq Ids, close_mail' \subseteq Ids, open_dbs' \subseteq Databases,
         deadline' \in BOOLEAN
  PROVE  CountInv'
<1>1. Others'
  BY DEF CountInv, Others
<1>2. Manager' => Manager
  BY DEF Manager
<1>3. Manager => Shapes' /\ ActiveClientsExact'
  BY DEF CountInv, Shapes, ActiveClientsExact, Manager, Queue, Token, IsCounted, Reported
<1> QED
  BY <1>1, <1>2, <1>3 DEF CountInv

LEMMA CountedFinite ==
  ASSUME IInv, NEW q
  PROVE  IsFiniteSet(Counted(q)) /\ Counted(q) \subseteq 1..Len(client)
<1>1. clients \subseteq 1..Len(client) /\ Len(client) \in Nat
  BY TypesOfParts DEF IInv, Types
<1>2. IsFiniteSet(1..Len(client))
  BY <1>1, FS_Interval
<1>3. Counted(q) \subseteq 1..Len(client)
  BY <1>1 DEF Counted
<1> QED
  BY <1>2, <1>3, FS_Subset

(* A new client is not counted. *)
LEMMA SendCounts ==
  ASSUME IInv, CountInv, NEW t \in Bots, send(t)
  PROVE  CountInv'
<1>0. PICK n : n = Len(client) + 1
  OBVIOUS
<1>1. client \in Seq(Members) /\ Len(client) \in Nat /\ Len(client) < MaxClients
  BY TypesOfParts DEF IInv, Types, send
<1>2. PICK m : m = NewClient(t)
  OBVIOUS
<1>3. /\ m \in Members /\ ~m.was_authorized /\ m.alive /\ ~m.erasing
      /\ ~m.td => Ends(m)
      /\ m.timer # "off" => ~m.td
  <2>1. m \in Members
    BY <1>2 DEF NewClient, Members
  <2>2. CASE t \in BadTokens
    BY <1>2, <2>1, <2>2 DEF NewClient, Ends
  <2>3. CASE t \notin BadTokens
    BY <1>2, <2>1, <2>3 DEF NewClient, Ends
  <2> QED
    BY <2>1, <2>2, <2>3
<1>4. /\ UNCHANGED <<asked, close_mail, events, active, closing, open_dbs, deadline>>
      /\ client' = Append(client, m) /\ clients' = clients \cup {n} /\ Manager
  BY <1>0, <1>2 DEF send
<1>5. /\ Len(client') = n /\ client'[n] = m
      /\ \A j \in 1..Len(client) : client'[j] = client[j]
  BY <1>0, <1>1, <1>3, <1>4, AppendProperties
<1>6. n \in Ids /\ Len(events[n]) = 0
  BY <1>0, <1>1, BoundsType DEF IInv, NothingBefore
<1>7. 1..n = (1..Len(client)) \cup {n}
  BY <1>0, <1>1
<1>8. Shapes /\ ActiveClientsExact /\ Others
  BY <1>4 DEF CountInv
<1>9. Shapes'
  <2>1. \A k \in 1..0 : FALSE
    OBVIOUS
  <2>2. ShapeOf(m, events[n])
    BY <1>3, <1>6, <2>1 DEF ShapeOf, Says
  <2> QED
    BY <1>4, <1>5, <1>7, <1>8, <2>2 DEF Shapes
<1>10. ASSUME NEW q \in Queues PROVE Counted(q)' = Counted(q)
  <2>1. clients \subseteq 1..Len(client) /\ n \notin clients
    BY <1>0, <1>1 DEF IInv, Types
  <2>2. \A j \in clients : (IsCounted(j)' <=> IsCounted(j)) /\ Queue(j)' = Queue(j)
    BY <1>4, <1>5, <2>1 DEF IsCounted, Reported, Queue, Token
  <2>3. ~IsCounted(n)'
    BY <1>3, <1>5 DEF IsCounted
  <2> QED
    BY <1>4, <2>1, <2>2, <2>3 DEF Counted
<1>11. ActiveClientsExact'
  BY <1>4, <1>8, <1>10, SameCounts
<1>12. Others'
  BY <1>4, <1>8 DEF Others
<1> QED
  BY <1>9, <1>11, <1>12 DEF CountInv

(* raw_event: the first event of a client makes it counted, or no longer. *)
LEMMA EventChanges ==
  ASSUME NEW c \in Members, NEW ev \in Seq(Event), ev # <<>>, ShapeOf(c, ev)
  PROVE  /\ ShapeOf(c, Tail(ev))
         /\ ev[1] = "up" => ~CountedOf(c, ev) /\ CountedOf(c, Tail(ev))
         /\ ev[1] = "down" => CountedOf(c, ev) /\ ~CountedOf(c, Tail(ev))
         /\ ev[1] = "hangup" /\ Len(ev) = 1 /\ Ends(c) => ~CountedOf(c, ev)
<1>1. /\ Len(ev) \in Nat \ {0} /\ Len(Tail(ev)) = Len(ev) - 1
      /\ \A k \in 1..(Len(ev) - 1) : Tail(ev)[k] = ev[k + 1]
  BY EventTaken
<1>2. PICK new : new = Tail(ev)
  OBVIOUS
<1>0. Len(new) = Len(ev) - 1 /\ Len(ev) - 1 \in Nat
  BY <1>1, <1>2
<1>3. PICK n \in Nat : n = Len(new)
  BY <1>0
<1>4. /\ Len(ev) = n + 1
      /\ \A k \in 1..n : k + 1 \in 1..(n + 1) /\ new[k] = ev[k + 1]
      /\ \A k \in 1..(n + 1) : k # 1 => k - 1 \in 1..n /\ new[k - 1] = ev[k]
      /\ 1 \in 1..(n + 1)
  BY <1>1, <1>2, <1>3
<1>5. \A k \in 1..n : new[k] # "up"
  <2> SUFFICES ASSUME NEW k \in 1..n, new[k] = "up" PROVE FALSE
    OBVIOUS
  <2>1. k + 1 \in 1..Len(ev) /\ ev[k + 1] = "up"
    BY <1>4
  <2>2. k + 1 = 1
    BY <2>1 DEF ShapeOf
  <2> QED
    BY <2>2
<1>6. ASSUME NEW k \in 1..n, new[k] = "down"
      PROVE  k = 1 /\ ev[1] = "up" /\ c.was_authorized /\ Ends(c)
  <2>1. k + 1 \in 1..Len(ev) /\ ev[k + 1] = "down"
    BY <1>4, <1>6
  <2>2. k + 1 = 1 \/ (k + 1 = 2 /\ ev[1] = "up")
    BY <2>1 DEF ShapeOf
  <2> QED
    BY <2>1, <2>2 DEF ShapeOf
<1>7. Says(new, "down") /\ ev[1] # "down" <=> Says(ev, "down") /\ ev[1] # "down"
  <2>1. ASSUME Says(new, "down") PROVE Says(ev, "down")
    BY <1>3, <1>4, <2>1 DEF Says
  <2>2. ASSUME Says(ev, "down"), ev[1] # "down" PROVE Says(new, "down")
    <3>1. PICK k \in 1..(n + 1) : ev[k] = "down"
      BY <1>4, <2>2 DEF Says
    <3>2. k # 1
      BY <2>2, <3>1
    <3>3. k - 1 \in 1..n /\ new[k - 1] = "down"
      BY <1>4, <3>1, <3>2
    <3> QED
      BY <1>3, <3>3 DEF Says
  <2> QED
    BY <2>1, <2>2
<1>8. ~Says(new, "up")
  BY <1>3, <1>5 DEF Says
<1>9. ev[1] = "down" => ~Says(new, "down")
  BY <1>3, <1>6 DEF Says
<1>10. ShapeOf(c, new)
  BY <1>3, <1>5, <1>6, <1>8 DEF ShapeOf
<1>11. /\ ev[1] = "up" => c.was_authorized /\ Says(ev, "up")
       /\ ev[1] = "down" => c.was_authorized /\ Ends(c) /\ Says(ev, "down") /\ ~Says(ev, "up")
  BY <1>4 DEF ShapeOf, Says
<1>12. ev[1] = "up" => (Ends(c) => Says(new, "down"))
  BY <1>7, <1>11 DEF ShapeOf
<1>13. ev[1] = "hangup" /\ Len(ev) = 1 => ~Says(ev, "down")
  BY DEF Says
<1> QED
  BY <1>2, <1>8, <1>9, <1>10, <1>11, <1>12, <1>13 DEF CountedOf

(* What taking an event changes for every client. *)
LEMMA EventEffect ==
  ASSUME IInv, CountInv, NEW i \in Ids, NEW e \in Event, TakeEvent(i, e), client' = client
  PROVE  /\ Shapes'
         /\ i \in clients /\ i \in 1..Len(client)
         /\ \A j \in 1..Len(client) : j # i => (IsCounted(j)' <=> IsCounted(j))
         /\ e = "up" => ~IsCounted(i) /\ IsCounted(i)'
         /\ e = "down" => IsCounted(i) /\ ~IsCounted(i)'
         /\ e = "hangup" => ~IsCounted(i)
<1>1. /\ i \in clients /\ i \in 1..Len(client) /\ events[i] \in Seq(Event)
      /\ \A j \in Ids : j # i => events'[j] = events[j]
      /\ events'[i] = Tail(events[i]) /\ events[i][1] = e
      /\ Manager /\ events[i] # <<>>
  BY EventOfClient DEF TakeEvent, IInv, Types
<1>2. \A j \in 1..Len(client) : j \in Ids /\ client[j] \in Members
  BY TypesOfParts DEF IInv
<1>3. Shapes
  BY <1>1 DEF CountInv
<1>4. ShapeOf(client[i], events[i])
  BY <1>1, <1>3 DEF Shapes
<1>5. PICK c \in Members : c = client[i]
  BY <1>1, <1>2
<1>6. PICK ev \in Seq(Event) : ev = events[i]
  BY <1>1
<1>7. /\ ShapeOf(c, Tail(ev))
      /\ ev[1] = "up" => ~CountedOf(c, ev) /\ CountedOf(c, Tail(ev))
      /\ ev[1] = "down" => CountedOf(c, ev) /\ ~CountedOf(c, Tail(ev))
      /\ ev[1] = "hangup" /\ Len(ev) = 1 /\ Ends(c) => ~CountedOf(c, ev)
  <2>1. ev # <<>> /\ ShapeOf(c, ev)
    BY <1>1, <1>4, <1>5, <1>6
  <2> QED
    BY <2>1, EventChanges
<1>8. \A j \in 1..Len(client) : IsCounted(j) <=> CountedOf(client[j], events[j])
  BY CountedIs DEF IInv
<1>9. \A j \in 1..Len(client) : IsCounted(j)' <=> CountedOf(client'[j], events'[j])
  BY DEF IsCounted, CountedOf, Reported, Says, Ends
<1>10. Shapes'
  <2>1. \A j \in 1..Len(client) : ShapeOf(client'[j], events'[j])
    BY <1>1, <1>2, <1>3, <1>5, <1>6, <1>7 DEF Shapes
  <2> QED
    BY <2>1 DEF Shapes
<1>11. \A j \in 1..Len(client) : j # i => (IsCounted(j)' <=> IsCounted(j))
  BY <1>1, <1>2, <1>8, <1>9
<1>12. client'[i] = c /\ events'[i] = Tail(ev) /\ client[i] = c /\ events[i] = ev
  BY <1>1, <1>5, <1>6
<1>13. (IsCounted(i) <=> CountedOf(c, ev)) /\ (IsCounted(i)' <=> CountedOf(c, Tail(ev)))
  BY <1>1, <1>8, <1>9, <1>12
<1>14. (e = "up" => ~IsCounted(i) /\ IsCounted(i)') /\ (e = "down" => IsCounted(i) /\ ~IsCounted(i)')
  BY <1>1, <1>6, <1>7, <1>13
<1>15. e = "hangup" => ~IsCounted(i)
  <2> SUFFICES ASSUME e = "hangup" PROVE ~IsCounted(i)
    OBVIOUS
  <2>1. Len(ev) = 1
    <3>1. Len(ev) \in Nat \ {0}
      BY <1>1, <1>6, EventTaken
    <3>2. 1 \in 1..Len(ev)
      BY <3>1
    <3> QED
      BY <1>1, <1>6, <3>2 DEF IInv, HangupIsLast
  <2>2. ~c.alive
    <3>1. Reported(i, "hangup")
      BY <1>1, <1>6, <2>1 DEF Reported
    <3> QED
      BY <1>1, <1>5, <3>1 DEF IInv, AliveListed
  <2>3. Ends(c)
    BY <1>4, <1>5, <2>2 DEF ShapeOf
  <2> QED
    BY <1>1, <1>6, <1>7, <1>13, <2>1, <2>3
<1> QED
  BY <1>1, <1>10, <1>11, <1>14, <1>15

LEMMA RawEventCounts ==
  ASSUME IInv, CountInv, NEW i \in Ids, raw_event(i)
  PROVE  CountInv'
<1>1. PICK e \in {"up", "down"} :
        /\ TakeEvent(i, e)
        /\ active' = [active EXCEPT ![Queue(i)] = IF e = "up" THEN @ + 1 ELSE @ - 1]
  BY DEF raw_event
<1>2. /\ UNCHANGED <<client, asked, close_mail, clients, closing, open_dbs, deadline>>
      /\ Manager /\ e \in Event
  BY <1>1 DEF raw_event, clientVars, TakeEvent, Event
<1>3. /\ Shapes' /\ i \in clients /\ i \in 1..Len(client)
      /\ \A j \in 1..Len(client) : j # i => (IsCounted(j)' <=> IsCounted(j))
      /\ e = "up" => ~IsCounted(i) /\ IsCounted(i)'
      /\ e = "down" => IsCounted(i) /\ ~IsCounted(i)'
  BY <1>1, <1>2, EventEffect
<1>4. PICK p : p = Queue(i)
  OBVIOUS
<1>5. p \in Queues
  <2>1. client[i] \in Members
    BY <1>3, TypesOfParts DEF IInv
  <2>2. client[i].token \in Bots
    BY <2>1 DEF Members
  <2> QED
    BY <1>4, <2>2 DEF Queues, Queue, Token
<1>6. Others /\ ActiveClientsExact
  BY <1>2 DEF CountInv
<1>7. /\ active \in [Queues -> Nat]
      /\ \A q \in Queues : active[q] = Cardinality(Counted(q))
  BY <1>2, <1>6 DEF Others, ActiveClientsExact, Counted
<1>8. \A j : Queue(j)' = Queue(j)
  BY <1>2 DEF Queue, Token
<1>9. clients \subseteq 1..Len(client)
  BY DEF IInv, Types
<1>10. \A q \in Queues : q # p => Counted(q)' = Counted(q)
  BY <1>2, <1>3, <1>4, <1>8, <1>9 DEF Counted
<1>11. IsFiniteSet(Counted(p))
  BY CountedFinite
<1>12. /\ active'[p] = Cardinality(Counted(p)') /\ active'[p] \in Nat
       /\ \A q \in Queues : q # p => active'[q] = active[q]
       /\ active' \in [Queues -> Nat]
  <2>1. CASE e = "up"
    <3>1. Counted(p)' = Counted(p) \cup {i} /\ i \notin Counted(p)
      BY <1>2, <1>3, <1>4, <1>8, <1>9, <2>1 DEF Counted
    <3>2. Cardinality(Counted(p)') = Cardinality(Counted(p)) + 1
      BY <1>11, <3>1, FS_AddElement
    <3>3. active' = [active EXCEPT ![p] = active[p] + 1]
      BY <1>1, <1>4, <2>1
    <3> QED
      BY <1>5, <1>7, <3>2, <3>3
  <2>2. CASE e = "down"
    <3>1. Counted(p)' = Counted(p) \ {i} /\ i \in Counted(p)
      BY <1>2, <1>3, <1>4, <1>8, <1>9, <2>2 DEF Counted
    <3>2. Cardinality(Counted(p)') = Cardinality(Counted(p)) - 1
      BY <1>11, <3>1, FS_RemoveElement
    <3>3. active' = [active EXCEPT ![p] = active[p] - 1]
      BY <1>1, <1>4, <2>2
    <3>4. Cardinality(Counted(p)') \in Nat
      <4>1. IsFiniteSet(Counted(p)')
        BY <1>11, <3>1, FS_RemoveElement
      <4> QED
        BY <4>1, FS_CardinalityType
    <3>5. active[p] - 1 \in Nat
      BY <1>5, <1>7, <3>2, <3>4
    <3> QED
      BY <1>5, <1>7, <3>2, <3>3, <3>5
  <2> QED
    BY <1>1, <2>1, <2>2
<1>13. \A q \in Queues : active'[q] = Cardinality(Counted(q)')
  BY <1>7, <1>10, <1>12
<1>14. ActiveClientsExact'
  BY <1>13 DEF ActiveClientsExact, Counted
<1>15. Others'
  BY <1>2, <1>6, <1>12 DEF Others
<1> QED
  BY <1>3, <1>14, <1>15 DEF CountInv

LEMMA HangupCounts ==
  ASSUME IInv, CountInv, NEW i \in Ids, hangup_shared(i)
  PROVE  CountInv'
<1>1. TakeEvent(i, "hangup") /\ Manager /\ "hangup" \in Event
  BY DEF hangup_shared, TakeEvent, Event
<1>2. /\ UNCHANGED <<client, asked, close_mail, active, open_dbs, deadline>>
      /\ clients' = clients \ {i}
  BY DEF hangup_shared, clientVars
<1>3. /\ Shapes' /\ i \in clients /\ i \in 1..Len(client)
      /\ \A j \in 1..Len(client) : j # i => (IsCounted(j)' <=> IsCounted(j))
      /\ ~IsCounted(i)
  BY <1>1, <1>2, EventEffect
<1>4. \A j : Queue(j)' = Queue(j)
  BY <1>2 DEF Queue, Token
<1>5. clients \subseteq 1..Len(client)
  BY DEF IInv, Types
<1>6. \A q \in Queues : Counted(q)' = Counted(q)
  BY <1>2, <1>3, <1>4, <1>5 DEF Counted
<1>7. Others /\ ActiveClientsExact
  BY <1>1 DEF CountInv
<1>8. ActiveClientsExact'
  BY <1>1, <1>2, <1>6, <1>7, SameCounts
<1>9. Others'
  BY <1>2, <1>7 DEF Others
<1> QED
  BY <1>3, <1>8, <1>9 DEF CountInv

(* Once ClientManager has finished, nothing is counted any more. *)
LEMMA FinishCounts ==
  ASSUME IInv, CountInv, DatabasesClosed \/ timeout_expired
  PROVE  CountInv'
<1>1. /\ UNCHANGED <<asked, close_mail, active, open_dbs>>
      /\ deadline' = deadline \/ deadline' = TRUE
      /\ closing' = [closing EXCEPT !.finished = TRUE]
  BY DEF DatabasesClosed, timeout_expired, finish_close
<1>2. Others
  BY DEF CountInv
<1>3. ~Manager'
  BY <1>1 DEF Manager, IInv, Types
<1>4. Others'
  BY <1>1, <1>2 DEF Others
<1> QED
  BY <1>3, <1>4 DEF CountInv

LEMMA InitCounts == Init => CountInv
<1> SUFFICES ASSUME Init PROVE CountInv
  OBVIOUS
<1>1. Others
  BY DEF Init, Others, Databases
<1>2. Shapes
  <2>1. Len(client) = 0 /\ \A k \in 1..0 : FALSE
    BY DEF Init
  <2> QED
    BY <2>1 DEF Shapes
<1>3. ActiveClientsExact
  <2> SUFFICES ASSUME NEW q \in Queues PROVE active[q] = Cardinality(Counted(q))
    BY DEF ActiveClientsExact, Counted
  <2>1. active[q] = 0 /\ Counted(q) = {}
    BY DEF Init, Counted
  <2> QED
    BY <2>1, FS_EmptySet
<1> QED
  BY <1>1, <1>2, <1>3 DEF CountInv

LEMMA StepCounts == IInv /\ CountInv /\ [Next]_vars => CountInv'
<1> SUFFICES ASSUME IInv, CountInv, [Next]_vars PROVE CountInv'
  OBVIOUS
<1>0. /\ asked \subseteq Ids /\ close_mail \subseteq Ids
      /\ open_dbs \subseteq Databases /\ deadline \in BOOLEAN
  BY DEF CountInv, Others
<1>1. ASSUME NEW i \in Ids,
             \/ OnReady(i) \/ OnLoggingOut(i) \/ OnClosing(i) \/ on_closed(i)
             \/ finish_closing(i) \/ ClientTimeout(i) \/ on_cmd(i) \/ CloseClient(i)
      PROVE  CountInv'
  BY <1>1, ClientStepsCount, CloseClientCounts
<1>2. ASSUME NEW t \in Bots, send(t) PROVE CountInv'
  BY <1>2, SendCounts
<1>3. ASSUME NEW i \in Ids, raw_event(i) \/ hangup_shared(i) PROVE CountInv'
  BY <1>3, RawEventCounts, HangupCounts
<1>4. CASE close
  <2>1. /\ UNCHANGED <<client, asked, events, clients, active, open_dbs, deadline>>
        /\ close_mail' = close_mail \cup clients /\ Manager
    BY <1>4 DEF close, clientVars
  <2>2. clients \subseteq Ids
    BY TypesOfParts DEF IInv, Types
  <2> QED
    BY <1>0, <2>1, <2>2, CountsUnchanged DEF Manager
<1>5. CASE DatabasesClosed \/ timeout_expired
  BY <1>5, FinishCounts
<1>6. ASSUME NEW d \in Databases, CloseDatabase(d) PROVE CountInv'
  <2>1. /\ UNCHANGED <<client, asked, close_mail, events, clients, active, closing, deadline>>
        /\ open_dbs' = open_dbs \ {d}
    BY <1>6 DEF CloseDatabase, clientVars
  <2> QED
    BY <1>0, <2>1, CountsUnchanged
<1>7. CASE QuitRequest \/ MainLoop \/ UNCHANGED vars
  <2>1. UNCHANGED <<client, asked, close_mail, events, clients, active, closing, open_dbs, deadline>>
    BY <1>7 DEF QuitRequest, MainLoop, vars, clientVars, managerVars
  <2> QED
    BY <1>0, <2>1, CountsUnchanged
<1> QED
  BY <1>1, <1>2, <1>3, <1>4, <1>5, <1>6, <1>7 DEF Next, ClientStep, ManagerStep

(* The counts of active clients: as long as ClientManager runs,            *)
(* active_client_count_ holds, for each update queue, the number of        *)
(* clients that have told it of their login and not yet of their end, so   *)
(* no count falls below 0 (the CHECK of raw_event) and none is left when   *)
(* the clients of a queue have gone (the CHECK of hangup_shared).          *)
THEOREM CountsAlwaysExact == Spec => []Consistent
<1>1. IInv /\ CountInv => Consistent
  <2> SUFFICES ASSUME IInv, CountInv PROVE Consistent
    OBVIOUS
  <2>1. clients \subseteq Ids
    BY TypesOfParts DEF IInv, Types
  <2>2. TypeOK
    BY <2>1 DEF IInv, Types, CountInv, Others, TypeOK, Event, MainState
  <2>3. ActiveClientsExact
    BY DEF CountInv, ActiveClientsExact
  <2> QED
    BY <2>2, <2>3 DEF Consistent
<1> QED
  BY <1>1, InitHolds, StepHolds, InitCounts, StepCounts, PTL DEF Spec

===============================================================================
