------------------------- MODULE WebhookControlProofs -------------------------
(***************************************************************************)
(* Proofs about WebhookControl, for any requests, any number of them and   *)
(* of Clients, and every interleaving with crashes, log-outs and closings. *)
(*                                                                         *)
(* What the WebhookActor, its messages and the certificate scheduler still *)
(* have in store for the Client is at most one thing, and the work on the  *)
(* certificates of successive Clients is done in the order of the Clients. *)
(* Between two Clients the certificate of the saved webhook is in cert.pem *)
(* and nothing is queued that would touch it, unless it is lost.           *)
(***************************************************************************)
EXTENDS WebhookControl, FiniteSetTheorems, SequenceTheorems, TLAPS

Clients ==
  [number : 1..MaxClients, url : Nat, cert : 0..MaxQueries, id : BOOLEAN, set : 0..Internal,
   active : 0..MaxQueries, type : {"Verify", "Cancel"}, gen : Nat, poll : BOOLEAN,
   logging_out : BOOLEAN, closing : BOOLEAN, closed : BOOLEAN, need_close : BOOLEAN,
   wiped : BOOLEAN, alive : BOOLEAN, restored : BOOLEAN, lost : BOOLEAN]
Actors  == [on : BOOLEAN, gen : Nat, checked : BOOLEAN, close : BOOLEAN]
Mails   == [what : {"verified", "closed"}, gen : Nat]
Tasks   == [what : {"copy", "unlink"}, of : 0..MaxQueries, for : 1..MaxClients]
Results == [what : {"copy", "unlink"}, ok : BOOLEAN, for : 1..MaxClients]
Answers == {"none", "ok", "failed"}

Types ==
  /\ client \in Clients /\ actor \in Actors
  /\ mail \in Seq(Mails) /\ tasks \in Seq(Tasks) /\ results \in Seq(Results)
  /\ file \in 0..MaxQueries /\ db \in [url : Nat, cert : 0..MaxQueries]
  /\ asked \in Seq(Requests) /\ answer \in Seq(Answers)
  /\ Len(answer) = Len(asked) /\ Len(asked) <= MaxQueries

(* The work on certificates, results first: that of an earlier Client      *)
(* comes first, and of each Client there is at most one piece.             *)
Ordered(seq) == \A j, k \in 1..Len(seq) : j < k => seq[j].for < seq[k].for
WorkOrder ==
  /\ Ordered(tasks) /\ Ordered(results)
  /\ \A j \in 1..Len(results), k \in 1..Len(tasks) : results[j].for < tasks[k].for
  /\ \A k \in 1..Len(tasks) : tasks[k].for <= client.number
  /\ \A k \in 1..Len(results) : results[k].for <= client.number

Has(seq, what) == \E k \in 1..Len(seq) : seq[k].what = what /\ seq[k].for = client.number
HasWork(what)  == Has(tasks, what) \/ Has(results, what)
NoWork == ~HasWork("copy") /\ ~HasWork("unlink")

(* The messages of the actor: at most one that it is verified, then that   *)
(* it is closed.                                                           *)
IsMail(k, what) == mail[k].what = what
MailShape ==
  /\ Len(mail) <= 2
  /\ Len(mail) = 2 => IsMail(1, "verified") /\ IsMail(2, "closed")
  /\ actor.on /\ ~actor.checked => mail = <<>>
  /\ actor.on /\ mail # <<>> => Len(mail) = 1 /\ IsMail(1, "verified")
MailCloses == mail # <<>> /\ IsMail(Len(mail), "closed")

(* What is still to come: the end of the actor, the message of it, the     *)
(* removal or the copy of a certificate, or nothing.                       *)
InUse == client.url # None /\ client.active = 0
ToCome ==
  \/ actor.on /\ NoWork /\ InUse
  \/ ~actor.on /\ MailCloses /\ NoWork /\ InUse
  \/ ~actor.on /\ mail = <<>> /\ HasWork("unlink") /\ ~HasWork("copy") /\ InUse
  \/ /\ ~actor.on /\ mail = <<>> /\ HasWork("copy") /\ ~HasWork("unlink")
     /\ client.url = None /\ (client.active # 0 \/ client.closed)
  \/ ~actor.on /\ mail = <<>> /\ NoWork /\ client.url = None /\ client.active = 0
  \/ client.closed /\ ~actor.on /\ NoWork /\ InUse

Held == 
  /\ client.set # 0 => client.url # None
  /\ client.set = 0 \/ client.set \in 1..Len(asked)
       \/ (client.set = Internal /\ client.type = "Verify")
  /\ client.active # 0 =>
       /\ client.active \in 1..Len(asked)
       /\ asked[client.active].cert
       /\ ~client.poll
  /\ client.id => client.url # None
  /\ client.url = None /\ client.cert # 0 => Ending(client)
  /\ client.poll => client.url = None
  /\ client.wiped => client.closed
  /\ client.closed => /\ Ending(client) /\ ~client.id /\ client.set = 0 /\ client.active = 0
                      /\ ~client.poll

(* A webhook is set as it was asked for; what comes from the one that it   *)
(* replaces is of an earlier generation.                                   *)
Generation ==
  /\ actor.on => actor.gen <= client.gen
  /\ \A k \in 1..Len(mail) : mail[k].gen <= client.gen
  /\ client.set # 0 /\ client.type = "Cancel" =>
       /\ actor.on => actor.gen < client.gen
       /\ \A k \in 1..Len(mail) : mail[k].gen < client.gen
  /\ client.set \in 1..Len(asked) /\ client.type = "Verify" =>
       /\ client.url = asked[client.set].url
       /\ client.cert = IF asked[client.set].cert THEN client.set ELSE 0

SavedInv ==
  /\ client.url = None /\ client.restored => db = NotSaved
  /\ client.url # None /\ client.restored => db = NotSaved \/ db = Saved(client)
  /\ client.url # None /\ client.set = 0 => db = Saved(client)

(* The certificate in use is in the file until it is removed, and that of  *)
(* a request is there once it is copied.                                   *)
CertificateInv ==
  /\ client.url # None /\ client.cert # 0 /\ ~client.lost =>
       \/ Has(results, "unlink")
       \/ file = client.cert /\ \A k \in 1..Len(tasks) :
            tasks[k].what = "unlink" /\ tasks[k].for = client.number
  /\ \A k \in 1..Len(tasks) :
       tasks[k].what = "copy" /\ tasks[k].for = client.number => tasks[k].of = client.active
  /\ \A k \in 1..Len(results) :
       results[k].what = "copy" /\ results[k].for = client.number /\ results[k].ok =>
         tasks = <<>> /\ (~client.lost => file = client.active)

AliveInv ==
  client.alive =>
    /\ MailShape /\ ToCome /\ Held /\ Generation
    /\ ~client.closed => SavedInv /\ CertificateInv
StoppedInv ==
  ~client.alive => actor = NoActor /\ mail = <<>> /\ ~client.poll
SavedUrl == db # NotSaved => db.url # None
MailUrl == mail # <<>> => client.url # None

IInv == Types /\ WorkOrder /\ SavedUrl /\ MailUrl /\ AliveInv /\ StoppedInv

(* What a Client leaves for the next: unless it is lost, the certificate   *)
(* of the saved webhook is in the file and no work on it is queued, and a  *)
(* Client that was not given the saved webhook has had no certificate.     *)
LostInv ==
  ~client.lost =>
    /\ client.alive => ~client.closed
    /\ ~client.restored => client.cert = 0 /\ client.active = 0
    /\ (~client.alive \/ ~client.restored) /\ db.cert # 0 => file = db.cert /\ tasks = <<>>

-------------------------------------------------------------------------------
(* Sequences. *)

(* What Tail leaves of a queue that is not empty. *)
LEMMA TailOf ==
  ASSUME NEW S, NEW s \in Seq(S), s # <<>>
  PROVE  /\ Len(s) \in Nat \ {0} /\ Head(s) = s[1] /\ s[1] \in S
         /\ Tail(s) \in Seq(S) /\ Len(Tail(s)) = Len(s) - 1
         /\ \A i \in 1..(Len(s) - 1) : Tail(s)[i] = s[i + 1]
         /\ Len(s) = 1 => Tail(s) = <<>>
  BY HeadTailProperties, EmptySeq, LenProperties, ElementOfSeq

(* What Append adds. *)
LEMMA AppendOf ==
  ASSUME NEW S, NEW s \in Seq(S), NEW e \in S
  PROVE  /\ Append(s, e) \in Seq(S) /\ Len(Append(s, e)) = Len(s) + 1
         /\ Append(s, e)[Len(s) + 1] = e
         /\ \A i \in 1..Len(s) : Append(s, e)[i] = s[i]
         /\ Len(s) \in Nat /\ Append(s, e) # <<>>
  BY AppendProperties, LenProperties, EmptySeq

(* Reply changes one answer. *)
LEMMA ReplyOf ==
  ASSUME NEW ans \in Seq(Answers), NEW q, NEW what \in Answers
  PROVE  /\ Reply(ans, q, what) \in Seq(Answers)
         /\ Len(Reply(ans, q, what)) = Len(ans)
         /\ \A k \in 1..Len(ans) : Reply(ans, q, what)[k] = IF k = q THEN what ELSE ans[k]
<1>1. Len(ans) \in Nat /\ DOMAIN ans = 1..Len(ans) /\ \A k \in 1..Len(ans) : ans[k] \in Answers
  BY LenProperties, ElementOfSeq
<1> QED
  BY <1>1 DEF Reply

(* The parts of the members of Types that the proofs compare. *)
LEMMA WorkTypes ==
  ASSUME Types
  PROVE  /\ client.number \in Nat /\ Len(tasks) \in Nat /\ Len(results) \in Nat
         /\ \A k \in 1..Len(tasks) : tasks[k] \in Tasks /\ tasks[k].for \in Nat
         /\ \A k \in 1..Len(results) : results[k] \in Results /\ results[k].for \in Nat
<1>1. tasks \in Seq(Tasks) /\ results \in Seq(Results) /\ client \in Clients
  BY DEF Types
<1>2. client.number \in Nat
  BY <1>1, ControlAssumption DEF Clients
<1>3. \A k \in 1..Len(tasks) : tasks[k] \in Tasks
  BY <1>1, ElementOfSeq
<1>4. \A k \in 1..Len(results) : results[k] \in Results
  BY <1>1, ElementOfSeq
<1>5. \A t \in Tasks : t.for \in Nat
  BY ControlAssumption DEF Tasks
<1>6. \A t \in Results : t.for \in Nat
  BY ControlAssumption DEF Results
<1> QED
  BY <1>1, <1>2, <1>3, <1>4, <1>5, <1>6, LenProperties

(* The work of the Client on certificates, when the queues stay as they are. *)
LEMMA WorkSame ==
  ASSUME WorkOrder, tasks' = tasks, results' = results, client'.number = client.number
  PROVE  /\ WorkOrder'
         /\ \A w : /\ Has(tasks, w)' <=> Has(tasks, w)
                   /\ Has(results, w)' <=> Has(results, w)
  BY DEF WorkOrder, Ordered, Has

(* The same when a Client that has none adds a task or adds nothing. *)
NoneOf(n) ==
  /\ Ordered(tasks) /\ Ordered(results')
  /\ \A j \in 1..Len(results'), k \in 1..Len(tasks) : results'[j].for < tasks[k].for
  /\ \A k \in 1..Len(tasks) : tasks[k].for < n
  /\ \A k \in 1..Len(results') : results'[k].for < n

LEMMA NoWorkAdded ==
  ASSUME Types, results' \in Seq(Results), tasks' = tasks, client' \in Clients,
         NoneOf(client'.number)
  PROVE  /\ WorkOrder'
         /\ \A w : ~Has(tasks, w)' /\ ~Has(results, w)'
<1>1. client'.number \in Nat
  BY ControlAssumption DEF Clients
<1>2. \A k \in 1..Len(tasks) : tasks[k].for \in Nat
  BY WorkTypes
<1>3. \A k \in 1..Len(results') : results'[k].for \in Nat
  <2>1. \A k \in 1..Len(results') : results'[k] \in Results
    BY ElementOfSeq
  <2> QED
    BY <2>1, ControlAssumption DEF Results
<1> QED
  BY <1>1, <1>2, <1>3 DEF WorkOrder, Ordered, Has, NoneOf

LEMMA WorkAdded ==
  ASSUME Types, results' \in Seq(Results), NEW t \in Tasks, tasks' = Append(tasks, t),
         client' \in Clients, t.for = client'.number, NoneOf(client'.number)
  PROVE  /\ tasks' \in Seq(Tasks) /\ WorkOrder'
         /\ \A w : (Has(tasks, w)' <=> w = t.what) /\ ~Has(results, w)'
         /\ \A k \in 1..Len(tasks') : tasks'[k].for = client'.number => tasks'[k] = t
<1>1. client'.number \in Nat /\ Len(tasks) \in Nat /\ Len(results') \in Nat
  BY WorkTypes, LenProperties, ControlAssumption DEF Clients
<1>2. \A k \in 1..Len(tasks) : tasks[k].for \in Nat
  BY WorkTypes
<1>3. \A k \in 1..Len(results') : results'[k].for \in Nat
  <2>1. \A k \in 1..Len(results') : results'[k] \in Results
    BY ElementOfSeq
  <2> QED
    BY <2>1, ControlAssumption DEF Results
<1>4. /\ tasks' \in Seq(Tasks) /\ Len(tasks') = Len(tasks) + 1 /\ tasks'[Len(tasks) + 1] = t
      /\ \A i \in 1..Len(tasks) : tasks'[i] = tasks[i]
  BY AppendOf DEF Types
<1>5. /\ \A k \in 1..Len(tasks) : tasks[k].for < t.for
      /\ \A k \in 1..Len(results') : results'[k].for < t.for
  BY DEF NoneOf
<1>6. WorkOrder'
  <2>1. Ordered(tasks)'
    <3> SUFFICES ASSUME NEW j \in 1..Len(tasks'), NEW k \in 1..Len(tasks'), j < k
                 PROVE  tasks'[j].for < tasks'[k].for
      BY DEF Ordered
    <3>1. j \in 1..Len(tasks) /\ tasks'[j] = tasks[j]
      BY <1>1, <1>4
    <3>2. CASE k = Len(tasks) + 1
      BY <3>1, <3>2, <1>4, <1>5
    <3>3. CASE k # Len(tasks) + 1
      <4>0. k \in 1..(Len(tasks) + 1)
        BY <1>4
      <4>1. k \in 1..Len(tasks)
        BY <3>3, <4>0, <1>1
      <4>2. tasks'[k] = tasks[k]
        BY <4>1, <1>4
      <4> QED
        BY <3>1, <4>1, <4>2 DEF NoneOf, Ordered
    <3> QED
      BY <3>2, <3>3
  <2>2. \A k \in 1..Len(tasks') : tasks'[k].for <= client'.number
    BY <1>1, <1>2, <1>4, <1>5
  <2>3. \A j \in 1..Len(results'), k \in 1..Len(tasks') : results'[j].for < tasks'[k].for
    BY <1>1, <1>4, <1>5 DEF NoneOf
  <2>4. Ordered(results)' /\ \A k \in 1..Len(results') : results'[k].for <= client'.number
    BY <1>1, <1>3, <1>5 DEF NoneOf, Ordered
  <2> QED
    BY <2>1, <2>2, <2>3, <2>4 DEF WorkOrder
<1>7. ASSUME NEW w PROVE (Has(tasks, w)' <=> w = t.what) /\ ~Has(results, w)'
  BY <1>1, <1>2, <1>3, <1>4, <1>5 DEF Has
<1>8. ASSUME NEW k \in 1..Len(tasks'), tasks'[k].for = client'.number PROVE tasks'[k] = t
  BY <1>1, <1>2, <1>4, <1>5, <1>8
<1> QED
  BY <1>4, <1>6, <1>7, <1>8

(* A task that is done becomes the last result. *)
LEMMA WorkMoved ==
  ASSUME Types, WorkOrder, tasks # <<>>, NEW ok \in BOOLEAN, NEW e,
         e = [what |-> tasks[1].what, ok |-> ok, for |-> tasks[1].for],
         tasks' = Tail(tasks), results' = Append(results, e), client'.number = client.number
  PROVE  /\ tasks' \in Seq(Tasks) /\ results' \in Seq(Results) /\ WorkOrder'
         /\ Len(results') = Len(results) + 1 /\ results'[Len(results) + 1] = e
         /\ \A i \in 1..Len(results) : results'[i] = results[i]
         /\ \A w : (Has(tasks, w) \/ Has(results, w)) <=> (Has(tasks, w)' \/ Has(results, w)')
<1>1. Len(tasks) \in Nat \ {0} /\ Len(results) \in Nat
  BY TailOf, LenProperties DEF Types
<1>2. e \in Results /\ e.for = tasks[1].for /\ e.what = tasks[1].what
  <2>1. tasks[1] \in Tasks
    BY <1>1, WorkTypes
  <2> QED
    BY <2>1 DEF Tasks, Results
<1>3. /\ tasks' \in Seq(Tasks) /\ Len(tasks') = Len(tasks) - 1
      /\ \A i \in 1..(Len(tasks) - 1) : tasks'[i] = tasks[i + 1]
  BY TailOf DEF Types
<1>4. /\ results' \in Seq(Results) /\ Len(results') = Len(results) + 1
      /\ results'[Len(results) + 1] = e /\ \A i \in 1..Len(results) : results'[i] = results[i]
  BY <1>2, AppendOf DEF Types
<1>5. WorkOrder'
  <2>1. Ordered(tasks)'
    <3> SUFFICES ASSUME NEW j \in 1..Len(tasks'), NEW k \in 1..Len(tasks'), j < k
                 PROVE  tasks'[j].for < tasks'[k].for
      BY DEF Ordered
    <3>1. /\ j + 1 \in 1..Len(tasks) /\ k + 1 \in 1..Len(tasks) /\ j + 1 < k + 1
          /\ tasks'[j] = tasks[j + 1] /\ tasks'[k] = tasks[k + 1]
      BY <1>1, <1>3
    <3> QED
      BY <3>1 DEF WorkOrder, Ordered
  <2>2. \A k \in 1..Len(tasks') : tasks'[k].for <= client'.number
    BY <1>1, <1>3 DEF WorkOrder
  <2>3. \A j \in 1..Len(results'), k \in 1..Len(tasks') : results'[j].for < tasks'[k].for
    <3> SUFFICES ASSUME NEW j \in 1..Len(results'), NEW k \in 1..Len(tasks')
                 PROVE  results'[j].for < tasks'[k].for
      OBVIOUS
    <3>1. tasks'[k] = tasks[k + 1] /\ k + 1 \in 1..Len(tasks) /\ 1 \in 1..Len(tasks) /\ 1 < k + 1
      BY <1>1, <1>3
    <3>2. CASE j = Len(results) + 1
      BY <3>1, <3>2, <1>2, <1>4 DEF WorkOrder, Ordered
    <3>3. CASE j # Len(results) + 1
      BY <3>1, <3>3, <1>1, <1>4 DEF WorkOrder
    <3> QED
      BY <3>2, <3>3
  <2>4. Ordered(results)'
    <3> SUFFICES ASSUME NEW j \in 1..Len(results'), NEW k \in 1..Len(results'), j < k
                 PROVE  results'[j].for < results'[k].for
      BY DEF Ordered
    <3>1. CASE k = Len(results) + 1
      BY <3>1, <1>1, <1>2, <1>4 DEF WorkOrder
    <3>2. CASE k # Len(results) + 1
      <4>1. /\ j \in 1..Len(results) /\ k \in 1..Len(results)
            /\ results'[j] = results[j] /\ results'[k] = results[k]
        BY <3>2, <1>1, <1>4
      <4> QED
        BY <4>1 DEF WorkOrder, Ordered
    <3> QED
      BY <3>1, <3>2
  <2>5. \A k \in 1..Len(results') : results'[k].for <= client'.number
    BY <1>1, <1>2, <1>4 DEF WorkOrder
  <2> QED
    BY <2>1, <2>2, <2>3, <2>4, <2>5 DEF WorkOrder
<1>6. ASSUME NEW w
      PROVE  (Has(tasks, w) \/ Has(results, w)) <=> (Has(tasks, w)' \/ Has(results, w)')
  <2>1. ASSUME Has(tasks, w) PROVE Has(tasks, w)' \/ Has(results, w)'
    <3>1. PICK k \in 1..Len(tasks) : tasks[k].what = w /\ tasks[k].for = client.number
      BY <2>1 DEF Has
    <3>2. CASE k = 1
      BY <3>1, <3>2, <1>1, <1>2, <1>4 DEF Has
    <3>3. CASE k # 1
      <4>1. k - 1 \in 1..Len(tasks') /\ tasks'[k - 1] = tasks[k]
        BY <3>3, <1>1, <1>3
      <4> QED
        BY <4>1, <3>1 DEF Has
    <3> QED
      BY <3>2, <3>3
  <2>2. ASSUME Has(results, w) PROVE Has(results, w)'
    BY <2>2, <1>1, <1>4 DEF Has
  <2>3. ASSUME Has(tasks, w)' PROVE Has(tasks, w)
    BY <2>3, <1>1, <1>3 DEF Has
  <2>4. ASSUME Has(results, w)' PROVE Has(tasks, w) \/ Has(results, w)
    BY <2>4, <1>1, <1>2, <1>4 DEF Has
  <2> QED
    BY <2>1, <2>2, <2>3, <2>4
<1> QED
  BY <1>3, <1>4, <1>5, <1>6

LEMMA TwoOrMore == \A n \in Nat \ {0} : n # 1 => 1 \in 1..n /\ 2 \in 1..n
  OBVIOUS

(* Of a Client whose own result is next there is no other work. *)
LEMMA OwnIsLast ==
  ASSUME Types, WorkOrder, results # <<>>, results[1].for = client.number
  PROVE  tasks = <<>> /\ Tail(results) = <<>>
<1>0. Len(results) \in Nat \ {0} /\ Len(tasks) \in Nat /\ (Len(results) = 1 => Tail(results) = <<>>)
  BY TailOf, LenProperties DEF Types
<1>1. client.number \in Nat
  BY ControlAssumption DEF Types, Clients
<1>2. Len(tasks) = 0
  <2> SUFFICES ASSUME Len(tasks) > 0 PROVE FALSE
    BY <1>0
  <2>1. 1 \in 1..Len(tasks) /\ 1 \in 1..Len(results)
    BY <1>0
  <2>2. tasks[1].for <= client.number /\ results[1].for < tasks[1].for
    BY <2>1 DEF WorkOrder
  <2>3. tasks[1].for \in Nat
    BY <2>1, WorkTypes
  <2> QED
    BY <2>2, <2>3, <1>1
<1>3. Len(results) = 1
  <2> SUFFICES ASSUME Len(results) # 1 PROVE FALSE
    OBVIOUS
  <2>1. 1 \in 1..Len(results) /\ 2 \in 1..Len(results)
    BY <1>0, TwoOrMore, Zenon
  <2>2. results[2].for <= client.number /\ results[1].for < results[2].for
    BY <2>1 DEF WorkOrder, Ordered
  <2>3. results[2].for \in Nat
    BY <2>1, WorkTypes
  <2> QED
    BY <2>2, <2>3, <1>1
<1> QED
  BY <1>2, <1>3, <1>0, EmptySeq DEF Types

(* A result that is taken: the last work of the Client if it is its own. *)
LEMMA WorkTaken ==
  ASSUME Types, WorkOrder, results # <<>>, results' = Tail(results), client'.number = client.number
  PROVE  /\ results' \in Seq(Results) /\ results[1] \in Results
         /\ tasks' = tasks => WorkOrder'
         /\ results[1].for = client.number => tasks = <<>> /\ results' = <<>>
         /\ results[1].for # client.number => \A w : Has(results, w)' <=> Has(results, w)
         /\ \A k \in 1..Len(results') : \E j \in 1..Len(results) : results'[k] = results[j]
<1>1. /\ Len(results) \in Nat \ {0} /\ results[1] \in Results /\ Len(tasks) \in Nat
      /\ results' \in Seq(Results) /\ Len(results') = Len(results) - 1
      /\ \A i \in 1..(Len(results) - 1) : results'[i] = results[i + 1]
      /\ Len(results) = 1 => results' = <<>>
  BY TailOf, LenProperties DEF Types
<1>2. ASSUME tasks' = tasks PROVE WorkOrder'
  <2>1. Ordered(results)'
    BY <1>1 DEF WorkOrder, Ordered
  <2>2. \A j \in 1..Len(results'), k \in 1..Len(tasks) : results'[j].for < tasks[k].for
    BY <1>1 DEF WorkOrder
  <2>3. \A k \in 1..Len(results') : results'[k].for <= client'.number
    BY <1>1 DEF WorkOrder
  <2> QED
    BY <1>2, <2>1, <2>2, <2>3 DEF WorkOrder, Ordered
<1>3. ASSUME results[1].for = client.number PROVE tasks = <<>> /\ results' = <<>>
  BY <1>3, OwnIsLast
<1>4. ASSUME results[1].for # client.number, NEW w PROVE Has(results, w)' <=> Has(results, w)
  <2>1. ASSUME Has(results, w) PROVE Has(results, w)'
    <3>1. PICK k \in 1..Len(results) : results[k].what = w /\ results[k].for = client.number
      BY <2>1 DEF Has
    <3>2. k # 1
      BY <3>1, <1>4
    <3>3. k - 1 \in 1..Len(results') /\ results'[k - 1] = results[k]
      BY <3>2, <1>1
    <3> QED
      BY <3>1, <3>3 DEF Has
  <2>2. ASSUME Has(results, w)' PROVE Has(results, w)
    BY <2>2, <1>1 DEF Has
  <2> QED
    BY <2>1, <2>2
<1>5. ASSUME NEW k \in 1..Len(results') PROVE \E j \in 1..Len(results) : results'[k] = results[j]
  BY <1>1
<1> QED
  BY <1>1, <1>2, <1>3, <1>4, <1>5


-------------------------------------------------------------------------------
(* The steps of WebhookActor leave the Client alone. *)

(* What is said of the Client and the certificate alone stays true. *)
LEMMA ClientAlone ==
  ASSUME IInv, UNCHANGED <<client, tasks, results, file, db, asked, answer>>
  PROVE  /\ WorkOrder' /\ SavedUrl' /\ (NoWork' <=> NoWork)
         /\ client.alive => Held' /\ (~client.closed => SavedInv' /\ CertificateInv')
<1>1. WorkOrder' /\ (NoWork' <=> NoWork)
  BY WorkSame DEF IInv, NoWork, HasWork
<1>2. SavedUrl'
  BY DEF IInv, SavedUrl
<1>3. ASSUME client.alive PROVE Held'
  BY <1>3 DEF IInv, AliveInv, Held, Ending
<1>4. ASSUME client.alive, ~client.closed PROVE SavedInv' /\ CertificateInv'
  BY <1>4 DEF IInv, AliveInv, SavedInv, Saved, CertificateInv, Has
<1> QED
  BY <1>1, <1>2, <1>3, <1>4

(* An actor that is there belongs to a Client that uses a webhook. *)
LEMMA ActorOn ==
  ASSUME IInv, actor.on
  PROVE  /\ client.alive /\ NoWork /\ InUse
         /\ mail = <<>> \/ (Len(mail) = 1 /\ mail[1].what = "verified")
         /\ actor.gen <= client.gen
         /\ client.set # 0 /\ client.type = "Cancel" => actor.gen < client.gen
  BY DEF IInv, AliveInv, StoppedInv, NoActor, ToCome, MailShape, IsMail, Generation

(* The actor tells that the webhook is verified. *)
LEMMA TellsVerified ==
  ASSUME IInv, Verify \/ AddressChanged
  PROVE  IInv'
<1> DEFINE m == [what |-> "verified", gen |-> actor.gen]
<1>1. /\ actor.on /\ actor \in Actors /\ mail = <<>> /\ ActorStep /\ mail' = Append(mail, m)
  BY DEF IInv, Types, AliveInv, StoppedInv, NoActor, MailShape, Verify, AddressChanged, Tell
<1>2. actor' \in Actors /\ actor'.on /\ actor'.gen = actor.gen /\ actor'.checked
  BY <1>1 DEF Verify, AddressChanged, Actors
<1>3. m \in Mails /\ m.what = "verified" /\ m.gen = actor.gen
  BY <1>1 DEF Actors, Mails
<1>4. mail' \in Seq(Mails) /\ Len(mail') = 1 /\ mail'[1] = m /\ mail' # <<>>
  <2> HIDE DEF m
  <2> QED
    BY <1>1, <1>3, AppendOf, EmptySeq DEF IInv, Types
<1> HIDE DEF m
<1>5. Types'
  BY <1>1, <1>2, <1>4 DEF IInv, Types, ActorStep
<1>6. MailShape' /\ MailUrl' /\ ToCome'
  BY <1>1, <1>2, <1>3, <1>4, ActorOn, ClientAlone
     DEF MailShape, IsMail, MailUrl, ToCome, InUse, ActorStep
<1>7. Generation'
  <2>1. \A k \in 1..Len(mail') : mail'[k].gen = actor.gen
    BY <1>3, <1>4
  <2>2. /\ client.set \in 1..Len(asked) /\ client.type = "Verify" =>
             /\ client.url = asked[client.set].url
             /\ client.cert = IF asked[client.set].cert THEN client.set ELSE 0
    BY <1>1, ActorOn DEF IInv, AliveInv, Generation
  <2> QED
    BY <1>1, <1>2, <2>1, <2>2, ActorOn DEF Generation, ActorStep
<1> QED
  BY <1>1, <1>5, <1>6, <1>7, ActorOn, ClientAlone DEF IInv, AliveInv, StoppedInv, ActorStep

(* The actor stops and tells that it is closed. *)
LEMMA TellsClosed ==
  ASSUME IInv, Fail \/ Close
  PROVE  IInv'
<1> DEFINE m == [what |-> "closed", gen |-> actor.gen]
<1>1. actor.on /\ actor \in Actors /\ ActorStep /\ mail' = Append(mail, m) /\ mail \in Seq(Mails)
  BY DEF IInv, Types, Fail, Close, Tell
<1>2. actor' \in Actors /\ ~actor'.on
  BY <1>1 DEF Fail, Close, Stopped, Actors
<1>3. m \in Mails /\ m.what = "closed" /\ m.gen = actor.gen
  BY <1>1 DEF Actors, Mails
<1>4. /\ mail' \in Seq(Mails) /\ mail' # <<>> /\ Len(mail') = Len(mail) + 1 /\ Len(mail) \in Nat
      /\ mail'[Len(mail) + 1] = m /\ \A i \in 1..Len(mail) : mail'[i] = mail[i]
  <2> HIDE DEF m
  <2> QED
    BY <1>1, <1>3, AppendOf
<1> HIDE DEF m
<1>5. Types'
  BY <1>1, <1>2, <1>4 DEF IInv, Types, ActorStep
<1>6. Len(mail) = 0 \/ (Len(mail) = 1 /\ mail[1].what = "verified")
  BY <1>1, ActorOn, EmptySeq
<1>7. MailShape' /\ MailCloses'
  BY <1>2, <1>3, <1>4, <1>6 DEF MailShape, MailCloses, IsMail
<1>8. MailUrl' /\ ToCome'
  BY <1>1, <1>2, <1>7, ActorOn, ClientAlone DEF MailUrl, ToCome, InUse, ActorStep
<1>9. Generation'
  <2>1. \A k \in 1..Len(mail') : mail'[k].gen = actor.gen \/ (k \in 1..Len(mail) /\ mail'[k] = mail[k])
    BY <1>3, <1>4
  <2>2. Generation
    BY <1>1, ActorOn DEF IInv, AliveInv
  <2> QED
    BY <1>1, <1>2, <2>1, <2>2, ActorOn DEF Generation, ActorStep
<1> QED
  BY <1>1, <1>5, <1>7, <1>8, <1>9, ActorOn, ClientAlone DEF IInv, AliveInv, StoppedInv, ActorStep

(* The webhook is gone: the actor will close. *)
LEMMA GoneKeeps ==
  ASSUME IInv, Gone
  PROVE  IInv'
<1>1. actor.on /\ actor \in Actors /\ mail' = mail /\ ActorStep
  BY DEF IInv, Types, Gone, ActorStep
<1>2. actor' \in Actors /\ actor'.on /\ actor'.gen = actor.gen /\ actor'.checked = actor.checked
  BY <1>1 DEF Gone, Actors
<1>3. Types'
  BY <1>1, <1>2 DEF IInv, Types, ActorStep
<1>4. MailShape' /\ MailUrl' /\ ToCome' /\ Generation'
  <2>1. MailShape /\ MailUrl /\ Generation
    BY <1>1, ActorOn DEF IInv, AliveInv
  <2> QED
    BY <1>1, <1>2, <2>1, ActorOn, ClientAlone
       DEF MailShape, MailUrl, Generation, IsMail, ToCome, InUse, ActorStep
<1> QED
  BY <1>1, <1>3, <1>4, ActorOn, ClientAlone DEF IInv, AliveInv, StoppedInv, ActorStep


-------------------------------------------------------------------------------
(* The certificate scheduler, and webhook_verified. *)

LEMMA RunTaskKeeps ==
  ASSUME IInv, RunTask
  PROVE  IInv'
<1> USE DEF IInv
<1> DEFINE t == tasks[1]
<1>1. PICK ok \in BOOLEAN :
        /\ IF t.what = "copy" /\ ok THEN file' = t.of ELSE file' \in {0, file}
        /\ results' = Append(results, [what |-> t.what, ok |-> ok, for |-> t.for])
  BY TailOf DEF RunTask, Types
<1>2. /\ tasks # <<>> /\ tasks' = Tail(tasks)
      /\ UNCHANGED <<client, actor, mail, db, asked, answer>>
  BY DEF RunTask
<1>3. PICK e : e = [what |-> t.what, ok |-> ok, for |-> t.for]
  OBVIOUS
<1>4. /\ tasks' \in Seq(Tasks) /\ results' \in Seq(Results) /\ WorkOrder'
      /\ Len(results') = Len(results) + 1 /\ results'[Len(results) + 1] = e
      /\ \A i \in 1..Len(results) : results'[i] = results[i]
      /\ \A w : HasWork(w)' <=> HasWork(w)
  BY <1>1, <1>2, <1>3, WorkMoved DEF HasWork
<1>5. /\ Len(tasks) \in Nat \ {0} /\ t \in Tasks /\ Len(results) \in Nat
      /\ Len(tasks') = Len(tasks) - 1
      /\ \A i \in 1..(Len(tasks) - 1) : tasks'[i] = tasks[i + 1]
      /\ Len(tasks) = 1 => tasks' = <<>>
  BY <1>2, TailOf, LenProperties DEF Types
<1>6. e.what = t.what /\ e.ok = ok /\ e.for = t.for
  BY <1>3
<1>7. /\ t.what = "copy" \/ t.what = "unlink"
      /\ t.what = "copy" /\ ok => file' = t.of
      /\ ~(t.what = "copy" /\ ok) => file' \in {0, file}
  BY <1>1, <1>5 DEF Tasks
<1>8. Types'
  <2>1. file' \in 0..MaxQueries
    BY <1>5, <1>7, ControlAssumption DEF Types, Tasks
  <2> QED
    BY <2>1, <1>2, <1>4 DEF Types
<1> HIDE DEF t
<1>9. CASE ~client.alive
  BY <1>2, <1>4, <1>8, <1>9 DEF SavedUrl, MailUrl, AliveInv, StoppedInv
<1>10. CASE client.alive
  <2>1. MailShape' /\ ToCome' /\ Held' /\ Generation'
    BY <1>2, <1>4, <1>10
       DEF AliveInv, MailShape, ToCome, Held, Generation, InUse, NoWork, MailCloses, IsMail, Ending
  <2>2. ASSUME ~client.closed PROVE SavedInv'
    BY <1>2, <1>10, <2>2 DEF AliveInv, SavedInv, Saved
  <2>3. ASSUME ~client.closed PROVE CertificateInv'
    <3> USE DEF t
    <3>1. CertificateInv
      BY <1>10, <2>3 DEF AliveInv
    <3>2. ASSUME client.url # None, client.cert # 0, ~client.lost
          PROVE  Has(results, "unlink")'
      <4>1. CASE Has(results, "unlink")
        BY <4>1, <1>2, <1>4, <1>5 DEF Has
      <4>2. CASE ~Has(results, "unlink")
        <5>1. t.what = "unlink" /\ t.for = client.number
          BY <3>1, <3>2, <4>2, <1>5 DEF CertificateInv
        <5> QED
          BY <5>1, <1>2, <1>4, <1>5, <1>6 DEF Has
      <4> QED
        BY <4>1, <4>2
    <3>3. \A k \in 1..Len(tasks') :
            tasks'[k].what = "copy" /\ tasks'[k].for = client.number => tasks'[k].of = client.active
      BY <1>5, <3>1 DEF CertificateInv
    <3>4. ASSUME NEW k \in 1..Len(results'), results'[k].what = "copy",
                 results'[k].for = client.number, results'[k].ok
          PROVE  tasks' = <<>> /\ (~client.lost => file' = client.active)
      <4>1. k = Len(results) + 1
        BY <1>2, <1>4, <1>5, <3>1, <3>4 DEF CertificateInv
      <4>2. t.what = "copy" /\ t.for = client.number /\ ok
        BY <4>1, <3>4, <1>4, <1>6
      <4>3. file' = client.active
        BY <4>2, <3>1, <1>5, <1>7 DEF CertificateInv
      <4>4. Len(tasks) = 1
        <5> SUFFICES ASSUME Len(tasks) > 1 PROVE FALSE
          BY <1>5
        <5>1. 1 \in 1..Len(tasks) /\ 2 \in 1..Len(tasks)
          BY <1>5
        <5>2. tasks[2].for <= client.number /\ tasks[1].for < tasks[2].for
          BY <5>1 DEF WorkOrder, Ordered
        <5> QED
          BY <5>1, <5>2, <4>2, WorkTypes
      <4> QED
        BY <4>3, <4>4, <1>5
    <3> QED
      BY <1>2, <3>2, <3>3, <3>4 DEF CertificateInv
  <2> QED
    BY <1>2, <1>4, <1>8, <1>10, <2>1, <2>2, <2>3 DEF SavedUrl, MailUrl, AliveInv, StoppedInv
<1> QED
  BY <1>9, <1>10

(* What a handler leaves alone in the Client. *)
SameRun(c, d) ==
  /\ d.number = c.number /\ d.logging_out = c.logging_out /\ d.closing = c.closing
  /\ d.closed = c.closed /\ d.need_close = c.need_close /\ d.wiped = c.wiped
  /\ d.alive = c.alive /\ d.restored = c.restored
SameLife(c, d) == SameRun(c, d) /\ d.lost = c.lost
SameWebhook(c, d) ==
  d.url = c.url /\ d.cert = c.cert /\ d.id = c.id /\ d.type = c.type /\ d.gen = c.gen

(* The first message is taken. *)
LEMMA MailTaken ==
  ASSUME IInv, client.alive, mail # <<>>, mail' = Tail(mail)
  PROVE  /\ mail \in Seq(Mails) /\ Head(mail) = mail[1] /\ mail[1] \in Mails
         /\ mail' \in Seq(Mails) /\ client.url # None
         /\ mail[1].what = "verified" =>
              \/ Len(mail) = 1 /\ mail' = <<>>
              \/ Len(mail) = 2 /\ ~actor.on /\ mail' # <<>> /\ Len(mail') = 1
                 /\ mail'[1] = mail[2] /\ mail[2].what = "closed"
         /\ mail[1].what = "closed" => mail' = <<>> /\ ~actor.on /\ MailCloses /\ Len(mail) = 1
<1>1. /\ mail \in Seq(Mails) /\ Len(mail) \in Nat \ {0} /\ Head(mail) = mail[1] /\ mail[1] \in Mails
      /\ mail' \in Seq(Mails) /\ Len(mail') = Len(mail) - 1
      /\ \A i \in 1..(Len(mail) - 1) : mail'[i] = mail[i + 1]
      /\ Len(mail) = 1 => mail' = <<>>
  BY TailOf DEF IInv, Types
<1>2. MailShape /\ client.url # None
  BY DEF IInv, AliveInv, MailUrl
<1>3. Len(mail) = 1 \/ Len(mail) = 2
  BY <1>1, <1>2 DEF MailShape
<1> QED
  BY <1>1, <1>2, <1>3, EmptySeq DEF MailShape, IsMail, MailCloses

LEMMA OnVerifiedKeeps ==
  ASSUME IInv, OnVerified
  PROVE  IInv'
<1>1. /\ client.alive /\ mail # <<>> /\ mail' = Tail(mail)
      /\ UNCHANGED <<actor, tasks, results, file, asked>>
  BY DEF OnVerified
<1>2. mail[1].what = "verified"
  BY <1>1, MailTaken DEF OnVerified
<1>3. /\ client \in Clients /\ client' \in Clients /\ SameLife(client, client')
      /\ SameWebhook(client, client')
      /\ client'.active = client.active /\ client'.poll = client.poll
      /\ client'.set = client.set \/ client'.set = 0
      /\ (db' = db /\ client' = client) \/ db' = Saved(client)
  <2>1. client \in Clients
    BY DEF IInv, Types
  <2>2. CASE UNCHANGED <<client, db, answer>>
    BY <2>1, <2>2 DEF SameLife, SameRun, SameWebhook
  <2>3. CASE client' = [client EXCEPT !.set = 0] /\ db' = Saved(client)
    BY <2>1, <2>3, ControlAssumption DEF Clients, SameLife, SameRun, SameWebhook, Internal
  <2> QED
    BY <2>2, <2>3 DEF OnVerified
<1>4. answer' \in Seq(Answers) /\ Len(answer') = Len(answer)
  <2>1. "ok" \in Answers
    BY DEF Answers
  <2> QED
    BY <2>1, ReplyOf DEF OnVerified, IInv, Types
<1>5. db' \in [url : Nat, cert : 0..MaxQueries]
  BY <1>3 DEF IInv, Types, Saved, Clients
<1>6. Types'
  BY <1>1, <1>3, <1>4, <1>5, MailTaken DEF IInv, Types
<1>7. WorkOrder' /\ (\A w : Has(tasks, w)' <=> Has(tasks, w)) /\ (\A w : Has(results, w)' <=> Has(results, w))
  BY <1>1, <1>3, WorkSame DEF IInv, SameLife, SameRun
<1>8. MailUrl' /\ SavedUrl'
  BY <1>1, <1>3, MailTaken DEF MailUrl, SavedUrl, IInv, SameWebhook, Saved
<1>9. MailShape'
  <2>1. CASE mail' = <<>>
    BY <2>1 DEF MailShape
  <2>2. CASE Len(mail') = 1 /\ ~actor.on
    <3>1. actor' = actor /\ actor \in Actors
      BY <1>1 DEF IInv, Types
    <3> QED
      BY <2>2, <3>1 DEF MailShape, IsMail, Actors
  <2> QED
    BY <1>1, <1>2, <2>1, <2>2, MailTaken
<1>10. ToCome'
  <2>1. ToCome
    BY <1>1 DEF IInv, AliveInv
  <2>2. MailCloses => MailCloses'
    BY <1>1, <1>2, MailTaken DEF MailCloses, IsMail
  <2> QED
    BY <1>1, <1>3, <1>7, <2>1, <2>2 DEF ToCome, InUse, NoWork, HasWork, SameLife, SameRun, SameWebhook
<1>11. Held'
  BY <1>1, <1>3 DEF IInv, AliveInv, Held, SameLife, SameRun, SameWebhook, Ending
<1>12. Generation'
  <2>1. Generation
    BY <1>1 DEF IInv, AliveInv
  <2>2. \A k \in 1..Len(mail') : \E j \in 1..Len(mail) : mail'[k] = mail[j]
    BY <1>1, <1>2, MailTaken, EmptySeq
  <2>3. client'.set # 0 => client'.set = client.set
    BY <1>3
  <2> QED
    BY <1>1, <1>3, <2>1, <2>2, <2>3, LenProperties DEF Generation, SameWebhook, IInv, Types
<1>13. ASSUME ~client.closed PROVE SavedInv' /\ CertificateInv'
  <2>1. SavedInv /\ CertificateInv
    BY <1>1, <1>13 DEF IInv, AliveInv
  <2>2. SavedInv'
    BY <1>1, <1>3, <2>1, MailTaken DEF SavedInv, SameWebhook, SameLife, SameRun, Saved
  <2>3. CertificateInv'
    BY <1>1, <1>3, <1>7, <2>1 DEF CertificateInv, SameWebhook, SameLife, SameRun
  <2> QED
    BY <2>2, <2>3
<1> QED
  BY <1>1, <1>3, <1>6, <1>7, <1>8, <1>9, <1>10, <1>11, <1>12, <1>13
     DEF IInv, AliveInv, StoppedInv, SameLife, SameRun


-------------------------------------------------------------------------------
(* Setting a webhook, for a Client c that has none: nothing is to come.    *)
Prepared(c) ==
  /\ c \in Clients /\ c.alive
  /\ c.wiped => c.closed
  /\ c.closed => Ending(c) /\ ~c.poll
  /\ c.url = None /\ c.set = 0 /\ c.active = 0 /\ ~c.id
  /\ ~actor.on /\ mail' = <<>> /\ results' \in Seq(Results) /\ NoneOf(c.number)
  /\ file' = file
  /\ db' \in [url : Nat, cert : 0..MaxQueries] /\ SavedUrl'
  /\ c.restored => db' = NotSaved

(* The answers and the requests, where request q is r. *)
Asking(ans, q, r) ==
  /\ asked' \in Seq(Requests) /\ Len(asked') <= MaxQueries
  /\ ans \in Seq(Answers) /\ Len(ans) = Len(asked')
  /\ q \in 1..Len(asked') /\ asked'[q] = r

(* The request is answered, or there was none. *)
LEMMA SetAnswered ==
  ASSUME IInv, NEW c, Prepared(c), c.cert # 0 => Ending(c), client' = c,
         UNCHANGED <<actor, tasks>>,
         asked' \in Seq(Requests), Len(asked') <= MaxQueries,
         answer' \in Seq(Answers), Len(answer') = Len(asked')
  PROVE  IInv'
<1>1. Types' /\ SavedUrl'
  BY EmptySeq DEF IInv, Types, Prepared
<1>2. WorkOrder' /\ \A w : ~Has(tasks, w)' /\ ~Has(results, w)'
  BY NoWorkAdded DEF IInv, Prepared
<1>3. MailUrl' /\ MailShape' /\ ToCome'
  BY <1>2 DEF Prepared, MailUrl, MailShape, ToCome, NoWork, HasWork
<1>4. Held' /\ Generation' /\ SavedInv'
  BY DEF Prepared, Held, Ending, Generation, SavedInv, Internal
<1>5. CertificateInv'
  BY <1>2 DEF Prepared, CertificateInv, Has
<1> QED
  BY <1>1, <1>2, <1>3, <1>4, <1>5 DEF IInv, AliveInv, StoppedInv, Prepared

(* Its certificate is copied first. *)
LEMMA SetCopies ==
  ASSUME IInv, NEW c, Prepared(c), ~Ending(c), c.cert = 0,
         NEW ans, NEW q, NEW r, Asking(ans, q, r), r.cert, ~c.poll,
         client' = [c EXCEPT !.active = q, !.lost = ~c.restored], answer' = ans, UNCHANGED actor,
         tasks' = Append(tasks, [what |-> "copy", of |-> q, for |-> c.number])
  PROVE  IInv'
<1>1. q \in 1..MaxQueries /\ q # 0
  BY LenProperties, ControlAssumption DEF Asking
<1>2. /\ client' \in Clients /\ SameRun(c, client') /\ SameWebhook(c, client')
      /\ client'.active = q /\ client'.set = 0 /\ ~client'.poll
  <2>1. c \in Clients /\ c.set = 0
    BY DEF Prepared
  <2>2. q \in 0..MaxQueries
    BY <1>1, ControlAssumption
  <2>3. PICK l \in BOOLEAN : l = ~c.restored
    OBVIOUS
  <2>4. client' = [c EXCEPT !.active = q, !.lost = l]
    BY <2>3
  <2> QED
    BY <2>1, <2>2, <2>4 DEF Clients, SameRun, SameWebhook, Prepared
<1>3. PICK t : t = [what |-> "copy", of |-> q, for |-> c.number]
  OBVIOUS
<1>4. t \in Tasks /\ t.what = "copy" /\ t.of = q /\ t.for = client'.number
  BY <1>1, <1>2, <1>3, ControlAssumption DEF Tasks, Prepared, Clients, SameRun
<1>5. /\ tasks' \in Seq(Tasks) /\ WorkOrder'
      /\ \A w : (Has(tasks, w)' <=> w = t.what) /\ ~Has(results, w)'
      /\ \A k \in 1..Len(tasks') : tasks'[k].for = client'.number => tasks'[k] = t
  BY <1>2, <1>3, <1>4, WorkAdded DEF IInv, Prepared, SameRun
<1>6. Types' /\ SavedUrl'
  BY <1>2, <1>5, EmptySeq DEF IInv, Types, Prepared, Asking
<1>7. MailUrl' /\ MailShape' /\ ToCome'
  BY <1>1, <1>2, <1>4, <1>5
     DEF Prepared, MailUrl, MailShape, ToCome, NoWork, HasWork, SameRun, SameWebhook
<1>8. Held' /\ Generation' /\ SavedInv'
  BY <1>1, <1>2
     DEF Prepared, Asking, Held, Ending, Generation, SavedInv, Internal, SameRun, SameWebhook
<1>9. CertificateInv'
  BY <1>2, <1>4, <1>5 DEF Prepared, CertificateInv, Has, SameWebhook
<1> QED
  BY <1>2, <1>5, <1>6, <1>7, <1>8, <1>9 DEF IInv, AliveInv, StoppedInv, Prepared, SameRun

(* finish_set_webhook, with the certificate in place. *)
LEMMA SetFinishes ==
  ASSUME IInv, NEW c, Prepared(c), ~Ending(c),
         NEW ans, NEW q, NEW r, Asking(ans, q, r), r.url # None, ~c.poll,
         c.cert = IF r.cert THEN q ELSE 0, r.cert => tasks = <<>> /\ (~c.lost => file = q),
         client' = [c EXCEPT !.url = r.url, !.id = TRUE, !.type = "Verify", !.set = q],
         actor' = [on |-> TRUE, gen |-> c.gen, checked |-> FALSE, close |-> FALSE],
         answer' = ans, UNCHANGED tasks
  PROVE  IInv'
<1>1. q \in 1..MaxQueries /\ q # 0 /\ q # Internal /\ r.url \in Nat
  BY LenProperties, ElementOfSeq, ControlAssumption DEF Asking, Internal
<1>2. /\ client' \in Clients /\ SameLife(c, client')
      /\ client'.url = r.url /\ client'.cert = c.cert /\ client'.id /\ client'.type = "Verify"
      /\ client'.gen = c.gen /\ client'.active = 0 /\ client'.set = q /\ ~client'.poll
  <2>1. c \in Clients /\ c.active = 0
    BY DEF Prepared
  <2>2. q \in 0..Internal
    BY <1>1, ControlAssumption DEF Internal
  <2> QED
    BY <1>1, <2>1, <2>2 DEF Clients, SameLife, SameRun
<1>3. actor' \in Actors /\ actor'.on /\ actor'.gen = c.gen /\ c.gen \in Nat
  BY DEF Prepared, Clients, Actors
<1>4. WorkOrder' /\ \A w : ~Has(tasks, w)' /\ ~Has(results, w)'
  BY <1>2, NoWorkAdded DEF IInv, Prepared, SameLife, SameRun
<1>5. Types' /\ SavedUrl'
  BY <1>2, <1>3, EmptySeq DEF IInv, Types, Prepared, Asking
<1>6. MailUrl' /\ MailShape' /\ ToCome'
  BY <1>2, <1>3, <1>4 DEF Prepared, MailUrl, MailShape, ToCome, InUse, NoWork, HasWork
<1>7. Held' /\ SavedInv'
  BY <1>1, <1>2 DEF Prepared, Asking, Held, Ending, SavedInv, Internal, SameLife, SameRun
<1>8. Generation'
  BY <1>1, <1>2, <1>3 DEF Prepared, Asking, Generation
<1>9. CertificateInv'
  BY <1>2, <1>4 DEF Prepared, CertificateInv, Has
<1> QED
  BY <1>2, <1>4, <1>5, <1>6, <1>7, <1>8, <1>9 DEF IInv, AliveInv, StoppedInv, Prepared, SameLife, SameRun


(* do_set_webhook. *)
LEMMA DoSetKeeps ==
  ASSUME IInv, NEW c, Prepared(c), c.cert # 0 => Ending(c),
         NEW ans, NEW q, NEW r, Asking(ans, q, r), c.poll => r.url = None,
         DoSetWebhook(c, ans, q, r)
  PROVE  IInv'
<1>1. /\ asked' \in Seq(Requests) /\ Len(asked') <= MaxQueries /\ r \in Requests
      /\ ans \in Seq(Answers) /\ Len(ans) = Len(asked')
  BY ElementOfSeq DEF Asking
<1>2. \A what \in Answers : /\ Reply(ans, q, what) \in Seq(Answers)
                            /\ Len(Reply(ans, q, what)) = Len(asked')
  BY <1>1, ReplyOf
<1>3. CASE client' = c /\ answer' \in Seq(Answers) /\ Len(answer') = Len(asked')
           /\ UNCHANGED <<actor, tasks>>
  BY <1>1, <1>3, SetAnswered
<1>4. CASE /\ ~Ending(c) /\ r.url # None /\ r.cert
           /\ client' = [c EXCEPT !.active = q, !.lost = ~c.restored]
           /\ tasks' = Append(tasks, [what |-> "copy", of |-> q, for |-> c.number])
           /\ answer' = ans
           /\ UNCHANGED actor
  BY <1>4, SetCopies
<1>5. CASE /\ ~Ending(c) /\ r.url # None /\ ~r.cert /\ UNCHANGED tasks
           /\ client' = [c EXCEPT !.url = r.url, !.id = TRUE, !.type = "Verify", !.set = q]
           /\ actor' = [on |-> TRUE, gen |-> c.gen, checked |-> FALSE, close |-> FALSE]
           /\ answer' = ans
  BY <1>5, SetFinishes
<1>6. "ok" \in Answers /\ "failed" \in Answers
  BY DEF Answers
<1>7. CASE /\ client' = c /\ UNCHANGED <<actor, tasks>>
           /\ answer' = Reply(ans, q, IF ~Ending(c) /\ r.url = None THEN "ok" ELSE "failed")
  BY <1>2, <1>3, <1>6, <1>7
<1> QED
  BY <1>4, <1>5, <1>7 DEF DoSetWebhook, FinishSetWebhook

(* on_webhook_closed, when nothing else is to come. *)
Closing ==
  /\ client.alive /\ client.url # None /\ client.active = 0 /\ ~actor.on /\ mail' = <<>>
  /\ results' \in Seq(Results) /\ NoneOf(client.number) /\ UNCHANGED <<file, asked>>
  /\ OnWebhookClosed

IsWithout(c) == c = WithoutWebhook(client)

LEMMA ClosedPrepared ==
  ASSUME IInv, Closing, NEW c, IsWithout(c)
  PROVE  /\ Prepared(c) /\ c.cert = 0 /\ ~c.poll
         /\ client.set # 0 /\ client.type = "Cancel" =>
              Asking(answer, client.set, asked[client.set])
<1>1. c = WithoutWebhook(client)
  BY DEF IsWithout
<1>2. client \in Clients /\ Held
  BY DEF IInv, Types, AliveInv, Closing
<1>3. /\ c \in Clients /\ SameLife(client, c) /\ c.url = None /\ c.cert = 0 /\ c.set = 0 /\ ~c.id
      /\ c.active = client.active /\ c.poll = client.poll
  <2>1. 0 \in 0..MaxQueries /\ 0 \in 0..Internal
    BY ControlAssumption DEF Internal
  <2> QED
    BY <1>1, <1>2, <2>1 DEF WithoutWebhook, Clients, SameLife, SameRun, None
<1>4. db' = NotSaved
  BY DEF Closing, OnWebhookClosed, Erased
<1>5. Prepared(c) /\ ~c.poll
  <2>1. db' \in [url : Nat, cert : 0..MaxQueries] /\ SavedUrl'
    BY <1>4, ControlAssumption DEF NotSaved, SavedUrl, None
  <2> QED
    BY <1>2, <1>3, <1>4, <2>1 DEF Closing, Prepared, SameLife, SameRun, Held, Ending, None
<1>6. ASSUME client.set # 0, client.type = "Cancel"
      PROVE  Asking(answer, client.set, asked[client.set])
  <2>1. client.set \in 1..Len(asked)
    BY <1>2, <1>6 DEF Held
  <2> QED
    BY <2>1 DEF Asking, Closing, IInv, Types
<1> QED
  BY <1>1, <1>3, <1>5, <1>6

LEMMA OnWebhookClosedKeeps ==
  ASSUME IInv, Closing
  PROVE  IInv'
<1>0. PICK c : c = WithoutWebhook(client)
  OBVIOUS
<1>1. /\ Prepared(c) /\ c.cert = 0 /\ ~c.poll
      /\ client.set # 0 /\ client.type = "Cancel" =>
           Asking(answer, client.set, asked[client.set])
  BY <1>0, ClosedPrepared DEF IsWithout
<1>2. /\ asked' \in Seq(Requests) /\ Len(asked') <= MaxQueries
      /\ answer \in Seq(Answers) /\ Len(answer) = Len(asked')
  BY DEF Closing, IInv, Types
<1>3. CASE client' = c /\ UNCHANGED <<actor, tasks, answer>>
  BY <1>1, <1>2, <1>3, SetAnswered
<1>4. CASE client' = c /\ answer' = Reply(answer, client.set, "failed") /\ UNCHANGED <<actor, tasks>>
  <2>1. "failed" \in Answers
    BY DEF Answers
  <2>2. answer' \in Seq(Answers) /\ Len(answer') = Len(asked')
    BY <1>2, <1>4, <2>1, ReplyOf
  <2> QED
    BY <1>1, <1>2, <1>4, <2>2, SetAnswered
<1>5. CASE /\ client.set # 0 /\ client.type = "Cancel"
           /\ DoSetWebhook(c, answer, client.set, asked[client.set])
  BY <1>1, <1>5, DoSetKeeps
<1> QED
  BY <1>0, <1>3, <1>4, <1>5 DEF Closing, OnWebhookClosed


-------------------------------------------------------------------------------
(* The messages and the results that the Client handles. *)

LEMMA NothingOwn ==
  ASSUME IInv, NoWork, results' = results
  PROVE  NoneOf(client.number)
<1>1. \A k \in 1..Len(tasks) : tasks[k].for < client.number
  <2>1. \A k \in 1..Len(tasks) : tasks[k].what \in {"copy", "unlink"}
    BY WorkTypes DEF IInv, Tasks
  <2>2. \A k \in 1..Len(tasks) : tasks[k].for # client.number
    BY <2>1 DEF NoWork, HasWork, Has
  <2> QED
    BY <2>2, WorkTypes DEF IInv, WorkOrder
<1>2. \A k \in 1..Len(results) : results[k].for < client.number
  <2>1. \A k \in 1..Len(results) : results[k].what \in {"copy", "unlink"}
    BY WorkTypes DEF IInv, Results
  <2>2. \A k \in 1..Len(results) : results[k].for # client.number
    BY <2>1 DEF NoWork, HasWork, Has
  <2> QED
    BY <2>2, WorkTypes DEF IInv, WorkOrder
<1> QED
  BY <1>1, <1>2 DEF NoneOf, IInv, WorkOrder

LEMMA MessageCloses ==
  ASSUME IInv, OnClosed
  PROVE  /\ client.alive /\ mail' = <<>> /\ ~actor.on /\ client.url # None
         /\ NoWork /\ client.active = 0 /\ NoneOf(client.number) /\ results' \in Seq(Results)
         /\ UNCHANGED <<results, file, asked>>
         /\ OnWebhookClosed => Closing
<1>1. /\ client.alive /\ mail # <<>> /\ mail' = Tail(mail)
      /\ UNCHANGED <<results, file, asked>>
  BY DEF OnClosed
<1>2. /\ mail[1].what = "closed" /\ mail' = <<>> /\ ~actor.on /\ MailCloses
      /\ client.url # None
  BY <1>1, MailTaken DEF OnClosed
<1>3. NoWork /\ client.active = 0
  BY <1>1, <1>2 DEF IInv, AliveInv, ToCome, InUse
<1>4. NoneOf(client.number) /\ results' \in Seq(Results)
  BY <1>1, <1>3, NothingOwn DEF IInv, Types
<1> QED
  BY <1>1, <1>2, <1>3, <1>4 DEF Closing

LEMMA OnClosedKeeps ==
  ASSUME IInv, OnClosed
  PROVE  IInv'
<1>1. client.alive /\ UNCHANGED <<results, file, asked>>
  BY MessageCloses
<1>2. mail' = <<>> /\ ~actor.on /\ client.url # None
  BY MessageCloses
<1>3. NoWork /\ client.active = 0
  BY MessageCloses
<1>4. NoneOf(client.number) /\ results' \in Seq(Results)
  BY MessageCloses
<1>5. CASE client.cert = 0 /\ OnWebhookClosed
  BY <1>5, MessageCloses, OnWebhookClosedKeeps
<1>6. CASE /\ client.cert # 0
           /\ tasks' = Append(tasks, [what |-> "unlink", of |-> 0, for |-> client.number])
           /\ UNCHANGED <<client, actor, db, answer>>
  <2>1. PICK t : t = [what |-> "unlink", of |-> 0, for |-> client.number]
    OBVIOUS
  <2>2. t \in Tasks /\ t.what = "unlink" /\ t.for = client.number
    BY <2>1, ControlAssumption DEF IInv, Types, Clients, Tasks
  <2>3. client' \in Clients /\ client'.number = client.number
    BY <1>6 DEF IInv, Types
  <2>4. /\ tasks' \in Seq(Tasks) /\ WorkOrder'
        /\ \A w : (Has(tasks, w)' <=> w = "unlink") /\ ~Has(results, w)'
        /\ \A k \in 1..Len(tasks') : tasks'[k].for = client.number => tasks'[k] = t
    BY <1>4, <1>6, <2>1, <2>2, <2>3, WorkAdded DEF IInv
  <2>5. Types' /\ SavedUrl' /\ MailUrl'
    BY <1>1, <1>2, <1>6, <2>4, EmptySeq DEF IInv, Types, SavedUrl, MailUrl
  <2>6. MailShape' /\ ToCome'
    BY <1>2, <1>3, <1>6, <2>4 DEF MailShape, ToCome, InUse, NoWork, HasWork
  <2>7. Held' /\ Generation'
    BY <1>1, <1>2, <1>6 DEF IInv, AliveInv, Held, Generation, Ending
  <2>8. ASSUME ~client.closed PROVE SavedInv' /\ CertificateInv'
    <3>1. SavedInv /\ CertificateInv
      BY <1>1, <2>8 DEF IInv, AliveInv
    <3>2. SavedInv'
      BY <1>6, <3>1 DEF SavedInv, Saved
    <3>3. ASSUME ~client.lost
          PROVE  /\ file = client.cert
                 /\ \A k \in 1..Len(tasks') : tasks'[k].what = "unlink" /\ tasks'[k].for = client.number
      <4>1. /\ file = client.cert
            /\ \A k \in 1..Len(tasks) : tasks[k].what = "unlink" /\ tasks[k].for = client.number
        BY <1>2, <1>3, <1>6, <3>1, <3>3 DEF CertificateInv, NoWork, HasWork
      <4>2. Len(tasks) \in Nat /\ \A k \in 1..Len(tasks) : FALSE
        BY <4>1, <1>3, WorkTypes DEF NoWork, HasWork, Has, IInv
      <4>3. Len(tasks) = 0
        BY <4>2
      <4>4. Len(tasks') = 1 /\ tasks'[1] = t
        BY <4>3, <1>6, <2>1, <2>2, AppendOf DEF IInv, Types
      <4> QED
        BY <4>1, <4>4, <2>2
    <3>4. \A k \in 1..Len(tasks') :
            tasks'[k].what = "copy" /\ tasks'[k].for = client.number => tasks'[k].of = client.active
      BY <2>2, <2>4
    <3>5. \A k \in 1..Len(results) : ~(results[k].what = "copy" /\ results[k].for = client.number)
      BY <1>3 DEF NoWork, HasWork, Has
    <3>6. CertificateInv'
      BY <1>1, <1>6, <3>3, <3>4, <3>5 DEF CertificateInv
    <3> QED
      BY <3>2, <3>6
  <2> QED
    BY <1>1, <1>6, <2>4, <2>5, <2>6, <2>7, <2>8 DEF IInv, AliveInv, StoppedInv
<1> QED
  BY <1>5, <1>6 DEF OnClosed

(* A result for a Client that is gone is dropped. *)
LEMMA ResultDropped ==
  ASSUME IInv, results # <<>>, results' = Tail(results), ~IsFor(results[1]),
         UNCHANGED <<client, actor, mail, tasks, file, db, asked, answer>>
  PROVE  IInv'
<1>1. /\ results' \in Seq(Results) /\ WorkOrder'
      /\ results[1].for # client.number => \A w : Has(results, w)' <=> Has(results, w)
      /\ \A k \in 1..Len(results') : \E j \in 1..Len(results) : results'[k] = results[j]
  BY WorkTaken DEF IInv
<1>2. Types' /\ SavedUrl' /\ MailUrl'
  BY <1>1 DEF IInv, Types, SavedUrl, MailUrl
<1>3. CASE ~client.alive
  BY <1>1, <1>2, <1>3 DEF IInv, AliveInv, StoppedInv
<1>4. CASE client.alive
  <2>1. \A w : (Has(results, w)' <=> Has(results, w)) /\ (Has(tasks, w)' <=> Has(tasks, w))
    <3>1. \A w : Has(tasks, w)' <=> Has(tasks, w)
      BY DEF Has
    <3>2. results[1].for # client.number
      BY <1>4 DEF IsFor
    <3> QED
      BY <1>1, <3>1, <3>2
  <2>2. MailShape' /\ ToCome' /\ Held' /\ Generation'
    BY <1>4, <2>1
       DEF IInv, AliveInv, MailShape, ToCome, Held, Generation, InUse, NoWork, HasWork, MailCloses,
           IsMail, Ending
  <2>3. ASSUME ~client.closed PROVE SavedInv' /\ CertificateInv'
    <3>1. SavedInv /\ CertificateInv
      BY <1>4, <2>3 DEF IInv, AliveInv
    <3>2. SavedInv'
      BY <3>1 DEF SavedInv, Saved
    <3>3. CertificateInv'
      BY <1>1, <2>1, <3>1 DEF CertificateInv
    <3> QED
      BY <3>2, <3>3
  <2> QED
    BY <1>1, <1>2, <1>4, <2>2, <2>3 DEF IInv, AliveInv, StoppedInv
<1> QED
  BY <1>3, <1>4

(* on_webhook_certificate_copied. *)
LEMMA CopiedKeeps ==
  ASSUME IInv, results # <<>>, results' = Tail(results), IsFor(results[1]),
         results[1].what = "copy", OnWebhookCertificateCopied(results[1].ok),
         UNCHANGED <<mail, file, asked>>
  PROVE  IInv'
<1> DEFINE q == client.active
<1>1. client.alive /\ results[1].for = client.number /\ q # 0
  BY DEF IsFor, OnWebhookCertificateCopied
<1>2. tasks = <<>> /\ results' = <<>> /\ Len(results) \in Nat \ {0}
  BY <1>1, OwnIsLast, TailOf DEF IInv, Types
<1>3. client \in Clients /\ Held /\ SavedUrl /\ db \in [url : Nat, cert : 0..MaxQueries]
  BY <1>1 DEF IInv, Types, AliveInv
<1>4. /\ client.url = None /\ ~client.closed /\ ~actor.on /\ mail = <<>> /\ client.set = 0
      /\ ~client.id /\ ~client.poll /\ ~client.wiped
  <2>1. HasWork("copy")
    BY <1>1, <1>2 DEF HasWork, Has
  <2> QED
    BY <1>1, <1>3, <2>1 DEF IInv, AliveInv, ToCome, NoWork, InUse, Held
<1>5. q \in 1..Len(asked) /\ asked[q].cert /\ asked[q] \in Requests /\ asked[q].url # None
  BY <1>1, <1>3, ElementOfSeq, ControlAssumption DEF Held, IInv, Types
<1>6. client.restored => db = NotSaved
  BY <1>1, <1>4 DEF IInv, AliveInv, SavedInv
<1>7. results[1].ok /\ ~client.lost => file = q
  BY <1>1, <1>2, <1>4 DEF IInv, AliveInv, CertificateInv
<1>8. Asking(answer, q, asked[q])
  BY <1>5 DEF Asking, IInv, Types
<1>9. /\ db' = db /\ UNCHANGED tasks
  BY DEF OnWebhookCertificateCopied
<1>10. NoneOf(client.number)
  <2>1. tasks = <<>> /\ results' = <<>>
    BY <1>2
  <2> QED
    <3>1. Len(tasks) = 0 /\ Len(results') = 0
      BY <2>1
    <3>2. \A k \in 1..0 : FALSE
      OBVIOUS
    <3> QED
      BY <3>1, <3>2 DEF NoneOf, Ordered
<1>11. ASSUME NEW c \in Clients, SameLife(client, c), c.url = client.url, c.set = client.set,
              c.id = client.id, c.poll = client.poll, c.active = 0
       PROVE  Prepared(c)
  BY <1>1, <1>2, <1>3, <1>4, <1>6, <1>9, <1>10, <1>11, EmptySeq
     DEF Prepared, SameLife, SameRun, SavedUrl, Ending, None
<1>12. PICK c : c = [client EXCEPT !.active = 0]
  OBVIOUS
<1>13. /\ c \in Clients /\ SameLife(client, c) /\ SameWebhook(client, c)
       /\ c.set = client.set /\ c.poll = client.poll /\ c.active = 0
  <2>1. 0 \in 0..MaxQueries
    BY ControlAssumption
  <2> QED
    BY <1>3, <1>12, <2>1 DEF Clients, SameLife, SameRun, SameWebhook
<1>14. PICK d : d = [c EXCEPT !.cert = q]
  OBVIOUS
<1>15. /\ d \in Clients /\ SameLife(client, d) /\ d.url = client.url /\ d.cert = q /\ d.id = client.id
       /\ d.set = client.set /\ d.poll = client.poll /\ d.active = 0 /\ d.gen = client.gen
  <2>1. q \in 0..MaxQueries
    BY <1>3 DEF Clients
  <2> HIDE DEF q
  <2> QED
    BY <1>13, <1>14, <2>1 DEF Clients, SameLife, SameRun, SameWebhook
<1>16. /\ asked' \in Seq(Requests) /\ Len(asked') <= MaxQueries
       /\ Reply(answer, q, "failed") \in Seq(Answers)
       /\ Len(Reply(answer, q, "failed")) = Len(asked')
  <2>1. "failed" \in Answers
    BY DEF Answers
  <2> QED
    BY <2>1, ReplyOf DEF IInv, Types
<1>17. CASE client' = c /\ answer' = Reply(answer, q, "failed") /\ UNCHANGED actor
  <2>1. c.cert # 0 => Ending(c)
    BY <1>3, <1>4, <1>13 DEF Held, SameLife, SameRun, SameWebhook, Ending
  <2>2. Prepared(c)
    BY <1>11, <1>13 DEF SameWebhook
  <2> QED
    BY <1>9, <1>16, <1>17, <2>1, <2>2, SetAnswered
<1>18. CASE results[1].ok /\ FinishSetWebhook(d, answer, q, asked[q].url)
  <2>1. Prepared(d)
    BY <1>11, <1>15
  <2>2. CASE Ending(d) /\ client' = d /\ answer' = Reply(answer, q, "failed") /\ UNCHANGED actor
    BY <1>9, <1>16, <2>1, <2>2, SetAnswered
  <2>3. CASE /\ ~Ending(d)
             /\ client' = [d EXCEPT !.url = asked[q].url, !.id = TRUE, !.type = "Verify", !.set = q]
             /\ actor' = [on |-> TRUE, gen |-> d.gen, checked |-> FALSE, close |-> FALSE]
             /\ answer' = answer
    <3> HIDE DEF q
    <3>1. d.cert = IF asked[q].cert THEN q ELSE 0
      BY <1>5, <1>15
    <3>2. tasks = <<>> /\ (~d.lost => file = q)
      BY <1>2, <1>7, <1>15, <1>18 DEF SameLife, SameRun
    <3> QED
      BY <1>4, <1>5, <1>8, <1>9, <1>15, <2>1, <2>3, <3>1, <3>2, SetFinishes
  <2> QED
    BY <1>18, <2>2, <2>3 DEF FinishSetWebhook
<1> QED
  BY <1>12, <1>14, <1>17, <1>18 DEF OnWebhookCertificateCopied, CopyFails

(* The certificate of the webhook is removed. *)
LEMMA ResultCloses ==
  ASSUME IInv, OnResult, IsFor(results[1]), results[1].what = "unlink", OnWebhookClosed
  PROVE  Closing
<1>1. /\ results # <<>> /\ results' = Tail(results) /\ UNCHANGED <<mail, file, asked>>
      /\ results' \in Seq(Results) /\ Len(results) \in Nat \ {0}
  BY TailOf DEF OnResult, IInv, Types
<1>2. client.alive /\ results[1].for = client.number
  BY DEF IsFor
<1>3. tasks = <<>> /\ results' = <<>>
  BY <1>1, <1>2, OwnIsLast DEF IInv
<1>4. HasWork("unlink")
  BY <1>1, <1>2 DEF HasWork, Has
<1>5. NoneOf(client.number)
  <2>1. Len(tasks) = 0 /\ Len(results') = 0
    BY <1>3
  <2>2. \A k \in 1..0 : FALSE
    OBVIOUS
  <2> QED
    BY <2>1, <2>2 DEF NoneOf, Ordered
<1>6. client.url # None /\ client.active = 0 /\ ~actor.on /\ mail' = <<>>
  BY <1>1, <1>2, <1>4 DEF IInv, AliveInv, ToCome, NoWork, InUse
<1> QED
  BY <1>1, <1>2, <1>5, <1>6 DEF Closing

LEMMA OnResultKeeps ==
  ASSUME IInv, OnResult
  PROVE  IInv'
<1>1. /\ results # <<>> /\ results' = Tail(results) /\ UNCHANGED <<mail, file, asked>>
      /\ Head(results) = results[1] /\ results' \in Seq(Results) /\ Len(results) \in Nat \ {0}
  BY TailOf DEF OnResult, IInv, Types
<1>2. CASE ~IsFor(results[1]) /\ UNCHANGED <<client, actor, tasks, db, answer>>
  BY <1>1, <1>2, ResultDropped
<1>3. CASE IsFor(results[1]) /\ results[1].what = "copy" /\ OnWebhookCertificateCopied(results[1].ok)
  BY <1>1, <1>3, CopiedKeeps
<1>4. CASE IsFor(results[1]) /\ results[1].what = "unlink" /\ OnWebhookClosed
  BY <1>1, <1>4, ResultCloses, OnWebhookClosedKeeps
<1> QED
  BY <1>1, <1>2, <1>3, <1>4 DEF OnResult

-------------------------------------------------------------------------------
(* Answers.  A step is quiet if it answers no request with success. *)
GetsOwn(q) ==
  /\ client'.url = asked'[q].url
  /\ client'.restored \/ asked'[q].url # None =>
       db' = [url |-> asked'[q].url, cert |-> IF asked'[q].cert THEN q ELSE 0]
OwnOks ==
  \A q \in DOMAIN answer' :
    answer'[q] = "ok" /\ (q \in DOMAIN answer => answer[q] # "ok") => GetsOwn(q)
OldOks(ans) == \A k \in DOMAIN ans : ans[k] = "ok" => k \in DOMAIN answer /\ answer[k] = "ok"

LEMMA QuietIsOwn ==
  ASSUME OldOks(answer')
  PROVE  OwnOks
  BY DEF OldOks, OwnOks

LEMMA RepliedOld ==
  ASSUME NEW ans, OldOks(ans), NEW q, NEW what, what # "ok"
  PROVE  OldOks(Reply(ans, q, what))
  BY DEF OldOks, Reply

LEMMA RepliedOwn ==
  ASSUME NEW ans, OldOks(ans), NEW q, answer' = Reply(ans, q, "ok"), q \in DOMAIN ans => GetsOwn(q)
  PROVE  OwnOks
<1> SUFFICES ASSUME NEW k \in DOMAIN answer', answer'[k] = "ok",
                    k \in DOMAIN answer => answer[k] # "ok"
             PROVE  GetsOwn(k)
  BY DEF OwnOks
<1>1. k \in DOMAIN ans /\ (k # q => ans[k] = "ok")
  BY DEF Reply
<1> QED
  BY <1>1 DEF OldOks

LEMMA AppendedOld ==
  ASSUME IInv, NEW what \in Answers, what # "ok"
  PROVE  OldOks(Append(answer, what))
<1>1. answer \in Seq(Answers) /\ Len(answer) \in Nat /\ DOMAIN answer = 1..Len(answer)
  BY LenProperties DEF IInv, Types
<1>2. /\ DOMAIN Append(answer, what) = 1..(Len(answer) + 1)
      /\ Append(answer, what)[Len(answer) + 1] = what
      /\ \A i \in 1..Len(answer) : Append(answer, what)[i] = answer[i]
  BY <1>1, AppendProperties, LenProperties
<1> QED
  BY <1>1, <1>2 DEF OldOks

(* do_set_webhook succeeds only when there is nothing to set. *)
LEMMA DoSetOwn ==
  ASSUME NEW c, Prepared(c), NEW ans, NEW q, NEW r, Asking(ans, q, r), OldOks(ans),
         DoSetWebhook(c, ans, q, r)
  PROVE  OwnOks
<1>1. CASE answer' = ans \/ answer' = Reply(ans, q, "failed")
  BY <1>1, QuietIsOwn, RepliedOld
<1>2. CASE r.url = None /\ client' = c /\ answer' = Reply(ans, q, "ok")
  <2>1. r \in Requests /\ asked'[q] = r
    BY ElementOfSeq DEF Asking
  <2>2. ~r.cert
    BY <1>2, <2>1, ControlAssumption
  <2>3. client'.url = None /\ (client'.restored => db' = NotSaved)
    BY <1>2 DEF Prepared
  <2>4. GetsOwn(q)
    BY <1>2, <2>1, <2>2, <2>3 DEF GetsOwn, NotSaved
  <2> QED
    BY <1>2, <2>4, RepliedOwn
<1> QED
  BY <1>1, <1>2 DEF DoSetWebhook, FinishSetWebhook

-------------------------------------------------------------------------------
(* New requests. *)

(* A request that is answered at once changes nothing else. *)
LEMMA AskedKeeps ==
  ASSUME IInv, NEW r \in Requests, Len(asked) + 1 <= MaxQueries, asked' = Append(asked, r),
         answer' \in Seq(Answers), Len(answer') = Len(asked'),
         UNCHANGED <<client, actor, mail, tasks, results, file, db>>
  PROVE  IInv'
<1>1. /\ asked' \in Seq(Requests) /\ Len(asked') = Len(asked) + 1 /\ Len(asked) \in Nat
      /\ \A i \in 1..Len(asked) : asked'[i] = asked[i]
  BY AppendOf DEF IInv, Types
<1>2. Types' /\ SavedUrl' /\ MailUrl'
  BY <1>1 DEF IInv, Types, SavedUrl, MailUrl
<1>3. WorkOrder' /\ \A w : (Has(tasks, w)' <=> Has(tasks, w)) /\ (Has(results, w)' <=> Has(results, w))
  BY WorkSame DEF IInv
<1>4. CASE ~client.alive
  BY <1>2, <1>3, <1>4 DEF IInv, AliveInv, StoppedInv
<1>5. CASE client.alive
  <2>1. MailShape' /\ ToCome'
    BY <1>3, <1>5 DEF IInv, AliveInv, MailShape, ToCome, InUse, NoWork, HasWork, MailCloses, IsMail
  <2>2. Held
    BY <1>5 DEF IInv, AliveInv
  <2>3. Held'
    BY <1>1, <2>2 DEF Held, Ending
  <2>4. client.set \in 1..Len(asked') => client.set \in 1..Len(asked)
    BY <1>1, <2>2, ControlAssumption DEF Held, Internal
  <2>5. Generation'
    BY <1>1, <1>5, <2>4 DEF IInv, AliveInv, Generation
  <2>6. ~client.closed => SavedInv' /\ CertificateInv'
    BY <1>3, <1>5 DEF IInv, AliveInv, SavedInv, Saved, CertificateInv
  <2> QED
    BY <1>2, <1>3, <1>5, <2>1, <2>3, <2>5, <2>6 DEF IInv, AliveInv, StoppedInv
<1> QED
  BY <1>4, <1>5

(* What process_set_webhook_query changes in the Client. *)
Advances(c, n) == n = [c EXCEPT !.set = 0, !.gen = @ + 1]
LEMMA Advanced ==
  ASSUME NEW c \in Clients, NEW n, Advances(c, n)
  PROVE  /\ n \in Clients /\ SameLife(c, n) /\ n.url = c.url /\ n.cert = c.cert /\ n.id = c.id
         /\ n.gen = c.gen + 1 /\ n.active = c.active /\ n.poll = c.poll /\ n.set = 0
<1>1. PICK g \in Nat : g = c.gen + 1
  BY DEF Clients
<1>2. n = [c EXCEPT !.set = 0, !.gen = g]
  BY <1>1 DEF Clients, Advances
<1>3. 0 \in 0..Internal
  BY ControlAssumption DEF Internal
<1> QED
  BY <1>1, <1>2, <1>3 DEF Clients, SameLife, SameRun

LEMMA Cleared ==
  ASSUME NEW c \in Clients, NEW r, NEW n, n = AbortLongPoll(c, r)
  PROVE  /\ n \in Clients /\ SameLife(c, n) /\ SameWebhook(c, n)
         /\ n.active = c.active /\ n.set = c.set
         /\ n.poll => c.poll /\ r.url = None
  BY DEF AbortLongPoll, Clients, SameLife, SameRun, SameWebhook

(* A request finds a webhook: that is closed first. *)
LEMMA Replaces ==
  ASSUME IInv, client.alive, ~Ending(client), client.url # None,
         NEW r \in Requests, NEW q, q = Len(asked) + 1, q <= MaxQueries, asked' = Append(asked, r),
         client' \in Clients, SameLife(client, client'),
         client'.url = client.url, client'.cert = client.cert, ~client'.id,
         client'.type = "Cancel", client'.gen = client.gen + 1,
         client'.set = q, client'.active = client.active, client'.poll => client.poll,
         actor' = [actor EXCEPT !.close = @ \/ client.id],
         answer' \in Seq(Answers), Len(answer') = Len(asked'),
         UNCHANGED <<mail, tasks, results, file, db>>
  PROVE  IInv'
<1>1. /\ asked' \in Seq(Requests) /\ Len(asked') = Len(asked) + 1 /\ Len(asked) \in Nat
  BY AppendOf DEF IInv, Types
<1>2. client \in Clients /\ Held /\ client.gen \in Nat /\ ~client.closed
  BY DEF IInv, Types, AliveInv, Held, Clients
<1>8. /\ actor' \in Actors /\ actor \in Actors
      /\ actor'.on = actor.on /\ actor'.checked = actor.checked /\ actor'.gen = actor.gen
  <2>1. actor \in Actors /\ client.id \in BOOLEAN
    BY <1>2 DEF IInv, Types, Clients
  <2>2. PICK b \in BOOLEAN : b = (actor.close \/ client.id)
    OBVIOUS
  <2>3. actor' = [actor EXCEPT !.close = b]
    BY <2>1, <2>2 DEF Actors
  <2> QED
    BY <2>1, <2>3 DEF Actors
<1>9. q \in 1..Len(asked') /\ q # 0
  BY <1>1
<1>10. Types' /\ SavedUrl' /\ MailUrl'
  BY <1>1, <1>8 DEF IInv, Types, SavedUrl, MailUrl
<1>11. WorkOrder' /\ \A w : (Has(tasks, w)' <=> Has(tasks, w)) /\ (Has(results, w)' <=> Has(results, w))
  BY WorkSame DEF IInv, SameLife, SameRun
<1>12. MailShape'
  BY <1>8 DEF IInv, AliveInv, MailShape, IsMail
<1>13. ToCome'
  BY <1>2, <1>8, <1>11
     DEF IInv, AliveInv, ToCome, InUse, NoWork, HasWork, MailCloses, IsMail, SameLife, SameRun
<1>14. client.active = 0
  BY <1>2 DEF IInv, AliveInv, ToCome, InUse
<1>15. Held'
  BY <1>2, <1>9, <1>14 DEF Held, Ending, SameLife, SameRun
<1>16. Generation'
  <2>1. Generation /\ actor.gen \in Nat
    BY <1>8 DEF IInv, AliveInv, Actors
  <2>2. \A k \in 1..Len(mail) : mail[k].gen \in Nat
    <3>1. \A k \in 1..Len(mail) : mail[k] \in Mails
      BY ElementOfSeq DEF IInv, Types
    <3> QED
      BY <3>1 DEF Mails
  <2> QED
    BY <1>2, <1>8, <2>1, <2>2 DEF Generation
<1>17. SavedInv' /\ CertificateInv'
  <2>1. SavedInv /\ CertificateInv
    BY <1>2 DEF IInv, AliveInv
  <2> QED
    BY <1>9, <1>11, <2>1 DEF SavedInv, Saved, CertificateInv, SameLife, SameRun
<1> QED
  BY <1>10, <1>11, <1>12, <1>13, <1>15, <1>16, <1>17 DEF IInv, AliveInv, StoppedInv, SameLife, SameRun

(* The Client that a request creates. *)
LEMMA NewIsClient ==
  ASSUME NEW n \in 1..MaxClients, NEW b \in BOOLEAN, NEW l \in BOOLEAN, NEW c,
         c = NewClient(n, b, l)
  PROVE  /\ c \in Clients /\ c.number = n /\ c.url = None /\ c.cert = 0 /\ ~c.id /\ c.set = 0
         /\ c.active = 0 /\ c.type = "Verify" /\ c.gen = 0 /\ ~c.poll /\ ~c.logging_out
         /\ ~c.closing /\ ~c.closed /\ ~c.wiped /\ c.alive /\ c.restored = b /\ c.lost = l
<1>1. 0 \in 0..MaxQueries /\ 0 \in 0..Internal
  BY ControlAssumption DEF Internal
<1> QED
  BY <1>1 DEF NewClient, Clients, None


(* The answers after a request has come in. *)
LEMMA AskedAnswers ==
  ASSUME IInv, NEW r \in Requests, asked' = Append(asked, r), Len(asked) + 1 <= MaxQueries,
         NEW held
  PROVE  /\ asked' \in Seq(Requests) /\ Len(asked') = Len(asked) + 1 /\ Len(asked) \in Nat
         /\ asked'[Len(asked) + 1] = r
         /\ \A what \in Answers :
              /\ Append(answer, what) \in Seq(Answers) /\ Len(Append(answer, what)) = Len(asked')
              /\ \A k : /\ Reply(Append(answer, "none"), k, what) \in Seq(Answers)
                        /\ Len(Reply(Append(answer, "none"), k, what)) = Len(asked')
         /\ Asking(Replaced(Append(answer, "none"), held), Len(asked) + 1, r)
<1>1. /\ asked' \in Seq(Requests) /\ Len(asked') = Len(asked) + 1 /\ Len(asked) \in Nat
      /\ asked'[Len(asked) + 1] = r
  BY AppendOf DEF IInv, Types
<1>2. \A what \in Answers :
        Append(answer, what) \in Seq(Answers) /\ Len(Append(answer, what)) = Len(asked')
  BY <1>1, AppendOf DEF IInv, Types
<1>3. "none" \in Answers /\ "failed" \in Answers
  BY DEF Answers
<1>4. \A what \in Answers : \A k :
        /\ Reply(Append(answer, "none"), k, what) \in Seq(Answers)
        /\ Len(Reply(Append(answer, "none"), k, what)) = Len(asked')
  <2>1. PICK ans : ans = Append(answer, "none")
    OBVIOUS
  <2>2. ans \in Seq(Answers) /\ Len(ans) = Len(asked')
    BY <1>2, <1>3, <2>1
  <2> QED
    BY <2>1, <2>2, ReplyOf
<1>5. Asking(Replaced(Append(answer, "none"), held), Len(asked) + 1, r)
  BY <1>1, <1>3, <1>4 DEF Asking, Replaced
<1> QED
  BY <1>1, <1>2, <1>4, <1>5

(* process_set_webhook_query of a Client c that has no webhook goes on as n. *)
GoesOn(c, r, n) == n = [AbortLongPoll(c, r) EXCEPT !.set = 0, !.gen = @ + 1]

LEMMA GoesOnPrepared ==
  ASSUME NEW c, Prepared(c), NEW r, NEW n, GoesOn(c, r, n)
  PROVE  /\ Prepared(n) /\ n.cert = c.cert /\ (Ending(n) <=> Ending(c)) /\ (n.poll => r.url = None)
         /\ SameLife(c, n)
<1>1. PICK b : b = AbortLongPoll(c, r)
  OBVIOUS
<1>2. n = [b EXCEPT !.set = 0, !.gen = @ + 1]
  BY <1>1 DEF GoesOn
<1>3. c \in Clients
  BY DEF Prepared
<1>4. /\ b \in Clients /\ SameLife(c, b) /\ SameWebhook(c, b) /\ b.active = c.active
      /\ b.poll => c.poll /\ r.url = None
  BY <1>1, <1>3, Cleared, Zenon
<1>5. b \in Clients
  BY <1>4
<1>6. /\ n \in Clients /\ SameLife(b, n) /\ n.url = b.url /\ n.cert = b.cert /\ n.id = b.id
      /\ n.active = b.active /\ n.poll = b.poll /\ n.set = 0
  BY <1>2, <1>5, Advanced DEF Advances
<1>7. /\ n \in Clients /\ SameLife(c, n) /\ n.url = c.url /\ n.cert = c.cert /\ n.id = c.id
      /\ n.active = c.active /\ n.set = 0
      /\ n.poll => c.poll /\ r.url = None
  BY <1>4, <1>6 DEF SameLife, SameRun, SameWebhook
<1> QED
  BY <1>7 DEF Prepared, SameLife, SameRun, Ending

LEMMA ProcessWithout ==
  ASSUME IInv, NEW r \in Requests, asked' = Append(asked, r), Len(asked) + 1 <= MaxQueries,
         NEW c, Prepared(c), c.cert # 0 => Ending(c), NEW n, GoesOn(c, r, n),
         DoSetWebhook(n, Replaced(Append(answer, "none"), c.set), Len(asked) + 1, r)
  PROVE  IInv' /\ OwnOks
<1>1. Prepared(n) /\ (n.cert # 0 => Ending(n)) /\ (n.poll => r.url = None)
  BY GoesOnPrepared
<1>2. PICK ans : ans = Replaced(Append(answer, "none"), c.set)
  OBVIOUS
<1>3. Asking(ans, Len(asked) + 1, r)
  BY <1>2, AskedAnswers
<1>4. DoSetWebhook(n, ans, Len(asked) + 1, r)
  BY <1>2, Zenon
<1>5. OldOks(ans)
  <2>1. "none" \in Answers /\ "none" # "ok" /\ "failed" # "ok"
    BY DEF Answers
  <2> QED
    BY <1>2, <2>1, AppendedOld, RepliedOld DEF Replaced
<1> QED
  BY <1>1, <1>3, <1>4, <1>5, DoSetKeeps, DoSetOwn

(* The Client that a request finds without a webhook, and the one that is  *)
(* created for it.                                                         *)
LEMMA AlivePrepared ==
  ASSUME IInv, client.alive, ~Ending(client), client.url = None, client.set # 0 \/ client.active = 0,
         UNCHANGED <<mail, results, file, db>>
  PROVE  Prepared(client) /\ client.cert = 0
<1>1. Held /\ ToCome /\ SavedUrl /\ ~client.closed /\ (client.restored => db = NotSaved)
  BY DEF IInv, AliveInv, Held, SavedInv
<1>2. /\ client \in Clients /\ db \in [url : Nat, cert : 0..MaxQueries]
      /\ results' \in Seq(Results)
  BY DEF IInv, Types
<1>3. client.set = 0 /\ client.active = 0 /\ ~client.id
  BY <1>1 DEF Held
<1>4. ~actor.on /\ mail = <<>> /\ NoWork
  BY <1>1, <1>3 DEF ToCome, InUse
<1>5. NoneOf(client.number)
  BY <1>4, NothingOwn
<1> QED
  BY <1>1, <1>2, <1>3, <1>4, <1>5 DEF Prepared, Held, SavedUrl

Created(c) == c = NewClient(client.number + 1, db = NotSaved, client.lost)

LEMMA CreatedPrepared ==
  ASSUME IInv, ~client.alive, client.number < MaxClients, NEW c, Created(c),
         UNCHANGED <<mail, results, file, db>>
  PROVE  /\ Prepared(c) /\ c.cert = 0 /\ c.gen = 0
         /\ ~c.closed /\ c.lost = client.lost
<1>1. /\ client \in Clients /\ SavedUrl /\ db \in [url : Nat, cert : 0..MaxQueries]
      /\ results' \in Seq(Results)
  BY DEF IInv, Types
<1>2. PICK b \in BOOLEAN : b = (db = NotSaved)
  OBVIOUS
<1>3. PICK m \in 1..MaxClients : m = client.number + 1
  BY <1>1, WorkTypes, ControlAssumption DEF IInv, Clients
<1>4. c = NewClient(m, b, client.lost) /\ client.lost \in BOOLEAN
  BY <1>1, <1>2, <1>3 DEF Created, Clients
<1>5. /\ c \in Clients /\ c.number = m /\ c.url = None /\ c.cert = 0 /\ ~c.id /\ c.set = 0
      /\ c.active = 0 /\ c.gen = 0 /\ ~c.poll /\ ~c.closed /\ ~c.wiped
      /\ c.alive /\ c.restored = b /\ c.lost = client.lost
  BY <1>4, NewIsClient
<1>6. ~actor.on /\ mail = <<>>
  BY DEF IInv, StoppedInv, NoActor
<1>7. NoneOf(c.number)
  BY <1>3, <1>5, WorkTypes DEF IInv, WorkOrder, NoneOf
<1> QED
  BY <1>1, <1>2, <1>5, <1>6, <1>7 DEF Prepared, SavedUrl

LEMMA SetWebhookKeeps ==
  ASSUME IInv, NEW r \in Requests, SetWebhook(r)
  PROVE  IInv'
<1> DEFINE q == Len(asked) + 1
           ans == Append(answer, "none")
<1>1. /\ q <= MaxQueries /\ asked' = Append(asked, r)
      /\ UNCHANGED <<mail, results, file, db>>
  BY DEF SetWebhook
<1>2. /\ "failed" \in Answers /\ "ok" \in Answers
      /\ \A what \in Answers :
           /\ Append(answer, what) \in Seq(Answers) /\ Len(Append(answer, what)) = Len(asked')
           /\ Reply(ans, q, what) \in Seq(Answers) /\ Len(Reply(ans, q, what)) = Len(asked')
           /\ Reply(ans, client.set, what) \in Seq(Answers)
           /\ Len(Reply(ans, client.set, what)) = Len(asked')
  BY <1>1, AskedAnswers DEF Answers
<1>3. /\ client \in Clients /\ SavedUrl /\ db \in [url : Nat, cert : 0..MaxQueries]
      /\ results' \in Seq(Results)
  BY <1>1 DEF IInv, Types
<1>4. CASE /\ answer' \in Seq(Answers) /\ Len(answer') = Len(asked')
           /\ UNCHANGED <<client, actor, tasks>>
  BY <1>1, <1>4, AskedKeeps
<1>5. CASE client.alive /\ Ending(client) /\ answer' = FailQueryClosing(answer)
           /\ UNCHANGED <<client, actor, tasks>>
  BY <1>2, <1>4, <1>5 DEF FailQueryClosing
<1>6. CASE client.alive /\ ~Ending(client) /\ ProcessSetWebhook(client, q, r)
  <2>1. CASE /\ UNCHANGED <<client, actor, tasks>>
             /\ answer' = Reply(ans, q, "failed") \/ answer' = Reply(ans, q, "ok")
    BY <1>2, <1>4, <2>1
  <2>2. CASE /\ client.url # None
             /\ client' = [[AbortLongPoll(client, r) EXCEPT !.set = 0, !.gen = @ + 1]
                             EXCEPT !.id = FALSE, !.type = "Cancel", !.set = q]
             /\ actor' = [actor EXCEPT !.close = @ \/ client.id]
             /\ answer' = Replaced(ans, client.set)
             /\ UNCHANGED tasks
    <3>1. PICK b : b = AbortLongPoll(client, r)
      OBVIOUS
    <3>2. PICK n : n = [b EXCEPT !.set = 0, !.gen = @ + 1]
      OBVIOUS
    <3>3. PICK p \in 0..Internal : p = q
      BY <1>1, AskedAnswers, ControlAssumption DEF Internal
    <3>4. PICK d : d = [n EXCEPT !.id = FALSE, !.type = "Cancel", !.set = p]
      OBVIOUS
    <3>5. client' = d
      BY <2>2, <3>1, <3>2, <3>3, <3>4, Zenon
    <3>6. /\ b \in Clients /\ SameLife(client, b) /\ SameWebhook(client, b)
          /\ b.active = client.active
          /\ b.poll => client.poll /\ r.url = None
      BY <1>3, <3>1, Cleared, Zenon
    <3>7. b \in Clients
      BY <3>6
    <3>8. /\ n \in Clients /\ SameLife(b, n) /\ n.url = b.url /\ n.cert = b.cert
          /\ n.gen = b.gen + 1 /\ n.active = b.active /\ n.poll = b.poll
      BY <3>2, <3>7, Advanced DEF Advances
    <3>9. n \in Clients
      BY <3>8
    <3>10. /\ d \in Clients /\ SameLife(n, d) /\ d.url = n.url /\ d.cert = n.cert /\ ~d.id
           /\ d.type = "Cancel" /\ d.gen = n.gen /\ d.active = n.active /\ d.poll = n.poll
           /\ d.set = p
      BY <3>3, <3>4, <3>9 DEF Clients, SameLife, SameRun
    <3>11. /\ d \in Clients /\ SameLife(client, d) /\ d.url = client.url /\ d.cert = client.cert
           /\ ~d.id /\ d.type = "Cancel" /\ d.gen = client.gen + 1 /\ d.active = client.active
           /\ d.set = p
           /\ d.poll => client.poll
      BY <3>6, <3>8, <3>10 DEF SameLife, SameRun, SameWebhook
    <3>12. answer' \in Seq(Answers) /\ Len(answer') = Len(asked')
      BY <1>2, <2>2 DEF Replaced
    <3> QED
      BY <1>1, <1>6, <2>2, <3>3, <3>5, <3>11, <3>12, Replaces
  <2>3. CASE /\ client.set # 0 \/ client.active = 0
             /\ client.url = None
             /\ DoSetWebhook([AbortLongPoll(client, r) EXCEPT !.set = 0, !.gen = @ + 1],
                             Replaced(ans, client.set), q, r)
    <3>1. PICK n : n = [AbortLongPoll(client, r) EXCEPT !.set = 0, !.gen = @ + 1]
      OBVIOUS
    <3>2. Prepared(client) /\ (client.cert # 0 => Ending(client))
      BY <1>1, <1>6, <2>3, AlivePrepared
    <3>3. GoesOn(client, r, n) /\ DoSetWebhook(n, Replaced(ans, client.set), q, r)
      BY <2>3, <3>1, Zenon DEF GoesOn
    <3> QED
      BY <1>1, <3>2, <3>3, ProcessWithout
  <2> QED
    BY <1>6, <2>1, <2>2, <2>3 DEF ProcessSetWebhook
<1>7. CASE /\ ~client.alive /\ client.number < MaxClients
           /\ ProcessSetWebhook(NewClient(client.number + 1, db = NotSaved, client.lost), q, r)
  <2>1. PICK c : c = NewClient(client.number + 1, db = NotSaved, client.lost)
    OBVIOUS
  <2>2. Prepared(c) /\ c.cert = 0 /\ c.gen = 0
    BY <1>1, <1>7, <2>1, CreatedPrepared DEF Created
  <2>3. c.set = 0 /\ c.active = 0 /\ c.url = None
    BY <2>2 DEF Prepared
  <2>4. ProcessSetWebhook(c, q, r)
    BY <1>7, <2>1
  <2>5. CASE client' = c /\ answer' = Reply(ans, q, "ok") /\ UNCHANGED <<actor, tasks>>
    BY <1>1, <1>2, <2>2, <2>5, SetAnswered, AskedAnswers
  <2>6. PICK n : n = [AbortLongPoll(c, r) EXCEPT !.set = 0, !.gen = @ + 1]
    OBVIOUS
  <2>7. CASE DoSetWebhook(n, Replaced(ans, c.set), q, r)
    BY <1>1, <2>2, <2>6, <2>7, ProcessWithout DEF GoesOn
  <2> QED
    BY <2>2, <2>3, <2>4, <2>5, <2>6, <2>7 DEF ProcessSetWebhook
<1> QED
  BY <1>5, <1>6, <1>7 DEF SetWebhook


-------------------------------------------------------------------------------
(* The Client begins with the saved webhook, and ends. *)

(* The Client and the actor that begin with the saved webhook s. *)
LEMMA RestoredClient ==
  ASSUME NEW m \in 1..MaxClients, NEW s \in [url : Nat, cert : 0..MaxQueries],
         NEW l \in BOOLEAN, NEW d, d = Restored(m, s, l)
  PROVE  /\ d \in Clients /\ d.number = m /\ d.active = 0 /\ d.type = "Verify"
         /\ ~d.poll /\ ~d.closed /\ ~d.wiped /\ d.alive /\ d.restored
         /\ d.lost = l
         /\ s = NotSaved => d.url = None /\ d.cert = 0 /\ ~d.id /\ d.set = 0
         /\ s # NotSaved =>
              /\ d.gen = 1 /\ d.url = s.url /\ d.cert = s.cert /\ d.set = Internal
<1>1. PICK b \in BOOLEAN : b = TRUE
  OBVIOUS
<1>2. PICK c : c = NewClient(m, b, l)
  OBVIOUS
<1>3. /\ c \in Clients /\ c.number = m /\ c.url = None /\ c.cert = 0 /\ ~c.id /\ c.set = 0
      /\ c.active = 0 /\ c.type = "Verify" /\ ~c.poll /\ ~c.closed /\ ~c.wiped /\ c.alive
      /\ c.restored = b /\ c.lost = l
  BY <1>2, NewIsClient
<1>5. PICK u \in Nat : u = s.url
  OBVIOUS
<1>6. PICK x \in 0..MaxQueries : x = s.cert
  OBVIOUS
<1>7. CASE s = NotSaved
  <2>1. d = c
    BY <1>1, <1>2, <1>7 DEF Restored
  <2> QED
    BY <1>1, <1>3, <1>7, <2>1
<1>8. CASE s # NotSaved
  <2>1. PICK i \in 0..Internal : i = Internal
    BY ControlAssumption DEF Internal
  <2>2. PICK g : g = [c EXCEPT !.gen = 1, !.url = u, !.cert = x]
    OBVIOUS
  <2>3. d = [g EXCEPT !.id = TRUE, !.set = i]
    <3>1. d = [c EXCEPT !.gen = 1, !.url = u, !.cert = x, !.id = TRUE, !.set = Internal]
      BY <1>1, <1>2, <1>5, <1>6, <1>8 DEF Restored
    <3> QED
      BY <2>1, <2>2, <3>1, Zenon
  <2>4. /\ g \in Clients /\ g.gen = 1 /\ g.url = u /\ g.cert = x /\ g.number = c.number
        /\ g.active = c.active /\ g.type = c.type /\ g.poll = c.poll /\ g.closed = c.closed
        /\ g.wiped = c.wiped /\ g.alive = c.alive /\ g.restored = c.restored /\ g.lost = c.lost
    BY <1>3, <2>2 DEF Clients
  <2>5. /\ d \in Clients /\ d.gen = g.gen /\ d.url = g.url /\ d.cert = g.cert /\ d.set = i
        /\ d.lost = g.lost /\ d.number = g.number /\ d.active = g.active /\ d.type = g.type
        /\ d.poll = g.poll /\ d.closed = g.closed /\ d.wiped = g.wiped /\ d.alive = g.alive
        /\ d.restored = g.restored
    BY <2>3, <2>4 DEF Clients
  <2> QED
    BY <1>1, <1>3, <1>5, <1>6, <1>8, <2>1, <2>4, <2>5
<1> QED
  BY <1>7, <1>8

LEMMA RestoredActorOf ==
  ASSUME NEW s, NEW a, a = RestoredActor(s)
  PROVE  /\ a \in Actors /\ (a.on <=> s # NotSaved)
         /\ a.on => ~a.checked /\ a.gen = 1
<1>1. CASE s = NotSaved
  BY <1>1 DEF RestoredActor, NoActor, Actors
<1>2. CASE s # NotSaved
  BY <1>2 DEF RestoredActor, Actors
<1> QED
  BY <1>1, <1>2

Restoring(lost) ==
  /\ client.number < MaxClients
  /\ client' = Restored(client.number + 1, db, lost) /\ actor' = RestoredActor(db) /\ mail' = <<>>
  /\ (tasks' = tasks /\ results' = results) \/ (tasks' = <<>> /\ results' = <<>>)
  /\ answer' \in Seq(Answers) /\ Len(answer') = Len(asked)
  /\ UNCHANGED <<file, db, asked>>
  /\ ~lost /\ db.cert # 0 => file = db.cert /\ tasks' = <<>>

LEMMA RestoreKeeps ==
  ASSUME IInv, NEW lost \in BOOLEAN, Restoring(lost)
  PROVE  IInv'
<1>1. PICK m \in 1..MaxClients : m = client.number + 1
  BY WorkTypes, ControlAssumption DEF IInv, Restoring
<1>2. /\ UNCHANGED <<file, db, asked>> /\ mail' = <<>>
      /\ (tasks' = tasks /\ results' = results) \/ (tasks' = <<>> /\ results' = <<>>)
      /\ answer' \in Seq(Answers) /\ Len(answer') = Len(asked)
  BY DEF Restoring
<1>3. /\ db \in [url : Nat, cert : 0..MaxQueries] /\ SavedUrl /\ file \in 0..MaxQueries
  BY DEF IInv, Types
<1>4. actor' \in Actors /\ (actor'.on <=> db # NotSaved) /\ (actor'.on => ~actor'.checked /\ actor'.gen = 1)
  BY RestoredActorOf DEF Restoring
<1>5. /\ client' \in Clients /\ client'.number = m /\ client'.active = 0 /\ client'.type = "Verify"
      /\ ~client'.poll /\ ~client'.closed /\ ~client'.wiped /\ client'.alive /\ client'.restored
      /\ db = NotSaved => client'.url = None /\ client'.cert = 0 /\ ~client'.id /\ client'.set = 0
      /\ db # NotSaved =>
           /\ client'.gen = 1 /\ client'.url = db.url /\ client'.cert = db.cert
           /\ client'.set = Internal
      /\ client'.lost = lost
  BY <1>1, <1>3, RestoredClient DEF Restoring
<1>6. WorkOrder' /\ \A w : ~Has(tasks, w)' /\ ~Has(results, w)'
  <2>1. CASE tasks' = tasks /\ results' = results
    <3>1. NoneOf(client'.number) /\ results' \in Seq(Results)
      <4>1. client'.number = client.number + 1 /\ client.number \in Nat
        BY <1>1, <1>5, WorkTypes DEF IInv
      <4>2. \A k \in 1..Len(tasks) : tasks[k].for < client'.number
        BY <4>1, WorkTypes DEF IInv, WorkOrder
      <4>3. \A k \in 1..Len(results) : results[k].for < client'.number
        BY <4>1, WorkTypes DEF IInv, WorkOrder
      <4> QED
        BY <2>1, <4>2, <4>3 DEF IInv, Types, WorkOrder, NoneOf
    <3> QED
      BY <1>5, <2>1, <3>1, NoWorkAdded DEF IInv
  <2>2. CASE tasks' = <<>> /\ results' = <<>>
    <3>1. Len(tasks') = 0 /\ Len(results') = 0
      BY <2>2
    <3>2. \A k \in 1..0 : FALSE
      OBVIOUS
    <3> QED
      BY <3>1, <3>2 DEF WorkOrder, Ordered, Has
  <2> QED
    BY <1>2, <2>1, <2>2
<1>7. Types'
  <2>1. tasks' \in Seq(Tasks) /\ results' \in Seq(Results) /\ mail' \in Seq(Mails)
    BY <1>2, EmptySeq DEF IInv, Types
  <2> QED
    BY <1>2, <1>4, <1>5, <2>1 DEF IInv, Types
<1>8. SavedUrl' /\ MailUrl'
  BY <1>2 DEF IInv, SavedUrl, MailUrl
<1>9. db # NotSaved => db.url # None
  BY <1>3 DEF SavedUrl
<1>10. MailShape' /\ ToCome'
  BY <1>2, <1>4, <1>5, <1>6, <1>9 DEF MailShape, ToCome, InUse, NoWork, HasWork
<1>11. Held'
  <2>1. Internal # 0
    BY ControlAssumption DEF Internal
  <2> QED
    BY <1>5, <1>9, <2>1 DEF Held
<1>12. Generation'
  <2>1. client'.set \notin 1..Len(asked)
    BY <1>5, ControlAssumption, LenProperties DEF Internal, IInv, Types
  <2> QED
    BY <1>2, <1>4, <1>5, <2>1 DEF Generation
<1>13. SavedInv'
  <2>1. db = [url |-> db.url, cert |-> db.cert]
    BY <1>3
  <2> QED
    BY <1>2, <1>5, <1>9, <2>1 DEF SavedInv, Saved
<1>14. CertificateInv'
  <2>1. ASSUME client'.url # None, client'.cert # 0, ~client'.lost
        PROVE  file' = client'.cert /\ tasks' = <<>>
    BY <1>2, <1>5, <2>1 DEF Restoring
  <2>2. \A k \in 1..Len(<<>>) : FALSE
    OBVIOUS
  <2>3. /\ \A k \in 1..Len(tasks') : ~(tasks'[k].what = "copy" /\ tasks'[k].for = client'.number)
        /\ \A k \in 1..Len(results') : ~(results'[k].what = "copy" /\ results'[k].for = client'.number)
    BY <1>6 DEF Has
  <2> QED
    BY <2>1, <2>2, <2>3 DEF CertificateInv
<1> QED
  BY <1>5, <1>6, <1>7, <1>8, <1>10, <1>11, <1>12, <1>13, <1>14 DEF IInv, AliveInv, StoppedInv

(* A Client that stops. *)
LEMMA StopOf ==
  ASSUME NEW c \in Clients, Stop(c)
  PROVE  /\ client' \in Clients /\ ~client'.alive /\ client'.poll = c.poll
         /\ client'.number = c.number /\ client'.restored = c.restored
         /\ client'.cert = c.cert /\ client'.active = c.active
         /\ ~client'.lost => ~c.lost /\ ~Has(tasks, "unlink") /\ ~Has(results, "unlink")
         /\ actor' = NoActor /\ mail' = <<>>
<1>1. PICK l \in BOOLEAN : l = (c.lost \/ Removal(tasks) \/ Removal(results))
  OBVIOUS
<1>2. client' = [c EXCEPT !.alive = FALSE, !.lost = l] /\ actor' = NoActor /\ mail' = <<>>
  BY <1>1 DEF Stop, Clients
<1>3. ~l => ~c.lost /\ ~Has(tasks, "unlink") /\ ~Has(results, "unlink")
  BY <1>1 DEF Removal, Has
<1> QED
  BY <1>2, <1>3 DEF Clients

LEMMA StopKeeps ==
  ASSUME IInv, client' \in Clients, ~client'.alive, ~client'.poll, client'.number = client.number,
         actor' = NoActor, mail' = <<>>, file' \in 0..MaxQueries,
         db' \in [url : Nat, cert : 0..MaxQueries], SavedUrl',
         answer' \in Seq(Answers), Len(answer') = Len(answer),
         UNCHANGED <<tasks, results, asked>>
  PROVE  IInv'
<1>1. actor' \in Actors
  BY DEF NoActor, Actors
<1>2. Types' /\ MailUrl'
  BY <1>1, EmptySeq DEF IInv, Types, MailUrl
<1>3. WorkOrder'
  BY WorkSame DEF IInv
<1> QED
  BY <1>2, <1>3 DEF IInv, AliveInv, StoppedInv

(* getUpdates, and a Client that begins to log out or to close. *)
LEMMA FlagsKeep ==
  ASSUME IInv, client.alive, client' \in Clients, SameWebhook(client, client'),
         client'.set = client.set, client'.active = client.active, client'.number = client.number,
         client'.closed = client.closed, client'.wiped = client.wiped, client'.alive,
         client'.restored = client.restored,
         (client'.lost = client.lost /\ file' = file) \/ client'.lost, file' \in 0..MaxQueries,
         Ending(client) => Ending(client'),
         client'.poll => client.poll \/ (client.url = None /\ client.active = 0 /\ ~client.closed),
         UNCHANGED <<actor, mail, tasks, results, db, asked, answer>>
  PROVE  IInv'
<1>1. WorkOrder' /\ \A w : (Has(tasks, w)' <=> Has(tasks, w)) /\ (Has(results, w)' <=> Has(results, w))
  BY WorkSame DEF IInv
<1>2. Types' /\ SavedUrl' /\ MailUrl'
  BY DEF IInv, Types, SavedUrl, MailUrl, SameWebhook
<1>3. MailShape' /\ ToCome'
  BY <1>1
     DEF IInv, AliveInv, MailShape, ToCome, InUse, NoWork, HasWork, MailCloses, IsMail, SameWebhook
<1>4. Held' /\ Generation'
  BY DEF IInv, AliveInv, Held, Generation, SameWebhook
<1>5. ~client.closed => SavedInv' /\ CertificateInv'
  BY <1>1 DEF IInv, AliveInv, SavedInv, Saved, CertificateInv, SameWebhook
<1> QED
  BY <1>1, <1>2, <1>3, <1>4, <1>5 DEF IInv, AliveInv, StoppedInv

LEMMA FlagStepsKeep ==
  ASSUME IInv, GetUpdates \/ LogOut \/ CloseClient
  PROVE  IInv'
<1>1. client \in Clients /\ file \in 0..MaxQueries
  BY DEF IInv, Types
<1>2. CASE GetUpdates
  <2>1. PICK b \in BOOLEAN : b = ~client.poll
    OBVIOUS
  <2>2. client' = [client EXCEPT !.poll = b]
    BY <1>1, <1>2, <2>1 DEF GetUpdates, Clients
  <2>3. /\ client' \in Clients /\ SameLife(client, client') /\ SameWebhook(client, client')
        /\ client'.set = client.set /\ client'.active = client.active
    BY <1>1, <2>2 DEF Clients, SameLife, SameRun, SameWebhook
  <2>4. ~client.closed
    BY <1>2 DEF GetUpdates, IInv, AliveInv, Held
  <2> QED
    BY <1>1, <1>2, <2>3, <2>4, FlagsKeep DEF GetUpdates, SameLife, SameRun, Ending
<1>3. CASE LogOut
  <2>1. /\ client' \in Clients /\ SameWebhook(client, client') /\ client'.set = client.set
        /\ client'.active = client.active /\ client'.number = client.number
        /\ client'.closed = client.closed /\ client'.wiped = client.wiped
        /\ client'.alive = client.alive /\ client'.restored = client.restored
        /\ client'.lost = client.lost /\ client'.poll = client.poll /\ client'.logging_out
    BY <1>1, <1>3 DEF LogOut, Clients, SameWebhook
  <2> QED
    BY <1>1, <1>3, <2>1, FlagsKeep DEF LogOut, Ending
<1>4. CASE CloseClient
  <2>1. /\ client' \in Clients /\ SameWebhook(client, client') /\ client'.set = client.set
        /\ client'.active = client.active /\ client'.number = client.number
        /\ client'.closed = client.closed /\ client'.wiped = client.wiped
        /\ client'.alive = client.alive /\ client'.restored = client.restored
        /\ client'.lost = client.lost /\ client'.poll = client.poll /\ client'.closing
    BY <1>1, <1>4 DEF CloseClient, Clients, SameWebhook
  <2> QED
    BY <1>1, <1>4, <2>1, FlagsKeep DEF CloseClient, Ending
<1> QED
  BY <1>2, <1>3, <1>4


(* on_closed, finish_closing and timeout_expired. *)
LEMMA OnClientClosedKeeps ==
  ASSUME IInv, OnClientClosed
  PROVE  IInv'
<1>1. PICK c : c = [client EXCEPT !.closed = TRUE, !.set = 0, !.active = 0, !.poll = FALSE, !.id = FALSE]
  OBVIOUS
<1>2. client \in Clients /\ client.alive /\ Ending(client) /\ Held
  BY DEF IInv, Types, OnClientClosed, AliveInv
<1>3. /\ c \in Clients /\ c.closed /\ c.set = 0 /\ c.active = 0 /\ ~c.poll /\ ~c.id
      /\ c.url = client.url /\ c.cert = client.cert /\ c.gen = client.gen
      /\ c.number = client.number /\ c.logging_out = client.logging_out
      /\ c.closing = client.closing /\ c.alive
  <2>1. 0 \in 0..MaxQueries /\ 0 \in 0..Internal
    BY ControlAssumption DEF Internal
  <2>2. PICK b : b = [client EXCEPT !.closed = TRUE, !.set = 0, !.active = 0]
    OBVIOUS
  <2>3. c = [b EXCEPT !.poll = FALSE, !.id = FALSE]
    BY <1>1, <2>2, Zenon
  <2>4. /\ b \in Clients /\ b.closed /\ b.set = 0 /\ b.active = 0
        /\ b.url = client.url /\ b.cert = client.cert /\ b.gen = client.gen
        /\ b.number = client.number /\ b.logging_out = client.logging_out
        /\ b.closing = client.closing /\ b.alive
    BY <1>2, <2>1, <2>2 DEF Clients
  <2> QED
    BY <2>3, <2>4 DEF Clients
<1>4. /\ answer' = [q \in DOMAIN answer |->
                      IF q \in {client.set, client.active} THEN "failed" ELSE answer[q]]
      /\ db' = IF c.logging_out THEN NotSaved ELSE db
      /\ UNCHANGED <<tasks, results, file, asked>>
      /\ \/ ~c.logging_out /\ Stop(c)
         \/ /\ client' = [c EXCEPT !.lost = TRUE]
            /\ actor' = IF client.id THEN NoActor ELSE actor
            /\ UNCHANGED mail
  BY <1>1 DEF OnClientClosed
<1>5. answer' \in Seq(Answers) /\ Len(answer') = Len(answer)
  <2>1. Len(answer) \in Nat /\ DOMAIN answer = 1..Len(answer) /\ \A k \in 1..Len(answer) : answer[k] \in Answers
    BY LenProperties, ElementOfSeq DEF IInv, Types
  <2> QED
    BY <1>4, <2>1 DEF Answers
<1>6. db' \in [url : Nat, cert : 0..MaxQueries] /\ SavedUrl'
  BY <1>4, ControlAssumption DEF IInv, Types, SavedUrl, NotSaved, None
<1>7. CASE Stop(c)
  <2>1. actor' = NoActor /\ mail' = <<>>
    BY <1>3, <1>7, StopOf
  <2>2. client' \in Clients /\ ~client'.alive /\ ~client'.poll /\ client'.number = client.number
    BY <1>3, <1>7, StopOf
  <2>3. file' \in 0..MaxQueries
    BY <1>4 DEF IInv, Types
  <2> QED
    BY <1>4, <1>5, <1>6, <2>1, <2>2, <2>3, StopKeeps
<1>8. CASE /\ client' = [c EXCEPT !.lost = TRUE]
           /\ actor' = IF client.id THEN NoActor ELSE actor
           /\ UNCHANGED mail
  <2>0. /\ client' \in Clients /\ client'.closed /\ client'.set = 0 /\ client'.active = 0
        /\ ~client'.poll /\ ~client'.id
        /\ client'.url = client.url /\ client'.cert = client.cert /\ client'.gen = client.gen
        /\ client'.number = client.number /\ client'.logging_out = client.logging_out
        /\ client'.closing = client.closing /\ client'.alive
    BY <1>3, <1>8 DEF Clients
  <2>1. /\ actor' \in Actors
        /\ actor' = actor \/ ~actor'.on
    BY <1>8 DEF IInv, Types, NoActor, Actors
  <2>2. Types' /\ MailUrl'
    BY <1>4, <1>5, <1>6, <1>8, <2>0, <2>1 DEF IInv, Types, MailUrl
  <2>3. WorkOrder' /\ \A w : (Has(tasks, w)' <=> Has(tasks, w)) /\ (Has(results, w)' <=> Has(results, w))
    BY <1>4, <1>8, <2>0, WorkSame DEF IInv
  <2>4. MailShape'
    <3>1. MailShape
      BY <1>2 DEF IInv, AliveInv
    <3> QED
      BY <1>8, <2>1, <3>1 DEF MailShape, IsMail
  <2>5. ToCome'
    <3>1. ToCome
      BY <1>2 DEF IInv, AliveInv
    <3>2. mail' = mail /\ (MailCloses' <=> MailCloses)
      BY <1>8 DEF MailCloses, IsMail
    <3> QED
      BY <1>8, <2>0, <2>1, <2>3, <3>1, <3>2 DEF ToCome, InUse, NoWork, HasWork
  <2>6. Held'
    BY <1>2, <2>0 DEF Held, Ending
  <2>7. Generation'
    <3>1. Generation
      BY <1>2 DEF IInv, AliveInv
    <3>2. 0 \notin 1..Len(asked')
      BY LenProperties, <2>2 DEF Types
    <3> QED
      BY <1>4, <1>8, <2>0, <2>1, <3>1, <3>2 DEF Generation
  <2> QED
    BY <1>6, <2>0, <2>2, <2>3, <2>4, <2>5, <2>6, <2>7 DEF IInv, AliveInv, StoppedInv
<1> QED
  BY <1>4, <1>7, <1>8

LEMMA FinishClosingKeeps ==
  ASSUME IInv, FinishClosing
  PROVE  IInv'
<1>1. /\ client \in Clients /\ client.alive /\ client.closed /\ Held /\ file' = 0
      /\ file' \in 0..MaxQueries
      /\ UNCHANGED <<tasks, results, db, asked, answer>>
  BY ControlAssumption DEF IInv, Types, FinishClosing, AliveInv
<1>2. PICK c : c = [client EXCEPT !.wiped = TRUE]
  OBVIOUS
<1>3. /\ c \in Clients /\ SameWebhook(client, c) /\ c.set = client.set /\ c.active = client.active
      /\ c.poll = client.poll /\ c.number = client.number /\ c.closed /\ c.alive
      /\ c.logging_out = client.logging_out /\ c.closing = client.closing
  BY <1>1, <1>2 DEF Clients, SameWebhook
<1>4. CASE Stop(c)
  <2>1. actor' = NoActor /\ mail' = <<>>
    BY <1>3, <1>4, StopOf
  <2>2. client' \in Clients /\ ~client'.alive /\ client'.poll = c.poll /\ client'.number = client.number
    BY <1>3, <1>4, StopOf
  <2>3. ~client'.poll
    BY <1>1, <1>3, <2>2 DEF Held
  <2>4. /\ db' \in [url : Nat, cert : 0..MaxQueries] /\ SavedUrl'
        /\ answer' \in Seq(Answers) /\ Len(answer') = Len(answer)
    BY <1>1 DEF IInv, Types, SavedUrl
  <2> QED
    BY <1>1, <2>1, <2>2, <2>3, <2>4, StopKeeps
<1>5. CASE client' = c /\ UNCHANGED <<actor, mail>>
  <2>1. Types' /\ SavedUrl' /\ MailUrl'
    BY <1>1, <1>3, <1>5 DEF IInv, Types, SavedUrl, MailUrl, SameWebhook
  <2>2. WorkOrder' /\ \A w : (Has(tasks, w)' <=> Has(tasks, w)) /\ (Has(results, w)' <=> Has(results, w))
    BY <1>1, <1>3, <1>5, WorkSame DEF IInv
  <2>3. MailShape' /\ ToCome'
    BY <1>1, <1>3, <1>5, <2>2
       DEF IInv, AliveInv, MailShape, ToCome, InUse, NoWork, HasWork, MailCloses, IsMail, SameWebhook
  <2>4. Held' /\ Generation'
    BY <1>1, <1>3, <1>5 DEF IInv, AliveInv, Held, Generation, SameWebhook, Ending
  <2> QED
    BY <1>3, <1>5, <2>1, <2>2, <2>3, <2>4 DEF IInv, AliveInv, StoppedInv
<1> QED
  BY <1>2, <1>4, <1>5 DEF FinishClosing

LEMMA TimeoutExpiredKeeps ==
  ASSUME IInv, TimeoutExpired
  PROVE  IInv'
<1>1. /\ client \in Clients /\ ~client.poll
      /\ UNCHANGED <<tasks, results, file, db, asked, answer>>
  BY DEF IInv, Types, TimeoutExpired, AliveInv, Held
<1>2. actor' = NoActor /\ mail' = <<>>
  BY <1>1, StopOf DEF TimeoutExpired
<1>3. client' \in Clients /\ ~client'.alive /\ ~client'.poll /\ client'.number = client.number
  BY <1>1, StopOf DEF TimeoutExpired
<1>4. /\ db' \in [url : Nat, cert : 0..MaxQueries] /\ SavedUrl' /\ file' \in 0..MaxQueries
      /\ answer' \in Seq(Answers) /\ Len(answer') = Len(answer)
  BY <1>1 DEF IInv, Types, SavedUrl
<1> QED
  BY <1>1, <1>2, <1>3, <1>4, StopKeeps

(* The saved webhook that the next Client is given has its certificate. *)
LEMMA SavedKept ==
  ASSUME IInv, LostInv, ~client.lost, db.cert # 0, ~Has(results, "unlink")
  PROVE  /\ file = db.cert
         /\ ~client.alive \/ ~Has(tasks, "unlink") => tasks = <<>>
<1>1. CASE ~client.alive \/ ~client.restored
  BY <1>1 DEF LostInv
<1>2. CASE client.alive /\ client.restored
  <2>1. SavedInv /\ CertificateInv
    BY <1>2 DEF IInv, AliveInv, LostInv
  <2>2. NotSaved.cert = 0
    BY DEF NotSaved
  <2>3. client.url # None /\ db = Saved(client)
    BY <1>2, <2>1, <2>2 DEF SavedInv
  <2>4. db.cert = client.cert
    BY <2>3 DEF Saved
  <2>5. /\ file = client.cert
        /\ \A k \in 1..Len(tasks) : tasks[k].what = "unlink" /\ tasks[k].for = client.number
    BY <2>1, <2>3, <2>4 DEF CertificateInv
  <2>6. ~Has(tasks, "unlink") => Len(tasks) = 0
    <3>1. Len(tasks) \in Nat
      BY WorkTypes DEF IInv
    <3>2. ~Has(tasks, "unlink") => \A k \in 1..Len(tasks) : FALSE
      BY <2>5 DEF Has
    <3> QED
      BY <3>1, <3>2
  <2> QED
    BY <1>2, <2>4, <2>5, <2>6, EmptySeq DEF IInv, Types
<1> QED
  BY <1>1, <1>2

(* The process starts again. *)
LEMMA StartAgainKeeps ==
  ASSUME IInv, LostInv, StartAgain
  PROVE  IInv'
<1>1. answer' \in Seq(Answers) /\ Len(answer') = Len(asked)
  <2>1. /\ Len(answer) \in Nat /\ DOMAIN answer = 1..Len(answer)
        /\ \A k \in 1..Len(answer) : answer[k] \in Answers
    BY LenProperties, ElementOfSeq DEF IInv, Types
  <2>2. Len(answer) = Len(asked)
    BY DEF IInv, Types
  <2>3. answer' = [q \in 1..Len(answer) |-> IF answer[q] = "none" THEN "failed" ELSE answer[q]]
    BY <2>1 DEF StartAgain
  <2> QED
    BY <2>1, <2>2, <2>3 DEF Answers
<1>2. PICK l \in BOOLEAN : l = (client.lost \/ Removal(results))
  OBVIOUS
<1>3. ~l /\ db.cert # 0 => file = db.cert
  <2>1. ~l => ~client.lost /\ ~Has(results, "unlink")
    BY <1>2 DEF Removal, Has
  <2> QED
    BY <2>1, SavedKept
<1>4. client' = Restored(client.number + 1, db, l)
  BY <1>2 DEF StartAgain
<1>5. Restoring(l)
  BY <1>1, <1>3, <1>4 DEF StartAgain, Restoring
<1> QED
  BY <1>5, RestoreKeeps

LEMMA OtherMethodKeeps ==
  ASSUME IInv, LostInv, OtherMethod
  PROVE  IInv'
<1>1. mail = <<>> /\ answer \in Seq(Answers) /\ Len(answer) = Len(asked)
  BY DEF IInv, Types, OtherMethod, StoppedInv
<1>2. client.lost \in BOOLEAN
  BY DEF IInv, Types, Clients
<1>3. ~client.lost /\ db.cert # 0 => file = db.cert /\ tasks = <<>>
  BY DEF LostInv, OtherMethod
<1>4. Restoring(client.lost)
  BY <1>1, <1>3 DEF OtherMethod, Restoring
<1> QED
  BY <1>2, <1>4, RestoreKeeps

(* cert.pem is deleted by a cleanup round. *)
LEMMA CleanupKeeps ==
  ASSUME IInv, Cleanup
  PROVE  IInv'
<1>1. client \in Clients
  BY DEF IInv, Types
<1>2. /\ client' \in Clients /\ SameRun(client, client') /\ SameWebhook(client, client')
      /\ client'.set = client.set /\ client'.active = client.active
      /\ client'.poll = client.poll /\ client'.lost
  BY <1>1 DEF Cleanup, Clients, SameRun, SameWebhook
<1>3. /\ file' \in 0..MaxQueries /\ UNCHANGED <<actor, mail, tasks, results, db, asked, answer>>
  BY ControlAssumption DEF Cleanup
<1>4. CASE client.alive
  BY <1>2, <1>3, <1>4, FlagsKeep DEF SameRun, Ending
<1>5. CASE ~client.alive
  <2>1. /\ db' \in [url : Nat, cert : 0..MaxQueries] /\ SavedUrl'
        /\ answer' \in Seq(Answers) /\ Len(answer') = Len(answer)
        /\ actor' = NoActor /\ mail' = <<>> /\ ~client'.poll /\ ~client'.alive
    BY <1>2, <1>3, <1>5 DEF IInv, Types, StoppedInv, SavedUrl, SameRun
  <2> QED
    BY <1>2, <1>3, <2>1, StopKeeps DEF SameRun
<1> QED
  BY <1>4, <1>5

-------------------------------------------------------------------------------
LEMMA InitInv == Init => IInv
<1> SUFFICES ASSUME Init PROVE IInv
  OBVIOUS
<1>1. PICK b \in BOOLEAN : b = TRUE
  OBVIOUS
<1>2. 1 \in 1..MaxClients
  BY ControlAssumption
<1>3. PICK l \in BOOLEAN : client = NewClient(1, b, l)
  BY <1>1 DEF Init
<1>4. /\ client \in Clients /\ client.number = 1 /\ client.url = None /\ client.cert = 0 /\ ~client.id
      /\ client.set = 0 /\ client.active = 0 /\ ~client.poll
      /\ ~client.closed /\ ~client.wiped /\ client.alive
  BY <1>2, <1>3, NewIsClient
<1>5. actor \in Actors /\ ~actor.on
  BY DEF Init, NoActor, Actors
<1>6. /\ mail = <<>> /\ tasks = <<>> /\ results = <<>> /\ asked = <<>> /\ answer = <<>>
      /\ file = 0 /\ db = NotSaved
  BY DEF Init
<1>7. db \in [url : Nat, cert : 0..MaxQueries] /\ file \in 0..MaxQueries
  BY <1>6, ControlAssumption DEF NotSaved, None
<1>8. Types
  BY <1>4, <1>5, <1>6, <1>7, EmptySeq, ControlAssumption DEF Types
<1>9. \A k \in 1..Len(<<>>) : FALSE
  OBVIOUS
<1>10. WorkOrder /\ NoWork
  BY <1>6, <1>9 DEF WorkOrder, Ordered, NoWork, HasWork, Has
<1>11. MailShape /\ ToCome /\ Held
  BY <1>4, <1>5, <1>6, <1>10 DEF MailShape, ToCome, Held
<1>12. Generation /\ SavedInv /\ CertificateInv
  BY <1>4, <1>5, <1>6, <1>9 DEF Generation, SavedInv, CertificateInv
<1> QED
  BY <1>4, <1>6, <1>8, <1>10, <1>11, <1>12 DEF IInv, SavedUrl, MailUrl, AliveInv, StoppedInv

LEMMA Stutters ==
  ASSUME IInv, UNCHANGED vars
  PROVE  IInv'
<1>1. /\ UNCHANGED <<client, actor, mail, tasks, results, file, db, asked, answer>>
      /\ client' \in Clients
  BY DEF vars, IInv, Types
<1>2. CASE client.alive
  <2>1. file' \in 0..MaxQueries /\ client'.lost = client.lost /\ client'.poll = client.poll
    BY <1>1 DEF IInv, Types
  <2> QED
    BY <1>1, <1>2, <2>1, FlagsKeep DEF SameWebhook, Ending
<1>3. CASE ~client.alive
  <2>1. /\ file' \in 0..MaxQueries /\ db' \in [url : Nat, cert : 0..MaxQueries] /\ SavedUrl'
        /\ answer' \in Seq(Answers) /\ Len(answer') = Len(answer)
        /\ actor' = NoActor /\ mail' = <<>> /\ ~client'.poll
    BY <1>1, <1>3 DEF IInv, Types, StoppedInv, SavedUrl
  <2> QED
    BY <1>1, <1>3, <2>1, StopKeeps
<1> QED
  BY <1>2, <1>3

LEMMA NextInv == IInv /\ LostInv /\ [Next]_vars => IInv'
<1> SUFFICES ASSUME IInv, LostInv, [Next]_vars PROVE IInv'
  OBVIOUS
<1>1. CASE Ask
  BY <1>1, SetWebhookKeeps, OtherMethodKeeps, FlagStepsKeep DEF Ask
<1>2. CASE Actor
  BY <1>2, TellsVerified, TellsClosed, GoneKeeps DEF Actor
<1>3. CASE Handle
  BY <1>3, OnVerifiedKeeps, OnClosedKeeps, RunTaskKeeps, CleanupKeeps, OnResultKeeps DEF Handle
<1>4. CASE End
  BY <1>4, FlagStepsKeep, OnClientClosedKeeps, FinishClosingKeeps, TimeoutExpiredKeeps, StartAgainKeeps
     DEF End, Restart, Abort
<1> QED
  BY <1>1, <1>2, <1>3, <1>4, Stutters DEF Next

-------------------------------------------------------------------------------
(* What a Client leaves for the next. *)

(* A Client that was given the saved webhook and goes on has left nothing. *)
LEMMA LostGoesOn ==
  ASSUME ~client'.lost => client'.alive /\ ~client'.closed /\ client'.restored
  PROVE  LostInv'
  BY DEF LostInv

(* A step that concerns neither the certificate nor the saved webhook. *)
LEMMA LostSame ==
  ASSUME LostInv, SameLife(client, client'), client'.cert = client.cert,
         client'.active = client.active, UNCHANGED <<tasks, file, db>>
  PROVE  LostInv'
  BY DEF LostInv, SameLife, SameRun

(* do_set_webhook: a certificate that is copied over that of a saved       *)
(* webhook loses it.                                                       *)
LEMMA DoSetLost ==
  ASSUME NEW c, Prepared(c), c.cert = 0, ~c.lost => ~c.closed,
         ~c.lost /\ ~c.restored /\ db'.cert # 0 => file = db'.cert /\ tasks = <<>>,
         NEW ans, NEW q, NEW r, Asking(ans, q, r), DoSetWebhook(c, ans, q, r)
  PROVE  LostInv'
<1>1. c \in Clients /\ c.alive /\ c.active = 0 /\ (c.closed => Ending(c)) /\ file' = file
  BY DEF Prepared
<1>2. CASE client' = c /\ UNCHANGED tasks
  BY <1>1, <1>2 DEF LostInv
<1>3. CASE ~Ending(c) /\ client' = [c EXCEPT !.active = q, !.lost = ~c.restored]
  <2>1. PICK l \in BOOLEAN : l = ~c.restored
    OBVIOUS
  <2>2. client' = [c EXCEPT !.active = q, !.lost = l]
    BY <1>3, <2>1
  <2>3. client'.lost = l /\ client'.alive /\ client'.closed = c.closed /\ client'.restored = c.restored
    BY <1>1, <2>2 DEF Clients
  <2> QED
    BY <1>1, <1>3, <2>1, <2>3, LostGoesOn
<1>4. CASE /\ ~Ending(c) /\ UNCHANGED tasks
           /\ client' = [c EXCEPT !.url = r.url, !.id = TRUE, !.type = "Verify", !.set = q]
  <2>1. /\ client'.lost = c.lost /\ client'.alive /\ client'.closed = c.closed
        /\ client'.restored = c.restored /\ client'.cert = 0 /\ client'.active = 0
    BY <1>1, <1>4 DEF Clients
  <2> QED
    BY <1>1, <1>4, <2>1 DEF LostInv
<1> QED
  BY <1>2, <1>3, <1>4 DEF DoSetWebhook, FinishSetWebhook

LEMMA SetWebhookLost ==
  ASSUME IInv, LostInv, NEW r \in Requests, SetWebhook(r)
  PROVE  LostInv'
<1> DEFINE q == Len(asked) + 1
           ans == Append(answer, "none")
<1>1. /\ q <= MaxQueries /\ asked' = Append(asked, r)
      /\ UNCHANGED <<mail, results, file, db>> /\ client \in Clients
  BY DEF SetWebhook, IInv, Types
<1>2. CASE UNCHANGED <<client, tasks>>
  BY <1>1, <1>2, LostSame DEF SameLife, SameRun
<1>3. ASSUME NEW c, Prepared(c), c.cert = 0, ~c.lost => ~c.closed,
             ~c.lost /\ ~c.restored /\ db'.cert # 0 => file = db'.cert /\ tasks = <<>>,
             NEW n, GoesOn(c, r, n), DoSetWebhook(n, Replaced(ans, c.set), q, r)
      PROVE  LostInv'
  <2>1. Prepared(n) /\ n.cert = c.cert /\ SameLife(c, n)
    BY <1>3, GoesOnPrepared
  <2>2. PICK a : a = Replaced(ans, c.set)
    OBVIOUS
  <2>3. Asking(a, q, r)
    BY <1>1, <2>2, AskedAnswers
  <2>4. DoSetWebhook(n, a, q, r)
    BY <1>3, <2>2, Zenon
  <2> QED
    BY <1>3, <2>1, <2>3, <2>4, DoSetLost DEF SameLife, SameRun
<1>4. CASE client.alive /\ ~Ending(client) /\ ProcessSetWebhook(client, q, r)
  <2>1. PICK b : b = AbortLongPoll(client, r)
    OBVIOUS
  <2>2. PICK n : n = [b EXCEPT !.set = 0, !.gen = @ + 1]
    OBVIOUS
  <2>3. n = [AbortLongPoll(client, r) EXCEPT !.set = 0, !.gen = @ + 1]
    BY <2>1, <2>2, Zenon
  <2>4. CASE /\ client' = [n EXCEPT !.id = FALSE, !.type = "Cancel", !.set = q]
             /\ UNCHANGED tasks
    <3>1. b \in Clients /\ SameLife(client, b) /\ SameWebhook(client, b) /\ b.active = client.active
      BY <1>1, <2>1, Cleared, Zenon
    <3>2. b \in Clients
      BY <3>1
    <3>3. n \in Clients /\ SameLife(b, n) /\ n.cert = b.cert /\ n.active = b.active
      BY <2>2, <3>2, Advanced DEF Advances
    <3>4. n \in Clients
      BY <3>3
    <3>5. SameLife(n, client') /\ client'.cert = n.cert /\ client'.active = n.active
      <4> HIDE DEF q
      <4> QED
        BY <2>4, <3>4 DEF Clients, SameLife, SameRun
    <3>6. SameLife(client, client') /\ client'.cert = client.cert /\ client'.active = client.active
      BY <3>1, <3>3, <3>5 DEF SameLife, SameRun, SameWebhook
    <3> QED
      BY <1>1, <2>4, <3>6, LostSame
  <2>5. CASE /\ client.url = None /\ (client.set # 0 \/ client.active = 0)
             /\ DoSetWebhook(n, Replaced(ans, client.set), q, r)
    <3>1. Prepared(client) /\ client.cert = 0
      BY <1>1, <1>4, <2>5, AlivePrepared
    <3>2. /\ ~client.lost => ~client.closed
          /\ ~client.lost /\ ~client.restored /\ db'.cert # 0 => file = db'.cert /\ tasks = <<>>
      BY <1>1, <1>4 DEF LostInv
    <3> QED
      BY <1>3, <2>3, <2>5, <3>1, <3>2 DEF GoesOn
  <2> QED
    BY <1>2, <1>4, <2>3, <2>4, <2>5 DEF ProcessSetWebhook
<1>5. CASE /\ ~client.alive /\ client.number < MaxClients
           /\ ProcessSetWebhook(NewClient(client.number + 1, db = NotSaved, client.lost), q, r)
  <2>1. PICK c : c = NewClient(client.number + 1, db = NotSaved, client.lost)
    OBVIOUS
  <2>2. Prepared(c) /\ c.cert = 0 /\ c.gen = 0 /\ ~c.closed /\ c.lost = client.lost
    BY <1>1, <1>5, <2>1, CreatedPrepared DEF Created
  <2>3. c.set = 0 /\ c.active = 0 /\ c.url = None /\ c.alive
    BY <2>2 DEF Prepared
  <2>4. ~c.lost /\ db'.cert # 0 => file = db'.cert /\ tasks = <<>>
    BY <1>1, <1>5, <2>2 DEF LostInv
  <2>5. CASE client' = c /\ UNCHANGED tasks
    BY <1>1, <2>2, <2>3, <2>4, <2>5 DEF LostInv
  <2>6. PICK n : n = [AbortLongPoll(c, r) EXCEPT !.set = 0, !.gen = @ + 1]
    OBVIOUS
  <2>7. CASE DoSetWebhook(n, Replaced(ans, c.set), q, r)
    BY <1>3, <2>2, <2>4, <2>6, <2>7 DEF GoesOn
  <2>8. ProcessSetWebhook(c, q, r)
    BY <1>5, <2>1
  <2> QED
    BY <2>3, <2>5, <2>6, <2>7, <2>8 DEF ProcessSetWebhook
<1> QED
  BY <1>2, <1>4, <1>5 DEF SetWebhook

(* A Client that is given the saved webhook. *)
LEMMA RestoreLost ==
  ASSUME IInv, OtherMethod \/ StartAgain
  PROVE  LostInv'
<1>1. PICK l \in BOOLEAN : client' = Restored(client.number + 1, db, l)
  <2>1. client.lost \in BOOLEAN /\ (client.lost \/ Removal(results)) \in BOOLEAN
    BY DEF IInv, Types, Clients
  <2> QED
    BY <2>1 DEF OtherMethod, StartAgain
<1>2. PICK m \in 1..MaxClients : m = client.number + 1
  BY WorkTypes, ControlAssumption DEF IInv, OtherMethod, StartAgain
<1>3. db \in [url : Nat, cert : 0..MaxQueries]
  BY DEF IInv, Types
<1>4. client'.alive /\ ~client'.closed /\ client'.restored
  BY <1>1, <1>2, <1>3, RestoredClient
<1> QED
  BY <1>4, LostGoesOn

(* webhook_verified, and a task that is done. *)
LEMMA VerifiedLost ==
  ASSUME IInv, LostInv, OnVerified \/ RunTask
  PROVE  LostInv'
<1>1. CASE RunTask
  BY <1>1 DEF RunTask, LostInv
<1>2. CASE OnVerified
  <2>1. CASE UNCHANGED <<client, tasks, file, db>>
    BY <2>1, LostSame DEF SameLife, SameRun
  <2>2. CASE /\ client' = [client EXCEPT !.set = 0] /\ db' = Saved(client) /\ client.alive
             /\ UNCHANGED <<tasks, file>>
    <3>1. /\ SameLife(client, client') /\ client'.cert = client.cert /\ client'.active = client.active
      BY <2>2 DEF IInv, Types, Clients, SameLife, SameRun
    <3>2. db'.cert = client.cert
      BY <2>2 DEF Saved
    <3> QED
      BY <2>2, <3>1, <3>2 DEF LostInv, SameLife, SameRun
  <2> QED
    BY <1>2, <2>1, <2>2 DEF OnVerified
<1> QED
  BY <1>1, <1>2

(* on_webhook_closed: no webhook is saved any more. *)
LEMMA ClosingLost ==
  ASSUME IInv, LostInv, Closing
  PROVE  LostInv'
<1>1. PICK c : c = WithoutWebhook(client)
  OBVIOUS
<1>2. /\ Prepared(c) /\ c.cert = 0
      /\ client.set # 0 /\ client.type = "Cancel" =>
           Asking(answer, client.set, asked[client.set])
  BY <1>1, ClosedPrepared DEF IsWithout
<1>3. c.lost = client.lost /\ c.closed = client.closed /\ c.alive /\ c.active = 0 /\ client.alive
  BY <1>1, <1>2 DEF Prepared, WithoutWebhook, IInv, Types, Clients, Closing
<1>4. ~c.lost => ~c.closed
  BY <1>3 DEF LostInv
<1>5. db'.cert = 0
  BY DEF Closing, OnWebhookClosed, Erased, NotSaved
<1>6. CASE client' = c
  BY <1>2, <1>3, <1>4, <1>5, <1>6 DEF LostInv
<1>7. CASE /\ client.set # 0 /\ client.type = "Cancel"
           /\ DoSetWebhook(c, answer, client.set, asked[client.set])
  BY <1>2, <1>4, <1>5, <1>7, DoSetLost
<1> QED
  BY <1>1, <1>6, <1>7 DEF Closing, OnWebhookClosed

LEMMA OnClosedLost ==
  ASSUME IInv, LostInv, OnClosed
  PROVE  LostInv'
<1>1. CASE client.cert # 0 /\ UNCHANGED <<client, actor, db, answer>>
  <2>1. ~client.lost => client.alive /\ ~client.closed /\ client.restored
    BY <1>1, MessageCloses DEF LostInv, IInv, Types, Clients
  <2> QED
    BY <1>1, <2>1, LostGoesOn
<1>2. CASE OnWebhookClosed
  BY <1>2, MessageCloses, ClosingLost
<1> QED
  BY <1>1, <1>2 DEF OnClosed

LEMMA OnResultLost ==
  ASSUME IInv, LostInv, OnResult
  PROVE  LostInv'
<1>1. Head(results) = results[1] /\ file' = file /\ client \in Clients
  BY TailOf DEF OnResult, IInv, Types
<1>2. CASE UNCHANGED <<client, actor, tasks, db, answer>>
  BY <1>1, <1>2, LostSame DEF SameLife, SameRun
<1>3. CASE IsFor(results[1]) /\ results[1].what = "unlink" /\ OnWebhookClosed
  BY <1>3, ResultCloses, ClosingLost
<1>4. CASE IsFor(results[1]) /\ OnWebhookCertificateCopied(results[1].ok)
  <2>1. ~client.lost => client.alive /\ ~client.closed /\ client.restored
    BY <1>1, <1>4 DEF IsFor, OnWebhookCertificateCopied, LostInv, Clients
  <2>2. PICK c : c = [client EXCEPT !.active = 0]
    OBVIOUS
  <2>3. PICK d : d = [c EXCEPT !.cert = client.active]
    OBVIOUS
  <2>4. \/ client' = c \/ client' = d
        \/ client' = [d EXCEPT !.url = asked[client.active].url, !.id = TRUE, !.type = "Verify",
                               !.set = client.active]
    BY <1>4, <2>2, <2>3 DEF OnWebhookCertificateCopied, FinishSetWebhook
  <2>5. c \in Clients /\ SameLife(client, c)
    BY <1>1, <2>2, ControlAssumption DEF Clients, SameLife, SameRun
  <2>6. d \in Clients /\ SameLife(client, d)
    BY <1>1, <2>3, <2>5 DEF Clients, SameLife, SameRun
  <2>7. SameLife(client, client')
    BY <2>4, <2>5, <2>6 DEF Clients, SameLife, SameRun
  <2> QED
    BY <2>1, <2>7, LostGoesOn DEF SameLife, SameRun
<1> QED
  BY <1>1, <1>2, <1>3, <1>4 DEF OnResult

(* A Client that stops leaves the certificate, or it is lost. *)
LEMMA EndLost ==
  ASSUME IInv, LostInv, OnClientClosed \/ FinishClosing \/ TimeoutExpired
  PROVE  LostInv'
<1>1. client \in Clients
  BY DEF IInv, Types
<1>2. CASE OnClientClosed
  <2>1. PICK c : c = [client EXCEPT !.closed = TRUE, !.set = 0, !.active = 0, !.poll = FALSE, !.id = FALSE]
    OBVIOUS
  <2>2. PICK b : b = [client EXCEPT !.closed = TRUE, !.set = 0, !.active = 0]
    OBVIOUS
  <2>3. c = [b EXCEPT !.poll = FALSE, !.id = FALSE]
    BY <2>1, <2>2, Zenon
  <2>4. /\ b \in Clients /\ b.active = 0 /\ b.lost = client.lost /\ b.restored = client.restored
        /\ b.cert = client.cert
    <3>1. 0 \in 0..MaxQueries /\ 0 \in 0..Internal
      BY ControlAssumption DEF Internal
    <3> QED
      BY <1>1, <2>2, <3>1 DEF Clients
  <2>5. /\ c \in Clients /\ c.active = 0 /\ c.lost = client.lost /\ c.restored = client.restored
        /\ c.cert = client.cert
    BY <2>3, <2>4 DEF Clients
  <2>6. \/ Stop(c) /\ UNCHANGED <<tasks, file, db>>
        \/ client' = [c EXCEPT !.lost = TRUE]
    <3>1. \/ ~c.logging_out /\ Stop(c)
          \/ client' = [c EXCEPT !.lost = TRUE]
      BY <1>2, <2>1, Zenon DEF OnClientClosed
    <3>2. ~c.logging_out => UNCHANGED <<tasks, file, db>>
      BY <1>2, <2>1 DEF OnClientClosed
    <3> QED
      BY <3>1, <3>2
  <2>7. CASE client' = [c EXCEPT !.lost = TRUE]
    BY <2>5, <2>7 DEF Clients, LostInv
  <2>8. CASE Stop(c) /\ UNCHANGED <<tasks, file, db>>
    <3>1. /\ ~client'.alive /\ client'.restored = c.restored /\ client'.cert = c.cert
          /\ client'.active = c.active
          /\ ~client'.lost => ~c.lost /\ ~Has(tasks, "unlink") /\ ~Has(results, "unlink")
      BY <2>5, <2>8, StopOf
    <3>2. ~client'.lost /\ db.cert # 0 => file = db.cert /\ tasks = <<>>
      BY <2>5, <3>1, SavedKept
    <3> QED
      BY <2>5, <2>8, <3>1, <3>2 DEF LostInv
  <2> QED
    BY <2>6, <2>7, <2>8
<1>3. CASE FinishClosing \/ TimeoutExpired
  <2>1. client.lost
    BY <1>3 DEF FinishClosing, TimeoutExpired, LostInv, IInv, AliveInv, Held
  <2>2. PICK c : c = [client EXCEPT !.wiped = TRUE]
    OBVIOUS
  <2>3. c \in Clients /\ c.lost
    BY <1>1, <2>1, <2>2 DEF Clients
  <2>4. Stop(c) \/ client' = c \/ Stop(client)
    BY <1>3, <2>2, Zenon DEF FinishClosing, TimeoutExpired
  <2>5. client'.lost
    BY <1>1, <2>1, <2>3, <2>4, StopOf
  <2> QED
    BY <2>5 DEF LostInv
<1> QED
  BY <1>2, <1>3

(* The steps that leave the certificate alone, and the cleanup. *)
LEMMA OthersLost ==
  ASSUME IInv, LostInv,
         GetUpdates \/ Actor \/ LogOut \/ CloseClient \/ Cleanup \/ UNCHANGED vars
  PROVE  LostInv'
<1>1. client \in Clients
  BY DEF IInv, Types
<1>2. CASE GetUpdates
  <2>1. PICK b \in BOOLEAN : b = ~client.poll
    OBVIOUS
  <2>2. client' = [client EXCEPT !.poll = b]
    BY <1>1, <1>2, <2>1 DEF GetUpdates, Clients
  <2> QED
    BY <1>1, <1>2, <2>2 DEF GetUpdates, Clients, LostInv
<1>3. CASE LogOut \/ CloseClient
  BY <1>1, <1>3 DEF LogOut, CloseClient, Clients, LostInv
<1>4. CASE Cleanup
  BY <1>1, <1>4 DEF Cleanup, Clients, LostInv
<1>5. CASE Actor \/ UNCHANGED vars
  <2>1. UNCHANGED <<client, tasks, file, db>>
    BY <1>5 DEF Actor, Verify, AddressChanged, Fail, Close, Gone, ActorStep, vars
  <2> QED
    BY <2>1, LostSame DEF SameLife, SameRun
<1> QED
  BY <1>2, <1>3, <1>4, <1>5

LEMMA NextLost == IInv /\ LostInv /\ [Next]_vars => LostInv'
<1> SUFFICES ASSUME IInv, LostInv, [Next]_vars PROVE LostInv'
  OBVIOUS
<1>1. CASE Ask
  BY <1>1, SetWebhookLost, RestoreLost, OthersLost DEF Ask
<1>2. CASE Handle
  BY <1>2, VerifiedLost, OnClosedLost, OnResultLost, OthersLost DEF Handle
<1>3. CASE End
  BY <1>3, OthersLost, EndLost, RestoreLost DEF End, Restart, Abort
<1> QED
  BY <1>1, <1>2, <1>3, OthersLost DEF Next

LEMMA InitLost == Init => LostInv
<1> SUFFICES ASSUME Init PROVE LostInv
  OBVIOUS
<1>1. client.alive /\ ~client.closed /\ client.restored
  BY DEF Init, NewClient
<1> QED
  BY <1>1 DEF LostInv

LEMMA Invariance == Spec => []IInv
<1>1. Init => IInv /\ LostInv
  BY InitInv, InitLost
<1>2. (IInv /\ LostInv) /\ [Next]_vars => (IInv /\ LostInv)'
  BY NextInv, NextLost
<1> QED
  BY <1>1, <1>2, PTL DEF Spec


-------------------------------------------------------------------------------
(* What follows from the invariant. *)

(* Of the tasks and of the results at most one is the Client's own. *)
LEMMA OwnCounts ==
  ASSUME IInv, NEW what
  PROVE  /\ Own(tasks, what) = IF Has(tasks, what) THEN 1 ELSE 0
         /\ Own(results, what) = IF Has(results, what) THEN 1 ELSE 0
         /\ ~(Has(tasks, what) /\ Has(results, what))
<1>1. /\ client.number \in Nat /\ \A k \in 1..Len(tasks) : tasks[k].for \in Nat
      /\ \A k \in 1..Len(results) : results[k].for \in Nat
      /\ Len(tasks) \in Nat /\ Len(results) \in Nat
  BY WorkTypes DEF IInv
<1>2. ASSUME NEW s, Len(s) \in Nat, Ordered(s), \A k \in 1..Len(s) : s[k].for \in Nat
      PROVE  Own(s, what) = IF Has(s, what) THEN 1 ELSE 0
  <2> DEFINE S == {k \in 1..Len(s) : s[k].what = what /\ s[k].for = client.number}
  <2>1. CASE ~Has(s, what)
    <3>1. S = {}
      BY <2>1 DEF Has
    <3> QED
      BY <2>1, <3>1, FS_EmptySet DEF Own
  <2>2. CASE Has(s, what)
    <3>1. PICK k \in 1..Len(s) : s[k].what = what /\ s[k].for = client.number
      BY <2>2 DEF Has
    <3>2. ASSUME NEW j \in 1..Len(s), s[j].for = client.number PROVE j = k
      <4>1. ~(j < k) /\ ~(k < j)
        BY <1>1, <1>2, <3>1, <3>2 DEF Ordered
      <4> QED
        BY <1>2, <4>1
    <3>3. S = {k}
      BY <3>1, <3>2
    <3>4. Cardinality({k}) = 1
      BY FS_Singleton
    <3> QED
      BY <2>2, <3>3, <3>4 DEF Own
  <2> QED
    BY <2>1, <2>2
<1>3. Own(tasks, what) = IF Has(tasks, what) THEN 1 ELSE 0
  BY <1>1, <1>2 DEF IInv, WorkOrder
<1>4. Own(results, what) = IF Has(results, what) THEN 1 ELSE 0
  BY <1>1, <1>2 DEF IInv, WorkOrder
<1>5. ASSUME Has(tasks, what), Has(results, what) PROVE FALSE
  <2>1. PICK k \in 1..Len(tasks) : tasks[k].for = client.number
    BY <1>5 DEF Has
  <2>2. PICK j \in 1..Len(results) : results[j].for = client.number
    BY <1>5 DEF Has
  <2>3. results[j].for < tasks[k].for
    BY DEF IInv, WorkOrder
  <2> QED
    BY <1>1, <2>1, <2>2, <2>3
<1> QED
  BY <1>3, <1>4, <1>5

LEMMA AtMostTwo == \A n \in Nat : n <= 2 => n = 0 \/ n = 1 \/ n = 2
OBVIOUS

(* Of the messages at most one says that the actor is closed. *)
LEMMA ClosedCount ==
  ASSUME IInv, client.alive
  PROVE  /\ Pending(mail, "closed") = IF MailCloses THEN 1 ELSE 0
         /\ actor.on => ~MailCloses
<1> DEFINE S == {k \in 1..Len(mail) : mail[k].what = "closed"}
<1>1. MailShape /\ Len(mail) \in Nat /\ (mail = <<>> <=> Len(mail) = 0)
  BY LenProperties, EmptySeq DEF IInv, Types, AliveInv
<1>2. Len(mail) = 0 \/ Len(mail) = 1 \/ Len(mail) = 2
  <2>1. Len(mail) <= 2
    BY <1>1 DEF MailShape
  <2> QED
    BY <1>1, <2>1, AtMostTwo, Zenon
<1>3. "verified" # "closed"
  OBVIOUS
<1>4. CASE ~MailCloses
  <2>1. S = {}
    <3> SUFFICES ASSUME NEW k \in 1..Len(mail), mail[k].what = "closed" PROVE FALSE
      OBVIOUS
    <3>1. Len(mail) = 1 /\ k = 1
      BY <1>1, <1>2, <1>4 DEF MailShape, MailCloses, IsMail
    <3> QED
      BY <1>1, <1>4, <3>1 DEF MailCloses, IsMail
  <2> QED
    BY <1>4, <2>1, FS_EmptySet DEF Pending
<1>5. CASE MailCloses
  <2>1. Len(mail) \in 1..Len(mail) /\ mail[Len(mail)].what = "closed"
    BY <1>1, <1>5 DEF MailCloses, IsMail
  <2>2. ASSUME NEW k \in 1..Len(mail), mail[k].what = "closed" PROVE k = Len(mail)
    <3>1. CASE Len(mail) = 2
      <4>1. mail[1].what = "verified"
        BY <1>1, <3>1 DEF MailShape, IsMail
      <4>2. k = 1 \/ k = 2
        BY <3>1
      <4> QED
        BY <1>3, <2>2, <3>1, <4>1, <4>2
    <3>2. CASE Len(mail) # 2
      BY <1>1, <1>2, <3>2
    <3> QED
      BY <3>1, <3>2
  <2>3. S = {Len(mail)}
    BY <2>1, <2>2
  <2>4. Cardinality({Len(mail)}) = 1
    BY FS_Singleton
  <2> QED
    <3>1. ~actor.on
      BY <1>1, <1>5 DEF MailShape, MailCloses, IsMail
    <3> QED
      BY <1>5, <2>3, <2>4, <3>1 DEF Pending
<1> QED
  BY <1>4, <1>5

LEMMA InvEndsOnce == IInv => EndsOnce
<1> SUFFICES ASSUME IInv, client.alive, ~client.closed PROVE EndsOnce
  BY DEF EndsOnce
<1>1. ToCome
  BY DEF IInv, AliveInv
<1>2. \A w : Own(tasks, w) + Own(results, w) = IF HasWork(w) THEN 1 ELSE 0
  BY OwnCounts DEF HasWork
<1>3. Own(tasks, "unlink") \in Nat /\ Own(results, "unlink") \in Nat
  BY OwnCounts
<1>4. /\ Pending(mail, "closed") = IF MailCloses THEN 1 ELSE 0
      /\ actor.on => ~MailCloses
      /\ mail = <<>> => ~MailCloses
  BY ClosedCount DEF MailCloses
<1>5. (IF actor.on THEN 1 ELSE 0) + Pending(mail, "closed") + (Own(tasks, "unlink") + Own(results, "unlink"))
        = IF client.url = None THEN 0 ELSE 1
  BY <1>1, <1>2, <1>4 DEF ToCome, NoWork, InUse
<1> QED
  BY <1>3, <1>4, <1>5 DEF EndsOnce

(* The work of certificates is of different Clients, so there is at most   *)
(* one piece for each of them.                                             *)
LEMMA FewTasks ==
  ASSUME IInv
  PROVE  Len(tasks) + Len(results) <= MaxClients
<1>1. PICK n \in Nat : n = Len(results)
  BY WorkTypes DEF IInv
<1>2. PICK m \in Nat : m = Len(tasks)
  BY WorkTypes DEF IInv
<1>3. PICK f : f = [k \in 1..(m + n) |-> IF k <= n THEN results[k].for ELSE tasks[k - n].for]
  OBVIOUS
<1>4. /\ \A k \in 1..n : f[k] = results[k].for /\ f[k] \in 1..MaxClients
      /\ \A k \in (n + 1)..(m + n) :
           k - n \in 1..m /\ f[k] = tasks[k - n].for /\ f[k] \in 1..MaxClients
  <2>1. \A k \in 1..n : results[k].for \in 1..MaxClients
    BY <1>1, WorkTypes DEF IInv, Results
  <2>2. \A k \in 1..m : tasks[k].for \in 1..MaxClients
    BY <1>2, WorkTypes DEF IInv, Tasks
  <2>3. \A k \in 1..n : k \in 1..(m + n) /\ k <= n
    OBVIOUS
  <2>4. \A k \in (n + 1)..(m + n) : k \in 1..(m + n) /\ ~(k <= n) /\ k - n \in 1..m
    OBVIOUS
  <2> QED
    BY <1>3, <2>1, <2>2, <2>3, <2>4
<1>5. \A k \in 1..(m + n) : k \in 1..n \/ k \in (n + 1)..(m + n)
  OBVIOUS
<1>6. f \in [1..(m + n) -> 1..MaxClients]
  <2>1. \A k \in 1..(m + n) : f[k] \in 1..MaxClients
    BY <1>4, <1>5
  <2> QED
    BY <1>3, <2>1
<1>7. ASSUME NEW j \in 1..(m + n), NEW k \in 1..(m + n), j < k PROVE f[j] < f[k]
  <2>1. /\ \A i, l \in 1..n : i < l => results[i].for < results[l].for
        /\ \A i, l \in 1..m : i < l => tasks[i].for < tasks[l].for
        /\ \A i \in 1..n, l \in 1..m : results[i].for < tasks[l].for
    BY <1>1, <1>2 DEF IInv, WorkOrder, Ordered
  <2>2. CASE k \in 1..n
    <3>1. j \in 1..n
      BY <1>7, <2>2
    <3> QED
      BY <1>4, <1>7, <2>1, <2>2, <3>1
  <2>3. CASE k \in (n + 1)..(m + n) /\ j \in 1..n
    BY <1>4, <2>1, <2>3
  <2>4. CASE k \in (n + 1)..(m + n) /\ j \in (n + 1)..(m + n)
    <3>1. j - n < k - n
      BY <1>7
    <3> QED
      BY <1>4, <2>1, <2>4, <3>1
  <2> QED
    BY <1>5, <2>2, <2>3, <2>4
<1>8. ASSUME NEW j \in 1..(m + n), NEW k \in 1..(m + n), j # k PROVE f[j] # f[k]
  <2>1. j < k \/ k < j
    BY <1>8
  <2>2. f[j] \in Nat /\ f[k] \in Nat
    BY <1>6, ControlAssumption
  <2> QED
    BY <1>7, <2>1, <2>2
<1>9. /\ IsFiniteSet(1..(m + n)) /\ Cardinality(1..(m + n)) = m + n
      /\ IsFiniteSet(1..MaxClients) /\ Cardinality(1..MaxClients) = MaxClients
  <2>1. m + n \in Nat /\ MaxClients \in Nat
    BY ControlAssumption
  <2>2. \A a \in Nat : IsFiniteSet(1..a) /\ Cardinality(1..a) = a
    BY FS_Interval
  <2> QED
    BY <2>1, <2>2
<1>10. ~(MaxClients < m + n)
  BY <1>6, <1>8, <1>9, FS_PigeonHole
<1> QED
  BY <1>1, <1>2, <1>10, ControlAssumption

LEMMA InvTypes == IInv => TypeOK
<1> SUFFICES ASSUME IInv PROVE TypeOK
  OBVIOUS
<1>1. Len(tasks) + Len(results) <= MaxClients
  BY FewTasks
<1>2. Len(mail) <= 2
  <2>1. CASE client.alive
    BY <2>1 DEF IInv, AliveInv, MailShape
  <2>2. CASE ~client.alive
    <3>1. Len(mail) = 0
      BY <2>2 DEF IInv, StoppedInv
    <3> QED
      BY <3>1
  <2> QED
    BY <2>1, <2>2
<1>3. /\ client.number \in 1..MaxClients /\ client.type \in {"Verify", "Cancel"}
      /\ client.set \in 0..Internal /\ client.active \in 0..MaxQueries
      /\ client.cert \in 0..MaxQueries /\ file \in 0..MaxQueries
      /\ Len(asked) <= MaxQueries /\ Len(answer) = Len(asked)
  BY DEF IInv, Types, Clients
<1>4. client.active \in 0..Internal
  BY <1>3, ControlAssumption DEF Internal
<1> QED
  BY <1>1, <1>2, <1>3, <1>4 DEF TypeOK

(* While getUpdates waits there is no webhook, so there is nothing to come *)
(* and no actor.                                                           *)
LEMMA InvOneConsumer == IInv => OneConsumer
<1> SUFFICES ASSUME IInv, client.poll PROVE ~actor.on
  BY DEF OneConsumer
<1>1. client.alive
  BY DEF IInv, StoppedInv
<1>2. client.url = None
  BY <1>1 DEF IInv, AliveInv, Held
<1> QED
  BY <1>1, <1>2 DEF IInv, AliveInv, ToCome, InUse

LEMMA InvChecksHold == IInv => ChecksHold
<1> SUFFICES ASSUME IInv, client.alive PROVE ChecksHold
  BY DEF ChecksHold
<1>1. Held /\ ToCome
  BY DEF IInv, AliveInv
<1>2. Own(tasks, "copy") + Own(results, "copy") = IF HasWork("copy") THEN 1 ELSE 0
  BY OwnCounts DEF HasWork
<1>3. ~client.closed => (HasWork("copy") <=> client.active # 0)
  BY <1>1 DEF ToCome, NoWork, InUse
<1>4. client.active # 0 => client.set = 0 /\ client.url = None
  BY <1>1 DEF ToCome, InUse, Held
<1>5. client.url = None /\ ~Ending(client) => ~client.id /\ client.cert = 0 /\ client.set = 0
  BY <1>1 DEF Held
<1>6. client.closed => ~client.id /\ client.set = 0 /\ client.active = 0
  BY <1>1 DEF Held
<1> QED
  BY <1>2, <1>3, <1>4, <1>5, <1>6 DEF ChecksHold

LEMMA InvSavedExactly == IInv => SavedExactly
<1> SUFFICES ASSUME IInv, client.alive, ~client.closed, client.restored, client.set = 0,
                    client.active = 0
             PROVE  db = (IF client.url = None THEN NotSaved ELSE Saved(client))
  BY DEF SavedExactly
<1> QED
  BY DEF IInv, AliveInv, SavedInv

LEMMA InvSavedCertificate == IInv => SavedCertificate
<1> SUFFICES ASSUME IInv, client.alive, ~client.closed, client.restored, ~client.lost, db.cert # 0
             PROVE  file = db.cert \/ Own(results, "unlink") = 1
  BY DEF SavedCertificate
<1>1. SavedInv /\ CertificateInv
  BY DEF IInv, AliveInv
<1>2. NotSaved.cert = 0
  BY DEF NotSaved
<1>3. client.url # None /\ db = Saved(client)
  BY <1>1, <1>2 DEF SavedInv
<1>4. db.cert = client.cert
  BY <1>3 DEF Saved
<1>5. Has(results, "unlink") \/ file = client.cert
  BY <1>1, <1>3, <1>4 DEF CertificateInv
<1>6. Has(results, "unlink") => Own(results, "unlink") = 1
  BY OwnCounts
<1> QED
  BY <1>4, <1>5, <1>6

(* Client, WebhookActor and the certificate scheduler agree on what is     *)
(* still to come: a webhook ends exactly once, and no more messages are    *)
(* under way than one for each Client and two of the actor.                *)
THEOREM ConsistentCorrect == Spec => []Consistent
<1>1. IInv => Consistent
  BY InvTypes, InvEndsOnce DEF Consistent
<1> QED
  BY Invariance, <1>1, PTL

(* While a getUpdates request waits there is no WebhookActor. *)
THEOREM OneConsumerCorrect == Spec => []OneConsumer
  BY Invariance, InvOneConsumer, PTL

(* The CHECKs of clear_tqueue, do_set_webhook, finish_set_webhook and      *)
(* process_set_webhook_query do not fail, and the copy of a certificate    *)
(* finds the request it is for as long as the Client is not closed.        *)
THEOREM ChecksHoldCorrect == Spec => []ChecksHold
  BY Invariance, InvChecksHold, PTL

(* While no request is held, the saved webhook is the one in use. *)
THEOREM SavedExactlyCorrect == Spec => []SavedExactly
  BY Invariance, InvSavedExactly, PTL

(* The certificate of a saved webhook is in cert.pem until it is removed   *)
(* on the way to on_webhook_closed, for every interleaving with restarts,  *)
(* closings and the late work of Clients that have ended, unless a cleanup *)
(* round has deleted it, its removal was cut short by an end of the Client *)
(* or of the process, the bot has logged out, or a Client that was not     *)
(* given the saved webhook has copied another over it.                     *)
THEOREM SavedCertificateCorrect == Spec => []SavedCertificate
  BY Invariance, InvSavedCertificate, PTL

LEMMA OnVerifiedOwn ==
  ASSUME IInv, OnVerified
  PROVE  OwnOks
<1>1. CASE answer' = answer
  BY <1>1, QuietIsOwn DEF OldOks
<1>2. CASE /\ IsCurrent(Head(mail)) /\ client' = [client EXCEPT !.set = 0]
           /\ db' = Saved(client) /\ answer' = Reply(answer, client.set, "ok")
  <2>1. /\ client.alive /\ mail # <<>> /\ mail' = Tail(mail) /\ asked' = asked
        /\ client \in Clients /\ mail \in Seq(Mails) /\ Generation
    BY DEF OnVerified, IInv, Types, AliveInv
  <2>2. client'.url = client.url
    BY <1>2, <2>1 DEF Clients
  <2>3. DOMAIN answer = 1..Len(asked)
    BY LenProperties DEF IInv, Types
  <2>4. ASSUME client.set \in 1..Len(asked) PROVE GetsOwn(client.set)
    <3>1. mail[1].gen = client.gen /\ 1 \in 1..Len(mail) /\ mail[1].gen \in Nat
      BY <1>2, <2>1, MailTaken, TailOf DEF IsCurrent, Mails
    <3>2. client.set # 0
      BY <2>4
    <3>3. client.type = "Verify"
      <4>1. client.type = "Verify" \/ client.type = "Cancel"
        BY <2>1 DEF Clients
      <4>2. client.type = "Cancel" => mail[1].gen < client.gen
        BY <2>1, <3>1, <3>2 DEF Generation
      <4> QED
        BY <3>1, <4>1, <4>2
    <3>4. /\ client.url = asked[client.set].url
          /\ client.cert = IF asked[client.set].cert THEN client.set ELSE 0
      BY <2>1, <2>4, <3>3 DEF Generation
    <3> QED
      BY <1>2, <2>1, <2>2, <3>4 DEF GetsOwn, Saved
  <2>5. OldOks(answer)
    BY DEF OldOks
  <2> QED
    BY <1>2, <2>3, <2>4, <2>5, RepliedOwn
<1> QED
  BY <1>1, <1>2 DEF OnVerified

(* on_webhook_closed goes on with the request that waits, or fails it. *)
LEMMA OnWebhookClosedOwn ==
  ASSUME IInv, Closing
  PROVE  OwnOks
<1>0. PICK c : c = WithoutWebhook(client)
  OBVIOUS
<1>1. /\ Prepared(c)
      /\ client.set # 0 /\ client.type = "Cancel" =>
           Asking(answer, client.set, asked[client.set])
  BY <1>0, ClosedPrepared DEF IsWithout
<1>2. OldOks(answer)
  BY DEF OldOks
<1>3. CASE answer' = answer \/ answer' = Reply(answer, client.set, "failed")
  BY <1>2, <1>3, QuietIsOwn, RepliedOld
<1>4. CASE /\ client.set # 0 /\ client.type = "Cancel"
           /\ DoSetWebhook(c, answer, client.set, asked[client.set])
  BY <1>1, <1>2, <1>4, DoSetOwn
<1> QED
  BY <1>0, <1>3, <1>4 DEF Closing, OnWebhookClosed

LEMMA OnResultOwn ==
  ASSUME IInv, OnResult
  PROVE  OwnOks
<1>1. OldOks(answer) /\ results # <<>> /\ Head(results) = results[1]
  BY TailOf DEF OldOks, OnResult, IInv, Types
<1>2. CASE IsFor(results[1]) /\ results[1].what = "unlink" /\ OnWebhookClosed
  BY <1>2, ResultCloses, OnWebhookClosedOwn
<1>3. CASE answer' = answer \/ answer' = Reply(answer, client.active, "failed")
  BY <1>1, <1>3, QuietIsOwn, RepliedOld
<1>4. OnWebhookCertificateCopied(results[1].ok) =>
        answer' = answer \/ answer' = Reply(answer, client.active, "failed")
  BY DEF OnWebhookCertificateCopied, FinishSetWebhook
<1> QED
  BY <1>1, <1>2, <1>3, <1>4 DEF OnResult

LEMMA OnClosedOwn ==
  ASSUME IInv, OnClosed
  PROVE  OwnOks
<1>1. CASE answer' = answer
  BY <1>1, QuietIsOwn DEF OldOks
<1>2. CASE OnWebhookClosed
  BY <1>2, MessageCloses, OnWebhookClosedOwn
<1> QED
  BY <1>1, <1>2 DEF OnClosed

(* A request that changes nothing finds its webhook in use and saved. *)
LEMMA SetWebhookOwn ==
  ASSUME IInv, NEW r \in Requests, SetWebhook(r)
  PROVE  OwnOks
<1> DEFINE q == Len(asked) + 1
           ans == Append(answer, "none")
<1>1. /\ q <= MaxQueries /\ asked' = Append(asked, r)
      /\ UNCHANGED <<mail, results, file, db>> /\ asked'[q] = r
  BY AskedAnswers DEF SetWebhook
<1>2. OldOks(ans) /\ OldOks(Append(answer, "failed"))
  <2>1. "none" \in Answers /\ "none" # "ok" /\ "failed" \in Answers /\ "failed" # "ok"
    BY DEF Answers
  <2> QED
    BY <2>1, AppendedOld
<1>3. CASE \/ answer' = Append(answer, "failed")
           \/ answer' = Reply(ans, q, "failed") \/ answer' = Replaced(ans, client.set)
  BY <1>2, <1>3, RepliedOld, QuietIsOwn DEF Replaced
<1>4. ASSUME NEW c, ProcessSetWebhook(c, q, r), c.url = r.url => c = client \/ Prepared(c),
             c = client => client.alive /\ ~Ending(client),
             c.url = None /\ (c.set # 0 \/ c.active = 0) => Prepared(c) /\ c.cert = 0
      PROVE  OwnOks \/ answer' = Replaced(ans, c.set)
  <2>1. CASE c.set = 0 /\ c.active = 0 /\ Unchanged(c, r) /\ client' = c /\ answer' = Reply(ans, q, "ok")
    <3>1. c.url = r.url /\ c.cert = 0 /\ ~r.cert
      BY <2>1 DEF Unchanged
    <3>2. CASE c.url = None
      <4>1. c.restored => db' = NotSaved
        BY <1>4, <2>1, <3>2 DEF Prepared
      <4> QED
        BY <1>1, <1>2, <2>1, <3>1, <3>2, <4>1, RepliedOwn DEF GetsOwn, NotSaved
    <3>3. CASE c.url # None
      <4>1. c = client
        BY <1>4, <3>1, <3>3 DEF Prepared
      <4>2. client.alive /\ ~client.closed
        BY <1>4, <4>1 DEF IInv, AliveInv, Held
      <4>3. db = Saved(client)
        BY <2>1, <3>3, <4>1, <4>2 DEF IInv, AliveInv, SavedInv
      <4> QED
        BY <1>1, <1>2, <2>1, <3>1, <4>1, <4>3, RepliedOwn DEF GetsOwn, Saved
    <3> QED
      BY <3>2, <3>3
  <2>2. CASE answer' = Reply(ans, q, "failed")
    BY <1>3, <2>2
  <2>3. PICK n : n = [AbortLongPoll(c, r) EXCEPT !.set = 0, !.gen = @ + 1]
    OBVIOUS
  <2>4. CASE c.url = None /\ (c.set # 0 \/ c.active = 0) /\ DoSetWebhook(n, Replaced(ans, c.set), q, r)
    <3>1. Prepared(c) /\ (c.cert # 0 => Ending(c))
      BY <1>4, <2>4
    <3> QED
      BY <1>1, <2>3, <2>4, <3>1, ProcessWithout DEF GoesOn
  <2> QED
    BY <1>4, <2>1, <2>2, <2>3, <2>4 DEF ProcessSetWebhook
<1>5. CASE client.alive /\ ~Ending(client) /\ ProcessSetWebhook(client, q, r)
  BY <1>1, <1>3, <1>4, <1>5, AlivePrepared
<1>6. CASE /\ ~client.alive /\ client.number < MaxClients
           /\ ProcessSetWebhook(NewClient(client.number + 1, db = NotSaved, client.lost), q, r)
  <2>1. PICK c : c = NewClient(client.number + 1, db = NotSaved, client.lost)
    OBVIOUS
  <2>2. Prepared(c) /\ c.cert = 0
    BY <1>1, <1>6, <2>1, CreatedPrepared DEF Created
  <2>3. c.alive
    BY <2>2 DEF Prepared
  <2>4. OwnOks \/ answer' = Replaced(ans, c.set)
    BY <1>4, <1>6, <2>1, <2>2, <2>3
  <2> QED
    BY <1>2, <2>4, RepliedOld, QuietIsOwn DEF Replaced
<1> QED
  BY <1>3, <1>5, <1>6 DEF SetWebhook, FailQueryClosing

(* The other steps answer no request with success. *)
LEMMA OthersQuiet ==
  ASSUME OtherMethod \/ GetUpdates \/ Actor \/ RunTask \/ Cleanup \/ End \/ UNCHANGED vars
  PROVE  OwnOks
<1>1. answer' = answer \/ OldOks(answer')
  BY DEF OtherMethod, GetUpdates, Actor, Verify, AddressChanged, Fail, Close, Gone, ActorStep,
         RunTask, Cleanup, End, LogOut, CloseClient, OnClientClosed, FinishClosing, TimeoutExpired,
         Restart, Abort, StartAgain, vars, OldOks
<1> QED
  BY <1>1, QuietIsOwn DEF OldOks

LEMMA StepOwn == IInv /\ [Next]_vars => OwnOks
<1> SUFFICES ASSUME IInv, [Next]_vars PROVE OwnOks
  OBVIOUS
<1> QED
  BY SetWebhookOwn, OnVerifiedOwn, OnClosedOwn, OnResultOwn, OthersQuiet DEF Next, Ask, Handle

(* A request that is answered with success has its own webhook and its own *)
(* certificate in use and saved, not those of a request it has replaced or *)
(* that has replaced it, whatever the WebhookActors and the scheduler of   *)
(* certificates still send.                                                *)
THEOREM SuccessIsOwnCorrect == Spec => SuccessIsOwn
<1>1. IInv /\ [Next]_vars => [OwnOks]_vars
  BY StepOwn
<1>2. [OwnOks]_vars =>
       [\A q \in DOMAIN answer' :
          answer'[q] = "ok" /\ (q \in DOMAIN answer => answer[q] # "ok") =>
            /\ client'.url = asked'[q].url
            /\ client'.restored \/ asked'[q].url # None =>
                 db' = [url |-> asked'[q].url, cert |-> IF asked'[q].cert THEN q ELSE 0]]_vars
  BY DEF OwnOks, GetsOwn
<1> QED
  BY Invariance, <1>1, <1>2, PTL DEF Spec, SuccessIsOwn

===============================================================================
