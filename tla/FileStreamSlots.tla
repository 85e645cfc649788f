---------------------------- MODULE FileStreamSlots ----------------------------
(***************************************************************************)
(* The slots of the streaming endpoint: how ClientManager                  *)
(* (server/ClientManager.cpp) admits a stream, counts the streams of each  *)
(* bot, and gets a slot back.                                              *)
(*                                                                         *)
(* A FileStreamConnection calls send_file_stream when it starts and        *)
(* release_file_stream when it ends, whether or not it was admitted, and   *)
(* possibly before its first call has been handled.  calls[s] holds the    *)
(* calls of stream s on their way; those of one stream stay in order,      *)
(* those of different streams do not.                                      *)
(***************************************************************************)
EXTENDS Integers, Sequences, FiniteSets

CONSTANTS
  Streams,         \* the streams, each with its own stream_id_
  Tokens,          \* the bots
  MaxConnections,  \* --file-stream-max-connections
  NoToken          \* the absence of an entry in active_file_stream_token_

ASSUME SlotsAssumption ==
  /\ IsFiniteSet(Streams)
  /\ MaxConnections \in Nat \ {0}
  /\ NoToken \notin Tokens

VARIABLES
  request,     \* per stream: the bot it asks for, and whether its token and
               \* file_id pass the checks of send_file_stream
  phase,       \* per stream: its FileStreamConnection
  calls,       \* per stream: its calls on their way to ClientManager
  refused,     \* the streams to which on_file_error is on its way
  active_ids,  \* active_file_stream_ids_
  token_of,    \* active_file_stream_token_
  count,       \* active_file_streams_by_token_ (0: no entry)
  clients,     \* the tokens with a Client: token_to_id_
  close_flag,  \* close_flag_
  emergency    \* workdir_disk_emergency_

managerVars == <<active_ids, token_of, count>>
vars == <<request, phase, calls, refused, managerVars, clients, close_flag, emergency>>

PerBotLimit == IF MaxConnections \div 4 > 1 THEN MaxConnections \div 4 ELSE 1

-------------------------------------------------------------------------------
(* FileStreamConnection. *)

start_up(s) ==
  /\ phase[s] = "new"
  /\ phase' = [phase EXCEPT ![s] = "open"]
  /\ calls' = [calls EXCEPT ![s] = Append(@, "send")]
  /\ UNCHANGED <<request, refused, managerVars, clients, close_flag, emergency>>

(* The stream ends: refused, or for any reason of its own. *)
ReleasedIfHandled(s) == IF calls[s] = <<>> THEN <<"release">> ELSE calls[s]
WithRelease(s) == Append(calls[s], "release")

tear_down(s) ==
  /\ phase[s] = "open"
  /\ phase' = [phase EXCEPT ![s] = "closed"]
  /\ calls' = [calls EXCEPT ![s] = WithRelease(s)]
  /\ refused' = refused \ {s}
  /\ UNCHANGED <<request, managerVars, clients, close_flag, emergency>>

-------------------------------------------------------------------------------
(* ClientManager::send_file_stream. *)

TakeCall(s, call) ==
  /\ calls[s] # <<>>
  /\ Head(calls[s]) = call
  /\ calls' = [calls EXCEPT ![s] = Tail(@)]

UnlimitedRoom == TRUE
HasRoom == Cardinality(active_ids) < MaxConnections

HasBotRoom(t) == count[t] < PerBotLimit

Admissible(r) ==
  /\ ~emergency
  /\ ~close_flag
  /\ HasRoom
  /\ r.valid
  /\ HasBotRoom(r.token)

(* A refusal: any failed check, or the flood control of the peer or of the *)
(* server when a Client would have to be created.                          *)
Refuse(s) ==
  /\ TakeCall(s, "send")
  /\ ~Admissible(request[s]) \/ request[s].token \notin clients
  /\ refused' = IF phase[s] = "open" THEN refused \cup {s} ELSE refused
  /\ UNCHANGED <<request, phase, managerVars, clients, close_flag, emergency>>

Admit(s) ==
  /\ TakeCall(s, "send")
  /\ Admissible(request[s])
  /\ clients' = clients \cup {request[s].token}
  /\ active_ids' = active_ids \cup {s}
  /\ token_of' = [token_of EXCEPT ![s] = request[s].token]
  /\ count' = [count EXCEPT ![request[s].token] = @ + 1]
  /\ UNCHANGED <<request, phase, refused, close_flag, emergency>>

(* ClientManager::release_file_stream: nothing to give back for a stream   *)
(* that was refused.                                                       *)
AlwaysCounted(s) == TRUE
Counted(s) == token_of[s] # NoToken

ReleasedToken(s) == IF token_of[s] = NoToken THEN request[s].token ELSE token_of[s]

(* The counter never goes below 0: at 0 the entry is erased. *)
Lowered(n) == IF n > 0 THEN n - 1 ELSE 0

UncheckedRelease(s) ==
  /\ TakeCall(s, "release")
  /\ active_ids' = active_ids \ {s}
  /\ token_of' = [token_of EXCEPT ![s] = NoToken]
  /\ count' = [count EXCEPT ![ReleasedToken(s)] = @ - 1]
  /\ UNCHANGED <<request, phase, refused, clients, close_flag, emergency>>
release_file_stream(s) ==
  /\ TakeCall(s, "release")
  /\ active_ids' = active_ids \ {s}
  /\ token_of' = [token_of EXCEPT ![s] = NoToken]
  /\ count' = IF Counted(s) THEN [count EXCEPT ![ReleasedToken(s)] = Lowered(@)] ELSE count
  /\ UNCHANGED <<request, phase, refused, clients, close_flag, emergency>>

-------------------------------------------------------------------------------
(* The rest of the server: a Client that ends (hangup_shared), close(),    *)
(* and the disk emergency of the workdir cleanup.                          *)

hangup_shared(t) ==
  /\ t \in clients
  /\ clients' = clients \ {t}
  /\ UNCHANGED <<request, phase, calls, refused, managerVars, close_flag, emergency>>

close ==
  /\ ~close_flag
  /\ close_flag' = TRUE
  /\ UNCHANGED <<request, phase, calls, refused, managerVars, clients, emergency>>

DiskEmergency ==
  /\ ~emergency
  /\ emergency' = TRUE
  /\ UNCHANGED <<request, phase, calls, refused, managerVars, clients, close_flag>>

Init ==
  /\ request \in [Streams -> [token : Tokens, valid : BOOLEAN]]
  /\ phase = [s \in Streams |-> "new"]
  /\ calls = [s \in Streams |-> <<>>]
  /\ refused = {}
  /\ active_ids = {}
  /\ token_of = [s \in Streams |-> NoToken]
  /\ count = [t \in Tokens |-> 0]
  /\ clients = {}
  /\ close_flag = FALSE
  /\ emergency = FALSE

Manager(s) == Refuse(s) \/ Admit(s) \/ release_file_stream(s)

Next ==
  \/ \E s \in Streams : start_up(s) \/ tear_down(s) \/ Manager(s)
  \/ \E t \in Tokens : hangup_shared(t)
  \/ close \/ DiskEmergency

(* ClientManager handles its calls; a refused stream ends. *)
Spec == Init /\ [][Next]_vars
FairSpec == Spec /\ \A s \in Streams : /\ WF_vars(Manager(s))
                                       /\ WF_vars(s \in refused /\ tear_down(s))

-------------------------------------------------------------------------------
(* Properties. *)

(* Every variable has its type. *)
TypeOK ==
  /\ request \in [Streams -> [token : Tokens, valid : BOOLEAN]]
  /\ phase \in [Streams -> {"new", "open", "closed"}]
  /\ calls \in [Streams -> Seq({"send", "release"})]
  /\ refused \subseteq Streams
  /\ active_ids \subseteq Streams
  /\ token_of \in [Streams -> Tokens \cup {NoToken}]
  /\ count \in [Tokens -> Nat]
  /\ clients \subseteq Tokens
  /\ close_flag \in BOOLEAN
  /\ emergency \in BOOLEAN

StreamsOf(t) == {s \in active_ids : token_of[s] = t}

(* The three tables of ClientManager agree: a bot's counter is the number  *)
(* of its streams that hold a slot, whatever the order of ends, refusals   *)
(* and releases.                                                           *)
CountsExact ==
  /\ \A s \in Streams : s \in active_ids <=> token_of[s] # NoToken
  /\ \A t \in Tokens : count[t] = Cardinality(StreamsOf(t))

(* The limits hold: no more streams than --file-stream-max-connections,    *)
(* and no more per bot than a quarter of that (at least one).              *)
LimitsHold ==
  /\ Cardinality(active_ids) <= MaxConnections
  /\ \A t \in Tokens : Cardinality(StreamsOf(t)) <= PerBotLimit

(* A slot belongs to a stream that is open or whose release is on its way: *)
(* a stream that ends before its send_file_stream has been handled is      *)
(* admitted although it is dead, but its slot is still released.           *)
NoSlotLeak ==
  \A s \in active_ids : phase[s] = "open" \/ calls[s] = <<"release">>

(* Every slot of an ended stream comes back for good, also when the end    *)
(* overtakes the handling of send_file_stream.                             *)
SlotReturned == \A s \in Streams : phase[s] = "closed" ~> [](s \notin active_ids)
===============================================================================
