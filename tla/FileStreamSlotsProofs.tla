------------------------- MODULE FileStreamSlotsProofs -------------------------
(***************************************************************************)
(* Proofs about FileStreamSlots, for any number of streams and bots and    *)
(* any limit.  The inductive invariant adds to the properties the shape of *)
(* the calls a stream has under way: which of send_file_stream and         *)
(* release_file_stream ClientManager has not handled yet, and that a       *)
(* stream holds a slot only between the two.                               *)
(***************************************************************************)
EXTENDS FileStreamSlots, FiniteSetTheorems, SequenceTheorems, TLAPS

CallsOf(s) ==
  CASE phase[s] = "new"    -> calls[s] = <<>>
    [] phase[s] = "open"   -> calls[s] \in {<<"send">>, <<>>}
    [] phase[s] = "closed" -> calls[s] \in {<<"send", "release">>, <<"release">>, <<>>}

(* s holds no slot before its first call and after its last. *)
NoSlotOf(s) ==
  \/ phase[s] = "new"
  \/ phase[s] = "open" /\ calls[s] = <<"send">>
  \/ phase[s] = "closed" /\ calls[s] # <<"release">>

CallShape == \A s \in Streams : CallsOf(s) /\ (NoSlotOf(s) => s \notin active_ids)

IInv == TypeOK /\ CallShape /\ CountsExact /\ LimitsHold

-------------------------------------------------------------------------------
(* The sequences that occur. *)
LEMMA SendThenRelease == Append(<<"send">>, "release") = <<"send", "release">>
<1> DEFINE a == Append(<<"send">>, "release")
           b == <<"send", "release">>
<1>1. a \in Seq({"send", "release"}) /\ b \in Seq({"send", "release"})
  OBVIOUS
<1>2. Len(a) = 2 /\ Len(b) = 2
  OBVIOUS
<1>3. \A i \in 1..2 : a[i] = b[i]
  <2>1. a[1] = b[1] /\ a[2] = b[2]
    OBVIOUS
  <2>2. QED  BY <2>1
<1> HIDE DEF a, b
<1>4. a = b
  BY <1>1, <1>2, <1>3, SeqEqual
<1>5. QED  BY <1>4 DEF a, b

LEMMA AppendedCalls == /\ Append(<<>>, "send") = <<"send">>
                       /\ Append(<<>>, "release") = <<"release">>
  OBVIOUS

LEMMA HandledCalls == /\ Head(<<"send">>) = "send" /\ Tail(<<"send">>) = <<>>
                      /\ Head(<<"release">>) = "release" /\ Tail(<<"release">>) = <<>>
                      /\ Head(<<"send", "release">>) = "send"
                      /\ Tail(<<"send", "release">>) = <<"release">>
  OBVIOUS

LEMMA CallSequences == /\ <<>> \in Seq({"send", "release"})
                       /\ <<"send">> \in Seq({"send", "release"})
                       /\ <<"release">> \in Seq({"send", "release"})
                       /\ <<"send", "release">> \in Seq({"send", "release"})
  OBVIOUS

LEMMA DistinctCalls == /\ <<"send">> # <<>> /\ <<"release">> # <<>>
                       /\ <<"send", "release">> # <<>>
                       /\ <<"send">> # <<"release">>
                       /\ <<"send", "release">> # <<"release">>
  OBVIOUS

(* The sets whose sizes are counted are finite. *)
LEMMA FiniteSlots ==
  ASSUME TypeOK
  PROVE  /\ IsFiniteSet(active_ids) /\ Cardinality(active_ids) \in Nat
         /\ \A t \in Tokens : IsFiniteSet(StreamsOf(t)) /\ Cardinality(StreamsOf(t)) \in Nat
<1>1. IsFiniteSet(active_ids)
  BY SlotsAssumption, FS_Subset DEF TypeOK
<1>2. \A t \in Tokens : StreamsOf(t) \subseteq active_ids
  BY DEF StreamsOf
<1>3. QED  BY <1>1, <1>2, FS_Subset, FS_CardinalityType

(* A step that leaves the tables alone keeps what is said about them. *)
LEMMA TablesUnchanged ==
  ASSUME CountsExact, LimitsHold, UNCHANGED managerVars
  PROVE  CountsExact' /\ LimitsHold'
  BY DEF CountsExact, LimitsHold, managerVars, StreamsOf

-------------------------------------------------------------------------------
(* One lemma per action: each preserves the inductive invariant. *)

LEMMA StartUpPreserves ==
  ASSUME IInv, NEW s \in Streams, start_up(s)
  PROVE  IInv'
<1> USE DEF IInv, start_up
<1>1. calls[s] = <<>>
  BY DEF CallShape, CallsOf
<1>2. calls'[s] = <<"send">> /\ \A x \in Streams \ {s} : calls'[x] = calls[x]
  BY <1>1, AppendedCalls DEF TypeOK
<1>3. TypeOK'
  BY <1>1, AppendedCalls, CallSequences DEF TypeOK, managerVars
<1>4. CallShape'
  BY <1>2 DEF TypeOK, CallShape, CallsOf, NoSlotOf, managerVars
<1>5. QED  BY <1>3, <1>4, TablesUnchanged

LEMMA TearDownPreserves ==
  ASSUME IInv, NEW s \in Streams, tear_down(s)
  PROVE  IInv'
<1> USE DEF IInv, tear_down, WithRelease
<1>1. calls[s] \in {<<"send">>, <<>>}
  BY DEF CallShape, CallsOf
<1>2. /\ calls'[s] = IF calls[s] = <<"send">> THEN <<"send", "release">> ELSE <<"release">>
      /\ \A x \in Streams \ {s} : calls'[x] = calls[x]
  BY <1>1, AppendedCalls, SendThenRelease DEF TypeOK
<1>3. TypeOK'
  <2>1. calls' \in [Streams -> Seq({"send", "release"})]
    BY <1>1, AppendedCalls, SendThenRelease, CallSequences DEF TypeOK
  <2>2. QED  BY <2>1 DEF TypeOK, managerVars
<1>4. CallShape'
  <2>1. phase'[s] = "closed" /\ \A x \in Streams \ {s} : phase'[x] = phase[x]
    BY DEF TypeOK
  <2>2. CallsOf(s)' /\ (NoSlotOf(s)' => s \notin active_ids')
    BY <1>1, <1>2, <2>1, DistinctCalls DEF CallShape, CallsOf, NoSlotOf, managerVars
  <2>3. \A x \in Streams \ {s} : CallsOf(x)' /\ (NoSlotOf(x)' => x \notin active_ids')
    BY <1>2, <2>1 DEF CallShape, CallsOf, NoSlotOf, managerVars
  <2>4. QED  BY <2>2, <2>3 DEF CallShape
<1>5. QED  BY <1>3, <1>4, TablesUnchanged

(* Handling a send: what is left of the calls, and that no slot is held yet. *)
LEMMA TakeSend ==
  ASSUME TypeOK, CallShape, NEW s \in Streams, TakeCall(s, "send")
  PROVE  /\ s \notin active_ids
         /\ phase[s] \in {"open", "closed"}
         /\ calls'[s] = IF phase[s] = "open" THEN <<>> ELSE <<"release">>
         /\ \A x \in Streams \ {s} : calls'[x] = calls[x]
         /\ calls' \in [Streams -> Seq({"send", "release"})]
<1>1. /\ phase[s] \in {"open", "closed"}
      /\ calls[s] = IF phase[s] = "open" THEN <<"send">> ELSE <<"send", "release">>
  BY HandledCalls DEF TypeOK, CallShape, CallsOf, TakeCall
<1>2. s \notin active_ids
  BY <1>1, DistinctCalls DEF CallShape, NoSlotOf
<1>3. Tail(calls[s]) = IF phase[s] = "open" THEN <<>> ELSE <<"release">>
  BY <1>1, HandledCalls
<1>4. QED  BY <1>1, <1>2, <1>3, CallSequences DEF TypeOK, TakeCall

LEMMA RefusePreserves ==
  ASSUME IInv, NEW s \in Streams, Refuse(s)
  PROVE  IInv'
<1> USE DEF IInv, Refuse
<1>1. TypeOK'
  BY TakeSend DEF TypeOK, managerVars
<1>2. CallShape'
  BY TakeSend, DistinctCalls DEF CallShape, CallsOf, NoSlotOf, managerVars
<1>3. QED  BY <1>1, <1>2, TablesUnchanged

LEMMA AdmitPreserves ==
  ASSUME IInv, NEW s \in Streams, Admit(s)
  PROVE  IInv'
<1> USE DEF IInv, Admit
<1> DEFINE t == request[s].token
<1>1. t \in Tokens /\ t # NoToken /\ s \notin active_ids
  BY TakeSend, SlotsAssumption DEF TypeOK
<1>2. TypeOK'
  BY <1>1, TakeSend DEF TypeOK
<1>3. CallShape'
  BY TakeSend, DistinctCalls DEF CallShape, CallsOf, NoSlotOf
<1>4. StreamsOf(t)' = StreamsOf(t) \cup {s} /\ s \notin StreamsOf(t)
  BY <1>1 DEF TypeOK, StreamsOf
<1>5. \A u \in Tokens \ {t} : StreamsOf(u)' = StreamsOf(u)
  BY <1>1 DEF TypeOK, StreamsOf
<1>6. /\ Cardinality(StreamsOf(t)') = Cardinality(StreamsOf(t)) + 1
      /\ Cardinality(active_ids') = Cardinality(active_ids) + 1
  BY <1>1, <1>4, FiniteSlots, FS_AddElement
<1>7. count'[t] = count[t] + 1 /\ \A u \in Tokens \ {t} : count'[u] = count[u]
  BY <1>1 DEF TypeOK
<1>8. CountsExact'
  <2>1. \A x \in Streams : x \in active_ids' <=> token_of'[x] # NoToken
    BY <1>1 DEF TypeOK, CountsExact
  <2>2. \A u \in Tokens : count'[u] = Cardinality(StreamsOf(u)')
    BY <1>1, <1>5, <1>6, <1>7 DEF CountsExact
  <2>3. QED  BY <2>1, <2>2 DEF CountsExact
<1>9. LimitsHold'
  <2>1. Cardinality(active_ids') <= MaxConnections
    BY <1>6, FiniteSlots, SlotsAssumption DEF Admissible, HasRoom
  <2>2. Cardinality(StreamsOf(t)') <= PerBotLimit
    <3>1. count[t] = Cardinality(StreamsOf(t)) /\ count[t] \in Nat
      BY <1>1 DEF CountsExact, TypeOK
    <3>2. count[t] < PerBotLimit
      BY DEF Admissible, HasBotRoom
    <3>3. PerBotLimit \in Nat
      BY SlotsAssumption DEF PerBotLimit
    <3>4. QED  BY <1>6, <3>1, <3>2, <3>3
  <2>3. \A u \in Tokens \ {t} : Cardinality(StreamsOf(u)') <= PerBotLimit
    BY <1>5 DEF LimitsHold
  <2>4. PerBotLimit' = PerBotLimit
    BY DEF PerBotLimit
  <2>5. QED  BY <2>1, <2>2, <2>3, <2>4 DEF LimitsHold
<1>10. QED  BY <1>2, <1>3, <1>8, <1>9

LEMMA ReleasePreserves ==
  ASSUME IInv, NEW s \in Streams, release_file_stream(s)
  PROVE  IInv'
<1> USE DEF IInv, release_file_stream
<1>1. phase[s] = "closed" /\ calls[s] = <<"release">>
  BY HandledCalls DEF TypeOK, CallShape, CallsOf, TakeCall
<1>2. /\ calls'[s] = <<>> /\ \A x \in Streams \ {s} : calls'[x] = calls[x]
      /\ calls' \in [Streams -> Seq({"send", "release"})]
  BY <1>1, HandledCalls, CallSequences DEF TypeOK, TakeCall
<1>3. CallShape'
  BY <1>1, <1>2 DEF CallShape, CallsOf, NoSlotOf
<1>4. CASE token_of[s] = NoToken
  <2>1. s \notin active_ids /\ active_ids' = active_ids
    BY <1>4 DEF CountsExact, TypeOK
  <2>2. token_of' = token_of /\ count' = count
    BY <1>4 DEF TypeOK, Counted
  <2>3. QED
    BY <1>2, <1>3, <2>1, <2>2, TablesUnchanged DEF TypeOK, managerVars
<1>5. CASE token_of[s] # NoToken
  <2>0. PICK t \in Tokens : t = token_of[s]
    BY <1>5 DEF TypeOK
  <2>1. t # NoToken /\ s \in active_ids /\ s \in StreamsOf(t)
    BY <1>5, <2>0 DEF CountsExact, TypeOK, StreamsOf
  <2>2. StreamsOf(t)' = StreamsOf(t) \ {s}
    BY <2>0, <2>1 DEF TypeOK, StreamsOf
  <2>3. \A u \in Tokens \ {t} : StreamsOf(u)' = StreamsOf(u)
    BY <2>0, <2>1 DEF TypeOK, StreamsOf
  <2>4. /\ Cardinality(StreamsOf(t)') = Cardinality(StreamsOf(t)) - 1
        /\ Cardinality(active_ids') = Cardinality(active_ids) - 1
    BY <2>1, <2>2, FiniteSlots, FS_RemoveElement
  <2>5. Cardinality(StreamsOf(t)) > 0
    BY <2>1, FiniteSlots, FS_EmptySet
  <2>6. count'[t] = count[t] - 1 /\ \A u \in Tokens \ {t} : count'[u] = count[u]
    BY <2>0, <2>1, <2>5 DEF TypeOK, CountsExact, Counted, ReleasedToken, Lowered
  <2>7. TypeOK'
    <3>1. Lowered(count[t]) \in Nat
      BY DEF TypeOK, Lowered
    <3>2. count' \in [Tokens -> Nat]
      BY <2>0, <2>1, <3>1 DEF TypeOK, Counted, ReleasedToken
    <3>3. QED  BY <1>2, <3>2 DEF TypeOK
  <2>8. CountsExact'
    <3>1. \A x \in Streams : x \in active_ids' <=> token_of'[x] # NoToken
      BY <2>1 DEF TypeOK, CountsExact
    <3>2. \A u \in Tokens : count'[u] = Cardinality(StreamsOf(u)')
      BY <2>1, <2>3, <2>4, <2>6 DEF CountsExact
    <3>3. QED  BY <3>1, <3>2 DEF CountsExact
  <2>9. LimitsHold'
    <3>1. Cardinality(active_ids') <= MaxConnections
      BY <2>4, FiniteSlots, SlotsAssumption DEF LimitsHold
    <3>2. PerBotLimit' = PerBotLimit /\ PerBotLimit \in Nat
      BY SlotsAssumption DEF PerBotLimit
    <3>3. \A u \in Tokens : Cardinality(StreamsOf(u)') <= PerBotLimit
      BY <2>1, <2>3, <2>4, <3>2, FiniteSlots DEF LimitsHold
    <3>4. QED  BY <3>1, <3>2, <3>3 DEF LimitsHold
  <2>10. QED  BY <1>3, <2>7, <2>8, <2>9
<1>6. QED  BY <1>4, <1>5

(* hangup_shared, close and the disk emergency touch neither the streams  *)
(* nor the tables.                                                        *)
LEMMA OthersPreserve ==
  ASSUME IInv, (\E t \in Tokens : hangup_shared(t)) \/ close \/ DiskEmergency
  PROVE  IInv'
<1>1. /\ UNCHANGED <<request, phase, calls, refused, managerVars>>
      /\ clients' \subseteq clients /\ close_flag' \in BOOLEAN /\ emergency' \in BOOLEAN
  BY DEF hangup_shared, close, DiskEmergency, IInv, TypeOK
<1>2. TypeOK'
  BY <1>1 DEF IInv, TypeOK, managerVars
<1>3. CallShape'
  BY <1>1 DEF IInv, CallShape, CallsOf, NoSlotOf, managerVars
<1>4. QED  BY <1>1, <1>2, <1>3, TablesUnchanged DEF IInv

-------------------------------------------------------------------------------
LEMMA InitInv == Init => IInv
<1> SUFFICES ASSUME Init PROVE IInv
  OBVIOUS
<1> USE DEF Init
<1>1. TypeOK
  BY CallSequences DEF TypeOK
<1>2. CallShape
  BY DEF CallShape, CallsOf, NoSlotOf
<1>3. \A t \in Tokens : StreamsOf(t) = {}
  BY DEF StreamsOf
<1>4. CountsExact
  BY <1>3, FS_EmptySet DEF CountsExact
<1>5. LimitsHold
  BY <1>3, FS_EmptySet, SlotsAssumption DEF LimitsHold, PerBotLimit
<1>6. QED  BY <1>1, <1>2, <1>4, <1>5 DEF IInv

LEMMA StepInv == IInv /\ [Next]_vars => IInv'
<1> SUFFICES ASSUME IInv, [Next]_vars PROVE IInv'
  OBVIOUS
<1>1. CASE UNCHANGED vars
  <2>1. TypeOK' /\ CallShape'
    BY <1>1 DEF IInv, vars, managerVars, TypeOK, CallShape, CallsOf, NoSlotOf
  <2>2. QED  BY <1>1, <2>1, TablesUnchanged DEF IInv, vars
<1>2. ASSUME NEW s \in Streams, start_up(s) \/ tear_down(s) \/ Manager(s)
      PROVE  IInv'
  BY <1>2, StartUpPreserves, TearDownPreserves, RefusePreserves, AdmitPreserves,
     ReleasePreserves DEF Manager
<1>3. CASE (\E t \in Tokens : hangup_shared(t)) \/ close \/ DiskEmergency
  BY <1>3, OthersPreserve
<1>4. QED  BY <1>1, <1>2, <1>3 DEF Next

(* The tables of send_file_stream and release_file_stream always have      *)
(* their types: a bot's counter in particular never goes negative.         *)
THEOREM TypeCorrect == Spec => []TypeOK
<1>1. IInv => TypeOK
  BY DEF IInv
<1>2. QED  BY <1>1, InitInv, StepInv, PTL DEF Spec

(* active_file_stream_ids_, active_file_stream_token_ and                  *)
(* active_file_streams_by_token_ always agree.                             *)
THEOREM CountsAreExact == Spec => []CountsExact
<1>1. IInv => CountsExact
  BY DEF IInv
<1>2. QED  BY <1>1, InitInv, StepInv, PTL DEF Spec

(* The checks of send_file_stream keep the streams within the limit of the *)
(* server and within that of each bot, for every limit.                    *)
THEOREM LimitsAlwaysHold == Spec => []LimitsHold
<1>1. IInv => LimitsHold
  BY DEF IInv
<1>2. QED  BY <1>1, InitInv, StepInv, PTL DEF Spec

(* A stream that holds a slot is open, or its release_file_stream is the   *)
(* one call it has under way: no order of the calls leaks a slot.          *)
THEOREM NoSlotLeaks == Spec => []NoSlotLeak
<1>1. IInv => NoSlotLeak
  BY DEF IInv, TypeOK, CallShape, NoSlotOf, NoSlotLeak
<1>2. QED  BY <1>1, InitInv, StepInv, PTL DEF Spec
===============================================================================
