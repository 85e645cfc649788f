------------------------- MODULE WorkdirCleanupProofs -------------------------
(***************************************************************************)
(* Proofs about WorkdirCleanup, for any files, sizes and limits and any    *)
(* number of streams and of calls under way.                               *)
(*                                                                         *)
(* Holds: the calls of a stream alternate, so the manager counts a stream  *)
(* for at most one file at a time, and active_files_ is the number of      *)
(* streams it counts.  Rounds: a candidate that is passed over proves that *)
(* no later one will be deleted.                                           *)
(***************************************************************************)
EXTENDS WorkdirCleanup, FiniteSetTheorems, FunctionTheorems, SequenceTheorems, TLAPS

Paths == Media \cup Outside
Calls == [op : {"retain", "release"}, path : Paths]

RoundType ==
  [phase : {"idle", "scan", "delete"}, unseen : SUBSET Workdir, scanned : Nat,
   candidates : SUBSET Candidates, threshold : BOOLEAN, left : SUBSET Candidates,
   remaining : Nat, deleted : SUBSET Candidates, failed : BOOLEAN]

Types ==
  /\ disk \subseteq Files
  /\ atime \in [Files -> 0..Now]
  /\ local_path \in [Streams -> Paths \cup {NoPath, Ended}]
  /\ calls \in [Streams -> Seq(Calls)]
  /\ active_files \in [Files -> Nat]
  /\ round \in RoundType
  /\ emergency \in BOOLEAN

(* The calls of a stream under way: a file that is retained is the next to *)
(* be released, and the last call agrees with local_path.                  *)
Alternates(q) ==
  \A k \in 1..(Len(q) - 1) :
    IF q[k].op = "retain" THEN q[k + 1] = Call("release", q[k].path)
    ELSE q[k + 1].op = "retain"

EndsAt(q, path) ==
  q # <<>> => IF q[Len(q)].op = "retain" THEN path = q[Len(q)].path ELSE path = Ended

CallShape ==
  \A s \in Streams :
    /\ Len(calls[s]) <= MaxCalls + 2
    /\ local_path[s] # Ended => Len(calls[s]) <= MaxCalls + 1
    /\ Alternates(calls[s])
    /\ EndsAt(calls[s], local_path[s])

(* The file that the manager counts the stream for. *)
CountedFor(q, path) ==
  IF q = <<>> THEN path
  ELSE IF q[1].op = "release" THEN q[1].path ELSE NoPath
Counted(f) == {s \in Streams : CountedFor(calls[s], local_path[s]) = f}

CountsKept ==
  /\ \A f \in Media : active_files[f] = Cardinality(Counted(f))
  /\ \A f \in Files \ Media : active_files[f] = 0

(* A round.  The bytes of a set of candidates, as a set of pairs.          *)
Bytes(C) == UNION {{c} \X (1..c.size) : c \in C}

OnePerPath == \A c, d \in round.candidates : c.path = d.path => c = d

Scanning ==
  round.phase = "scan" =>
    /\ round.left = {} /\ round.deleted = {} /\ ~round.failed
    /\ \A c \in round.candidates : c.path \notin round.unseen
    /\ IsFiniteSet(Bytes(round.candidates))
    /\ Cardinality(Bytes(round.candidates)) <= round.scanned

Skipped == round.candidates \ (round.left \cup round.deleted)

Deleting ==
  round.phase = "delete" =>
    /\ round.left \subseteq round.candidates /\ round.deleted \subseteq round.candidates
    /\ round.left \cap round.deleted = {}
    /\ IsFiniteSet(Bytes(round.left))
    /\ Cardinality(Bytes(round.left)) <= round.remaining
    /\ \A c \in Skipped : ~Expired(c) /\ ~MustReduce(round)
    /\ \A c \in Skipped, d \in round.left : c.access_time <= d.access_time
    /\ \A c \in round.deleted : Expired(c) \/ round.threshold
    /\ \/ round.deleted = {}
       \/ \E c \in round.deleted :
            /\ \A d \in round.deleted : d.access_time <= c.access_time
            /\ Expired(c) \/ round.remaining + c.size > Target

RoundInv ==
  /\ round.phase = "idle" => round = NoRound
  /\ OnePerPath
  /\ \A c \in round.candidates : active_files[c.path] = 0
  /\ Scanning
  /\ Deleting
  /\ OldestFirst

IInv == Types /\ CallShape /\ CountsKept /\ RoundInv

-------------------------------------------------------------------------------
LEMMA Distinct == /\ NoPath \notin Paths /\ Ended \notin Paths /\ NoPath # Ended
                  /\ Media \subseteq Files /\ Paths \subseteq Files /\ Workdir \subseteq Files
                  /\ Media \subseteq Paths /\ Media \subseteq Workdir
                  /\ Deletable \subseteq Files /\ Deletable \cap Paths = Media
  BY FilesAssumption DEF Paths, Files, Workdir, Deletable, is_workdir_cleanup_candidate

(* The bytes of candidates are counted one candidate at a time. *)
LEMMA NoBytes == IsFiniteSet(Bytes({})) /\ Cardinality(Bytes({})) = 0
<1>1. Bytes({}) = {}
  BY DEF Bytes
<1>2. QED  BY <1>1, FS_EmptySet

LEMMA IntervalSize ==
  ASSUME NEW n \in Nat
  PROVE  IsFiniteSet(1..n) /\ Cardinality(1..n) = n
<1>1. /\ IsFiniteSet(1..n)
      /\ Cardinality(1..n) = IF 1 > n THEN 0 ELSE n - 1 + 1
  BY FS_Interval
<1>2. (IF 1 > n THEN 0 ELSE n - 1 + 1) = n
  OBVIOUS
<1>3. QED  BY <1>1, <1>2

LEMMA BytesOfOne ==
  ASSUME NEW c \in Candidates
  PROVE  IsFiniteSet({c} \X (1..c.size)) /\ Cardinality({c} \X (1..c.size)) = c.size
<1>1. c.size \in Nat
  BY DEF Candidates
<1>2. IsFiniteSet(1..c.size) /\ Cardinality(1..c.size) = c.size
  BY <1>1, IntervalSize
<1>3. IsFiniteSet({c}) /\ Cardinality({c}) = 1
  BY FS_Singleton
<1>4. /\ IsFiniteSet({c} \X (1..c.size))
      /\ Cardinality({c} \X (1..c.size)) = Cardinality({c}) * Cardinality(1..c.size)
  BY <1>2, <1>3, FS_Product
<1>5. QED  BY <1>1, <1>2, <1>3, <1>4

LEMMA BytesAdded ==
  ASSUME NEW C \in SUBSET Candidates, NEW c \in Candidates, c \notin C,
         IsFiniteSet(Bytes(C))
  PROVE  /\ IsFiniteSet(Bytes(C \cup {c}))
         /\ Cardinality(Bytes(C \cup {c})) = Cardinality(Bytes(C)) + c.size
<1> DEFINE own == {c} \X (1..c.size)
<1>1. IsFiniteSet(own) /\ Cardinality(own) = c.size
  BY BytesOfOne
<1>2. Bytes(C \cup {c}) = Bytes(C) \cup own
  BY DEF Bytes
<1>3. Bytes(C) \cap own = {}
  BY DEF Bytes
<1>4. Cardinality(Bytes(C)) \in Nat /\ c.size \in Nat
  BY FS_CardinalityType DEF Candidates
<1> HIDE DEF own
<1>5. Cardinality(Bytes(C) \cap own) = 0
  BY <1>3, FS_EmptySet
<1>6. /\ IsFiniteSet(Bytes(C) \cup own)
      /\ Cardinality(Bytes(C) \cup own)
           = Cardinality(Bytes(C)) + Cardinality(own) - Cardinality(Bytes(C) \cap own)
  BY <1>1, FS_Union
<1>7. Cardinality(Bytes(C) \cup own) = Cardinality(Bytes(C)) + c.size
  BY <1>1, <1>4, <1>6, <1>5
<1>8. QED  BY <1>2, <1>6, <1>7

LEMMA BytesRemoved ==
  ASSUME NEW C \in SUBSET Candidates, NEW c \in C, IsFiniteSet(Bytes(C))
  PROVE  /\ IsFiniteSet(Bytes(C \ {c}))
         /\ Cardinality(Bytes(C \ {c})) + c.size = Cardinality(Bytes(C))
         /\ Cardinality(Bytes(C \ {c})) \in Nat
<1>1. Bytes(C \ {c}) \subseteq Bytes(C)
  BY DEF Bytes
<1>2. IsFiniteSet(Bytes(C \ {c}))
  BY <1>1, FS_Subset
<1>3. Cardinality(Bytes((C \ {c}) \cup {c})) = Cardinality(Bytes(C \ {c})) + c.size
  BY <1>2, BytesAdded
<1>4. (C \ {c}) \cup {c} = C
  OBVIOUS
<1>5. QED  BY <1>2, <1>3, <1>4, FS_CardinalityType

-------------------------------------------------------------------------------
(* Types. *)
LEMMA InitTypes == Init => Types
<1> SUFFICES ASSUME Init PROVE Types
  OBVIOUS
<1>1. round \in RoundType
  BY DEF Init, NoRound, RoundType, Candidates
<1>2. disk \subseteq Files
  BY Distinct DEF Init, Files, Workdir
<1>3. local_path \in [Streams -> Paths \cup {NoPath, Ended}]
  BY DEF Init
<1>4. calls \in [Streams -> Seq(Calls)]
  BY DEF Init
<1>5. QED  BY <1>1, <1>2, <1>3, <1>4 DEF Init, Types

LEMMA CallTypes ==
  ASSUME NEW f \in Paths
  PROVE  Call("retain", f) \in Calls /\ Call("release", f) \in Calls
  BY DEF Call, Calls

-------------------------------------------------------------------------------
(* The calls of one stream: adding one at the end, taking the first. *)

Follows(q, e) ==
  q # <<>> => IF q[Len(q)].op = "retain" THEN e = Call("release", q[Len(q)].path)
              ELSE e.op = "retain"

LEMMA CallAdded ==
  ASSUME NEW q \in Seq(Calls), NEW e \in Calls
  PROVE  /\ q \o <<e>> \in Seq(Calls) /\ q \o <<e>> # <<>>
         /\ Len(q) \in Nat /\ Len(q \o <<e>>) = Len(q) + 1
         /\ \A k \in 1..Len(q) : (q \o <<e>>)[k] = q[k]
         /\ (q \o <<e>>)[Len(q) + 1] = e
         /\ (q \o <<e>>)[1] = IF q = <<>> THEN e ELSE q[1]
<1>1. <<e>> \in Seq(Calls) /\ Len(<<e>>) = 1 /\ <<e>>[1] = e
  OBVIOUS
<1>2. Len(q) \in Nat /\ (q # <<>> => Len(q) >= 1) /\ (q = <<>> => Len(q) = 0)
  BY EmptySeq, LenProperties
<1>3. QED  BY <1>1, <1>2, ConcatProperties

LEMMA AddedAlternates ==
  ASSUME NEW q \in Seq(Calls), NEW e \in Calls, Alternates(q), Follows(q, e)
  PROVE  Alternates(q \o <<e>>)
<1> DEFINE r == q \o <<e>>
<1>1. /\ Len(q) \in Nat /\ Len(r) = Len(q) + 1
      /\ \A k \in 1..Len(q) : r[k] = q[k]
      /\ r[Len(q) + 1] = e
  BY CallAdded
<1> HIDE DEF r
<1>2. ASSUME NEW k \in 1..(Len(r) - 1)
      PROVE  IF r[k].op = "retain" THEN r[k + 1] = Call("release", r[k].path)
             ELSE r[k + 1].op = "retain"
  <2>1. CASE k = Len(q)
    <3>1. q # <<>>
      BY <1>1, <2>1, EmptySeq
    <3>2. QED  BY <1>1, <2>1, <3>1 DEF Follows
  <2>2. CASE k < Len(q)
    <3>1. k \in 1..(Len(q) - 1) /\ r[k] = q[k] /\ r[k + 1] = q[k + 1]
      BY <1>1, <2>2
    <3>2. QED  BY <3>1 DEF Alternates
  <2>3. QED  BY <1>1, <2>1, <2>2
<1>3. QED  BY <1>2 DEF Alternates, r

LEMMA CallTaken ==
  ASSUME NEW q \in Seq(Calls), q # <<>>, NEW path, Alternates(q), EndsAt(q, path)
  PROVE  /\ Tail(q) \in Seq(Calls) /\ Head(q) = q[1] /\ q[1] \in Calls
         /\ Len(Tail(q)) = Len(q) - 1 /\ Len(q) \in Nat \ {0}
         /\ Alternates(Tail(q)) /\ EndsAt(Tail(q), path)
         /\ CountedFor(Tail(q), path)
              = IF q[1].op = "retain" THEN q[1].path
                ELSE IF Tail(q) = <<>> THEN Ended ELSE NoPath
<1> DEFINE t == Tail(q)
<1>1. /\ t \in Seq(Calls) /\ Len(t) = Len(q) - 1 /\ Len(q) \in Nat \ {0}
      /\ \A k \in 1..Len(t) : t[k] = q[k + 1]
  BY HeadTailProperties, EmptySeq
<1>2. Head(q) = q[1] /\ q[1] \in Calls
  BY <1>1
<1>3. t = <<>> <=> Len(q) = 1
  BY <1>1, EmptySeq
<1> HIDE DEF t
<1>4. Alternates(t)
  <2>1. ASSUME NEW k \in 1..(Len(t) - 1)
        PROVE  IF t[k].op = "retain" THEN t[k + 1] = Call("release", t[k].path)
               ELSE t[k + 1].op = "retain"
    <3>1. k + 1 \in 1..(Len(q) - 1) /\ t[k] = q[k + 1] /\ t[k + 1] = q[k + 1 + 1]
      BY <1>1
    <3>2. QED  BY <3>1 DEF Alternates
  <2>2. QED  BY <2>1 DEF Alternates
<1>5. EndsAt(t, path)
  BY <1>1, <1>3 DEF EndsAt
<1>6. CountedFor(t, path) = IF q[1].op = "retain" THEN q[1].path
                            ELSE IF t = <<>> THEN Ended ELSE NoPath
  <2>1. CASE t = <<>>
    BY <1>3, <2>1 DEF EndsAt, CountedFor
  <2>2. CASE t # <<>>
    <3>1. 1 \in 1..(Len(q) - 1) /\ t[1] = q[1 + 1] /\ t[1] \in Calls
      BY <1>1, <1>3, <2>2
    <3>2. IF q[1].op = "retain" THEN t[1] = Call("release", q[1].path)
          ELSE t[1].op = "retain"
      BY <3>1 DEF Alternates
    <3>3. QED  BY <2>2, <3>2 DEF CountedFor, Call
  <2>3. QED  BY <2>1, <2>2
<1>7. QED  BY <1>1, <1>2, <1>4, <1>5, <1>6 DEF t

-------------------------------------------------------------------------------
HoldInv == Types /\ CallShape /\ CountsKept

ShapeOf(q, path) ==
  /\ Len(q) <= MaxCalls + 2
  /\ path # Ended => Len(q) <= MaxCalls + 1
  /\ Alternates(q)
  /\ EndsAt(q, path)

(* A stream sends calls that leave the file it is counted for as it is. *)
LEMMA StreamActs ==
  ASSUME HoldInv, NEW s \in Streams, NEW q \in Seq(Calls),
         NEW path \in Paths \cup {NoPath, Ended},
         local_path' = [local_path EXCEPT ![s] = path],
         calls' = [calls EXCEPT ![s] = q],
         UNCHANGED <<disk, atime, active_files, round, emergency>>,
         ShapeOf(q, path),
         CountedFor(q, path) = CountedFor(calls[s], local_path[s])
  PROVE  HoldInv'
<1>1. /\ local_path'[s] = path /\ calls'[s] = q
      /\ \A x \in Streams \ {s} : local_path'[x] = local_path[x] /\ calls'[x] = calls[x]
  BY DEF HoldInv, Types
<1>2. Types'
  BY DEF HoldInv, Types
<1>3. CallShape'
  BY <1>1 DEF HoldInv, CallShape, ShapeOf
<1>4. \A x \in Streams : CountedFor(calls[x], local_path[x])' = CountedFor(calls[x], local_path[x])
  BY <1>1 DEF CountedFor
<1>5. \A f : Counted(f)' = Counted(f)
  BY <1>4 DEF Counted
<1>6. CountsKept'
  BY <1>5 DEF HoldInv, CountsKept
<1>7. QED  BY <1>2, <1>3, <1>6 DEF HoldInv

(* A stream without a path has sent nothing. *)
LEMMA NothingSent ==
  ASSUME HoldInv, NEW s \in Streams, local_path[s] = NoPath
  PROVE  calls[s] = <<>>
<1> SUFFICES ASSUME calls[s] # <<>> PROVE FALSE
  OBVIOUS
<1>1. calls[s] \in Seq(Calls) /\ EndsAt(calls[s], NoPath)
  BY DEF HoldInv, Types, CallShape
<1>2. Len(calls[s]) \in Nat \ {0}
  BY <1>1, EmptySeq
<1>3. calls[s][Len(calls[s])] \in Calls
  BY <1>1, <1>2, ElementOfSeq
<1>4. calls[s][Len(calls[s])].path \in Paths
  BY <1>3 DEF Calls
<1>5. QED  BY <1>1, <1>4, Distinct DEF EndsAt

(* A release of the path of the stream may be sent. *)
LEMMA ReleaseSent ==
  ASSUME HoldInv, NEW s \in Streams, local_path[s] \in Paths
  PROVE  LET r == calls[s] \o <<Call("release", local_path[s])>>
         IN  /\ r \in Seq(Calls) /\ r # <<>> /\ Len(r) = Len(calls[s]) + 1
             /\ Len(calls[s]) \in Nat /\ Len(calls[s]) <= MaxCalls + 1
             /\ Alternates(r) /\ r[Len(r)].op = "release"
             /\ CountedFor(r, Ended) = CountedFor(calls[s], local_path[s])
<1> DEFINE q == calls[s]
           e == Call("release", local_path[s])
<1>1. q \in Seq(Calls) /\ e \in Calls /\ e.op = "release" /\ e.path = local_path[s]
  BY CallTypes DEF HoldInv, Types, Call
<1>2. Alternates(q) /\ EndsAt(q, local_path[s]) /\ Len(q) <= MaxCalls + 1
  BY Distinct DEF HoldInv, CallShape
<1>3. Follows(q, e)
  BY <1>2, Distinct DEF Follows, EndsAt
<1> HIDE DEF q, e
<1>4. /\ q \o <<e>> \in Seq(Calls) /\ q \o <<e>> # <<>>
      /\ Len(q) \in Nat /\ Len(q \o <<e>>) = Len(q) + 1
      /\ (q \o <<e>>)[Len(q) + 1] = e
      /\ (q \o <<e>>)[1] = IF q = <<>> THEN e ELSE q[1]
  BY <1>1, CallAdded
<1>5. Alternates(q \o <<e>>)
  BY <1>1, <1>2, <1>3, AddedAlternates
<1>6. CountedFor(q \o <<e>>, Ended) = CountedFor(q, local_path[s])
  BY <1>1, <1>4 DEF CountedFor
<1>7. (q \o <<e>>)[Len(q \o <<e>>)].op = "release"
  BY <1>1, <1>4
<1>8. QED  BY <1>2, <1>4, <1>5, <1>6, <1>7 DEF q, e

LEMMA SwitchPathHolds ==
  ASSUME HoldInv, NEW s \in Streams, NEW f \in Paths, SwitchPath(s, f)
  PROVE  HoldInv'
<1> DEFINE q == calls[s]
           e == Call("retain", f)
<1>1. /\ q \in Seq(Calls) /\ e \in Calls /\ e.op = "retain" /\ e.path = f
      /\ local_path[s] \in Paths \cup {NoPath, Ended} /\ MaxCalls \in Nat
  BY CallTypes, ConfigAssumption DEF HoldInv, Types, Call
<1>2. Len(q) < MaxCalls /\ local_path[s] # Ended /\ f # Ended
  BY Distinct DEF SwitchPath
<1>3. ASSUME NEW r \in Seq(Calls), calls' = [calls EXCEPT ![s] = r \o <<e>>],
             Len(r) <= MaxCalls, Len(r) \in Nat, Alternates(r), Follows(r, e),
             CountedFor(r \o <<e>>, f) = CountedFor(q, local_path[s])
      PROVE  HoldInv'
  <2>1. /\ r \o <<e>> \in Seq(Calls) /\ r \o <<e>> # <<>>
        /\ Len(r \o <<e>>) = Len(r) + 1
        /\ (r \o <<e>>)[Len(r) + 1] = e
    BY <1>1, <1>3, CallAdded
  <2>2. Alternates(r \o <<e>>)
    BY <1>1, <1>3, AddedAlternates
  <2>3. EndsAt(r \o <<e>>, f)
    BY <1>1, <2>1 DEF EndsAt
  <2>4. ShapeOf(r \o <<e>>, f)
    BY <1>1, <1>3, <2>1, <2>2, <2>3 DEF ShapeOf
  <2>5. /\ local_path' = [local_path EXCEPT ![s] = f]
        /\ UNCHANGED <<disk, atime, active_files, round, emergency>>
    BY DEF SwitchPath
  <2>6. QED  BY <1>3, <2>1, <2>4, <2>5, StreamActs
<1>4. CASE local_path[s] = NoPath
  <2>1. q = <<>>
    BY <1>4, NothingSent
  <2>2. calls' = [calls EXCEPT ![s] = q \o <<e>>]
    <3>1. calls[s] \o <<>> = calls[s]
      BY <1>1, ConcatEmptySeq
    <3>2. QED  BY <1>4, <3>1 DEF SwitchPath, ReleaseOld
  <2>3. Alternates(q) /\ Follows(q, e) /\ Len(q) \in Nat /\ Len(q) <= MaxCalls
    BY <1>1, <2>1 DEF Follows, HoldInv, CallShape
  <2>4. CountedFor(q \o <<e>>, f) = CountedFor(q, local_path[s])
    BY <1>1, <1>4, <2>1, CallAdded DEF CountedFor
  <2>5. QED  BY <1>1, <1>3, <2>2, <2>3, <2>4
<1>5. CASE local_path[s] # NoPath
  <2> DEFINE r == calls[s] \o <<Call("release", local_path[s])>>
  <2>1. local_path[s] \in Paths
    BY <1>1, <1>2, <1>5
  <2>2. /\ r \in Seq(Calls) /\ r # <<>> /\ Len(r) = Len(q) + 1 /\ Len(q) \in Nat
        /\ Alternates(r) /\ r[Len(r)].op = "release"
        /\ CountedFor(r, Ended) = CountedFor(q, local_path[s])
    BY <2>1, ReleaseSent
  <2>3. calls' = [calls EXCEPT ![s] = r \o <<e>>]
    BY <1>5 DEF SwitchPath, ReleaseOld
  <2> HIDE DEF r
  <2>4. Follows(r, e)
    BY <1>1, <2>2 DEF Follows
  <2>5. Len(r) <= MaxCalls /\ Len(r) \in Nat
    BY <1>1, <1>2, <2>2
  <2>6. CountedFor(r \o <<e>>, f) = CountedFor(r, Ended)
    BY <1>1, <2>2, CallAdded DEF CountedFor
  <2>7. QED  BY <1>3, <2>2, <2>3, <2>4, <2>5, <2>6
<1>6. QED  BY <1>4, <1>5

LEMMA TearDownHolds ==
  ASSUME HoldInv, NEW s \in Streams, tear_down(s)
  PROVE  HoldInv'
<1>1. /\ local_path[s] \in Paths \cup {NoPath, Ended} /\ MaxCalls \in Nat
      /\ local_path[s] # Ended /\ calls[s] \in Seq(Calls)
  BY ConfigAssumption DEF HoldInv, Types, tear_down
<1>2. CASE local_path[s] = NoPath
  <2>1. calls[s] = <<>>
    BY <1>2, NothingSent
  <2>2. \A f \in Media : s \notin Counted(f) /\ s \notin Counted(f)'
    <3>1. calls[s] \o <<>> = calls[s]
      BY <1>1, ConcatEmptySeq
    <3>2. local_path'[s] = Ended /\ calls'[s] = <<>>
      BY <1>2, <2>1, <3>1 DEF HoldInv, Types, tear_down, ReleaseOld
    <3>3. QED  BY <1>2, <2>1, <3>2, Distinct DEF Counted, CountedFor
  <2>3. calls' = calls
    <3>1. calls[s] \o <<>> = calls[s]
      BY <1>1, ConcatEmptySeq
    <3>2. QED  BY <1>2, <3>1 DEF HoldInv, Types, tear_down, ReleaseOld
  <2>4. /\ local_path' = [local_path EXCEPT ![s] = Ended]
        /\ UNCHANGED <<disk, atime, active_files, round, emergency>>
    BY DEF tear_down
  <2>5. Types'
    BY <2>3, <2>4 DEF HoldInv, Types
  <2>6. CallShape'
    BY <1>1, <2>1, <2>3, <2>4 DEF HoldInv, Types, CallShape, EndsAt
  <2>7. \A f \in Media : Counted(f)' = Counted(f)
    BY <2>2, <2>3, <2>4 DEF HoldInv, Types, Counted
  <2>8. CountsKept'
    BY <2>4, <2>7 DEF HoldInv, CountsKept
  <2>9. QED  BY <2>5, <2>6, <2>8 DEF HoldInv
<1>3. CASE local_path[s] # NoPath
  <2> DEFINE r == calls[s] \o <<Call("release", local_path[s])>>
  <2>1. /\ r \in Seq(Calls) /\ r # <<>> /\ Len(r) = Len(calls[s]) + 1
        /\ Len(calls[s]) \in Nat /\ Len(calls[s]) <= MaxCalls + 1
        /\ Alternates(r) /\ r[Len(r)].op = "release"
        /\ CountedFor(r, Ended) = CountedFor(calls[s], local_path[s])
    BY <1>1, <1>3, ReleaseSent
  <2>2. /\ calls' = [calls EXCEPT ![s] = r]
        /\ local_path' = [local_path EXCEPT ![s] = Ended]
        /\ UNCHANGED <<disk, atime, active_files, round, emergency>>
    BY <1>3 DEF tear_down, ReleaseOld
  <2> HIDE DEF r
  <2>3. ShapeOf(r, Ended)
    BY <1>1, <2>1 DEF ShapeOf, EndsAt
  <2>4. QED  BY <2>1, <2>2, <2>3, StreamActs
<1>4. QED  BY <1>2, <1>3

(* The manager takes the first call of a stream. *)
LEMMA TakeCallShape ==
  ASSUME HoldInv, NEW s \in Streams, NEW op, TakeCall(s, op)
  PROVE  /\ CallShape'
         /\ calls' \in [Streams -> Seq(Calls)]
         /\ \A x \in Streams \ {s} : calls'[x] = calls[x]
         /\ calls[s] \in Seq(Calls) /\ calls[s] # <<>>
         /\ Head(calls[s]) = calls[s][1] /\ calls[s][1] \in Calls /\ calls[s][1].op = op
         /\ CountedFor(calls'[s], local_path[s])
              = IF op = "retain" THEN calls[s][1].path
                ELSE IF calls'[s] = <<>> THEN Ended ELSE NoPath
<1>1. calls[s] \in Seq(Calls) /\ calls[s] # <<>> /\ Head(calls[s]).op = op
  BY DEF HoldInv, Types, TakeCall
<1>2. Alternates(calls[s]) /\ EndsAt(calls[s], local_path[s])
  BY DEF HoldInv, CallShape
<1>3. /\ Tail(calls[s]) \in Seq(Calls)
      /\ Head(calls[s]) = calls[s][1] /\ calls[s][1] \in Calls
      /\ Len(Tail(calls[s])) = Len(calls[s]) - 1 /\ Len(calls[s]) \in Nat \ {0}
      /\ Alternates(Tail(calls[s])) /\ EndsAt(Tail(calls[s]), local_path[s])
      /\ CountedFor(Tail(calls[s]), local_path[s])
           = IF calls[s][1].op = "retain" THEN calls[s][1].path
             ELSE IF Tail(calls[s]) = <<>> THEN Ended ELSE NoPath
  BY <1>1, <1>2, CallTaken
<1>4. /\ calls'[s] = Tail(calls[s])
      /\ \A x \in Streams \ {s} : calls'[x] = calls[x]
      /\ local_path' = local_path
  BY DEF HoldInv, Types, TakeCall
<1>5. calls' \in [Streams -> Seq(Calls)]
  BY <1>3 DEF HoldInv, Types, TakeCall
<1>6. CallShape'
  <2>1. ASSUME NEW x \in Streams, x # s
        PROVE  /\ Len(calls'[x]) <= MaxCalls + 2
               /\ local_path'[x] # Ended => Len(calls'[x]) <= MaxCalls + 1
               /\ Alternates(calls'[x]) /\ EndsAt(calls'[x], local_path'[x])
    BY <1>4, <2>1 DEF HoldInv, CallShape
  <2>2. /\ Len(calls'[s]) <= MaxCalls + 2
        /\ local_path'[s] # Ended => Len(calls'[s]) <= MaxCalls + 1
    BY <1>3, <1>4, ConfigAssumption DEF HoldInv, CallShape
  <2>3. Alternates(calls'[s]) /\ EndsAt(calls'[s], local_path'[s])
    BY <1>3, <1>4
  <2>4. QED  BY <2>1, <2>2, <2>3 DEF CallShape
<1>7. QED  BY <1>1, <1>3, <1>4, <1>5, <1>6

LEMMA CountedFinite ==
  ASSUME NEW f
  PROVE  IsFiniteSet(Counted(f)) /\ Cardinality(Counted(f)) \in Nat
<1>1. Counted(f) \subseteq Streams
  BY DEF Counted
<1>2. QED  BY <1>1, FilesAssumption, FS_Subset, FS_CardinalityType

LEMMA RetainHolds ==
  ASSUME HoldInv, NEW s \in Streams, retain_file(s)
  PROVE  HoldInv'
<1>1. TakeCall(s, "retain")
  BY DEF retain_file
<1>2. /\ CallShape'
      /\ calls' \in [Streams -> Seq(Calls)]
      /\ \A x \in Streams \ {s} : calls'[x] = calls[x]
      /\ calls[s] # <<>> /\ calls[s][1] \in Calls /\ calls[s][1].op = "retain"
      /\ Head(calls[s]) = calls[s][1]
      /\ CountedFor(calls'[s], local_path[s]) = calls[s][1].path
  BY <1>1, TakeCallShape
<1>3. PICK f \in Paths : f = calls[s][1].path /\ f \in Files
  BY <1>2, Distinct DEF Calls
<1>4. CountedFor(calls[s], local_path[s]) = NoPath
  BY <1>2, <1>3 DEF CountedFor
<1>5. local_path' = local_path /\ UNCHANGED <<disk, atime, round, emergency>>
  BY <1>1 DEF TakeCall
<1>6. active_files' = IF f \in Media THEN [active_files EXCEPT ![f] = @ + 1] ELSE active_files
  BY <1>2, <1>3, Distinct DEF retain_file, Deletable
<1>7. Counted(f)' = Counted(f) \cup {s} /\ s \notin Counted(f)
  BY <1>2, <1>3, <1>4, <1>5, Distinct DEF Counted
<1>8. \A g \in Media : g # f => Counted(g)' = Counted(g)
  BY <1>2, <1>3, <1>4, <1>5, Distinct DEF Counted
<1>9. active_files \in [Files -> Nat]
  BY DEF HoldInv, Types
<1>10. active_files' \in [Files -> Nat]
  BY <1>3, <1>6, <1>9
<1>11. Types'
  BY <1>2, <1>5, <1>10 DEF HoldInv, Types
<1>12. CountsKept'
  <2>1. Cardinality(Counted(f)') = Cardinality(Counted(f)) + 1
    BY <1>7, CountedFinite, FS_AddElement
  <2>2. ASSUME NEW g \in Media PROVE active_files'[g] = Cardinality(Counted(g)')
    <3>1. CASE g = f
      BY <1>3, <1>6, <1>9, <2>1, <3>1 DEF HoldInv, CountsKept
    <3>2. CASE g # f
      BY <1>6, <1>8, <1>9, <3>2, Distinct DEF HoldInv, CountsKept
    <3>3. QED  BY <3>1, <3>2
  <2>3. ASSUME NEW g \in Files \ Media PROVE active_files'[g] = 0
    BY <1>6, <1>9, <2>3 DEF HoldInv, CountsKept
  <2>4. QED  BY <2>2, <2>3 DEF CountsKept
<1>13. QED  BY <1>2, <1>11, <1>12 DEF HoldInv

LEMMA ReleaseHolds ==
  ASSUME HoldInv, NEW s \in Streams, release_file(s)
  PROVE  HoldInv'
<1>1. TakeCall(s, "release")
  BY DEF release_file
<1>2. /\ CallShape'
      /\ calls' \in [Streams -> Seq(Calls)]
      /\ \A x \in Streams \ {s} : calls'[x] = calls[x]
      /\ calls[s] # <<>> /\ calls[s][1] \in Calls /\ calls[s][1].op = "release"
      /\ Head(calls[s]) = calls[s][1]
      /\ CountedFor(calls'[s], local_path[s]) \in {Ended, NoPath}
  BY <1>1, TakeCallShape
<1>3. PICK f \in Paths : f = calls[s][1].path /\ f \in Files
  BY <1>2, Distinct DEF Calls
<1>4. CountedFor(calls[s], local_path[s]) = f
  BY <1>2, <1>3 DEF CountedFor
<1>5. local_path' = local_path /\ UNCHANGED <<disk, atime, round, emergency>>
  BY <1>1 DEF TakeCall
<1>6. active_files' = [active_files EXCEPT ![f] = CountDown(@)]
  BY <1>2, <1>3 DEF release_file
<1>7. Counted(f)' = Counted(f) \ {s} /\ s \in Counted(f)
  BY <1>2, <1>3, <1>4, <1>5, Distinct DEF Counted
<1>8. \A g \in Media : g # f => Counted(g)' = Counted(g)
  BY <1>2, <1>4, <1>5, Distinct DEF Counted
<1>9. active_files \in [Files -> Nat] /\ \A n \in Nat : CountDown(n) \in Nat
  BY DEF HoldInv, Types, CountDown
<1>10. active_files' \in [Files -> Nat]
  BY <1>3, <1>6, <1>9
<1>11. Types'
  BY <1>2, <1>5, <1>10 DEF HoldInv, Types
<1>12. CountsKept'
  <2>1. /\ Cardinality(Counted(f)') = Cardinality(Counted(f)) - 1
        /\ Cardinality(Counted(f)) \in Nat \ {0}
    BY <1>7, CountedFinite, FS_RemoveElement, FS_EmptySet
  <2>2. ASSUME NEW g \in Media PROVE active_files'[g] = Cardinality(Counted(g)')
    <3>1. CASE g = f
      BY <1>3, <1>6, <1>9, <2>1, <3>1 DEF HoldInv, CountsKept, CountDown
    <3>2. CASE g # f
      BY <1>6, <1>8, <1>9, <3>2, Distinct DEF HoldInv, CountsKept
    <3>3. QED  BY <3>1, <3>2
  <2>3. ASSUME NEW g \in Files \ Media PROVE active_files'[g] = 0
    BY <1>6, <1>9, <2>3 DEF HoldInv, CountsKept, CountDown
  <2>4. QED  BY <2>2, <2>3 DEF CountsKept
<1>13. QED  BY <1>2, <1>11, <1>12 DEF HoldInv

(* Every other step leaves the holds alone. *)
LEMMA HoldsUnchanged ==
  ASSUME CallShape, CountsKept, UNCHANGED <<streamVars, active_files>>
  PROVE  CallShape' /\ CountsKept'
  BY DEF streamVars, CallShape, CountsKept, Counted

-------------------------------------------------------------------------------
(* Rounds. *)
LEMMA RoundUnchanged ==
  ASSUME RoundInv, UNCHANGED <<round, active_files>>
  PROVE  RoundInv'
  BY DEF RoundInv, OnePerPath, Scanning, Deleting, Skipped, OldestFirst, Expired, MustReduce

LEMMA NoRoundInv ==
  ASSUME round' = NoRound
  PROVE  RoundInv'
  BY DEF NoRound, RoundInv, OnePerPath, Scanning, Deleting, OldestFirst

LEMMA StartRoundKeeps ==
  ASSUME IInv, StartRound
  PROVE  RoundInv' /\ round' \in RoundType
<1>1. round' = [phase |-> "scan", unseen |-> Workdir, scanned |-> 0, candidates |-> {},
                threshold |-> FALSE, left |-> {}, remaining |-> 0, deleted |-> {},
                failed |-> FALSE]
  BY DEF StartRound, NoRound
<1>2. RoundInv'
  BY <1>1, NoBytes DEF RoundInv, OnePerPath, Scanning, Deleting, OldestFirst
<1>3. round' \in RoundType
  BY <1>1 DEF RoundType
<1>4. QED  BY <1>2, <1>3

LEMMA VisitKeeps ==
  ASSUME IInv, NEW f \in Workdir, Visit(f)
  PROVE  RoundInv' /\ round' \in RoundType
<1> DEFINE taken == f \in disk /\ f \in Deletable /\ active_files[f] = 0
           c     == Candidate(f)
<1>1. /\ round \in RoundType /\ round.phase = "scan" /\ f \in round.unseen
      /\ active_files \in [Files -> Nat] /\ active_files' = active_files
      /\ f \in Files /\ Size[f] \in Nat /\ atime[f] \in 0..Now
  BY FilesAssumption, Distinct DEF IInv, Types, Visit
<1>2. /\ round'.phase = "scan" /\ round'.unseen = round.unseen \ {f}
      /\ round'.candidates = IF taken THEN round.candidates \cup {c} ELSE round.candidates
      /\ round'.scanned \in Nat /\ round.scanned \in Nat
      /\ round'.scanned >= IF taken THEN round.scanned + Size[f] ELSE round.scanned
      /\ round'.left = round.left /\ round'.deleted = round.deleted
      /\ round'.failed = round.failed
  BY <1>1 DEF Visit, RoundType, Deletable, InUse
<1>3. taken => c \in Candidates /\ c.path = f /\ c.size = Size[f]
  BY <1>1 DEF Candidate, Candidates
<1>4. round' \in RoundType
  <2>1. round'.candidates \subseteq Candidates
    BY <1>1, <1>2, <1>3 DEF RoundType
  <2>2. round' = [round EXCEPT !.unseen = round'.unseen, !.scanned = round'.scanned,
                               !.candidates = round'.candidates]
    BY <1>1 DEF Visit, RoundType
  <2>3. QED  BY <1>1, <1>2, <2>1, <2>2 DEF RoundType
<1>5. /\ round.left = {} /\ round.deleted = {} /\ ~round.failed
      /\ \A d \in round.candidates : d.path \notin round.unseen /\ active_files[d.path] = 0
      /\ IsFiniteSet(Bytes(round.candidates))
      /\ Cardinality(Bytes(round.candidates)) <= round.scanned
      /\ round.candidates \subseteq Candidates
  BY <1>1 DEF IInv, RoundInv, Scanning, RoundType
<1> HIDE DEF taken, c
<1>6. OnePerPath'
  <2>1. \A d \in round.candidates : d.path # f
    BY <1>1, <1>5
  <2>2. QED  BY <1>2, <1>3, <2>1 DEF IInv, RoundInv, OnePerPath
<1>7. \A d \in round'.candidates : active_files'[d.path] = 0 /\ d.path \notin round'.unseen
  BY <1>1, <1>2, <1>3, <1>5 DEF taken
<1>8. IsFiniteSet(Bytes(round'.candidates)) /\ Cardinality(Bytes(round'.candidates)) <= round'.scanned
  <2>1. CASE ~taken
    <3>1. Cardinality(Bytes(round.candidates)) \in Nat
      BY <1>5, FS_CardinalityType
    <3>2. QED  BY <1>2, <1>5, <2>1, <3>1
  <2>2. CASE taken
    <3>1. c \notin round.candidates
      BY <1>1, <1>3, <1>5, <2>2
    <3>2. /\ IsFiniteSet(Bytes(round.candidates \cup {c}))
          /\ Cardinality(Bytes(round.candidates \cup {c}))
               = Cardinality(Bytes(round.candidates)) + Size[f]
      BY <1>3, <1>5, <2>2, <3>1, BytesAdded
    <3>3. Cardinality(Bytes(round.candidates)) \in Nat
      BY <1>5, FS_CardinalityType
    <3>4. QED  BY <1>1, <1>2, <1>5, <2>2, <3>2, <3>3
  <2>3. QED  BY <2>1, <2>2
<1>9. Scanning'
  BY <1>2, <1>5, <1>7, <1>8 DEF Scanning
<1>10. Deleting' /\ OldestFirst' /\ round'.phase # "idle"
  BY <1>2, <1>5 DEF Deleting, OldestFirst
<1>11. QED  BY <1>4, <1>6, <1>7, <1>9, <1>10 DEF RoundInv

LEMMA EndScanKeeps ==
  ASSUME IInv, EndScan
  PROVE  RoundInv' /\ round' \in RoundType
<1>1. round \in RoundType /\ round.phase = "scan" /\ active_files' = active_files
  BY DEF IInv, Types, EndScan
<1>2. /\ round.left = {} /\ round.deleted = {}
      /\ IsFiniteSet(Bytes(round.candidates))
      /\ Cardinality(Bytes(round.candidates)) <= round.scanned
  BY <1>1 DEF IInv, RoundInv, Scanning
<1>3. /\ round'.phase = "delete" /\ round'.candidates = round.candidates
      /\ round'.left = round.candidates /\ round'.deleted = {}
      /\ round'.remaining = round.scanned
  BY <1>1, <1>2 DEF EndScan, RoundType
<1>4. round' \in RoundType
  <2>1. round' = [round EXCEPT !.phase = "delete", !.threshold = round'.threshold,
                               !.left = round.candidates, !.remaining = round.scanned]
    BY <1>1 DEF EndScan, RoundType
  <2>2. round'.threshold \in BOOLEAN
    BY <1>1 DEF EndScan, RoundType
  <2>3. QED  BY <1>1, <2>1, <2>2 DEF RoundType
<1>5. Scanning' /\ OldestFirst' /\ OnePerPath'
  BY <1>3 DEF Scanning, OldestFirst, OnePerPath, IInv, RoundInv
<1>6. Deleting'
  BY <1>2, <1>3 DEF Deleting, Skipped
<1>7. \A d \in round'.candidates : active_files'[d.path] = 0
  BY <1>1, <1>3 DEF IInv, RoundInv
<1>8. QED  BY <1>3, <1>5, <1>6, <1>7, <1>4 DEF RoundInv

(* What holds when the next candidate is looked at. *)
LEMMA AtCandidate ==
  ASSUME IInv, NEW c \in round.left, NextCandidate(c)
  PROVE  /\ round \in RoundType /\ round.phase = "delete" /\ ~round.failed
         /\ active_files' = active_files
         /\ \A d \in round.left : c.access_time <= d.access_time
         /\ c \in Candidates /\ c \in round.candidates /\ c \notin round.deleted
         /\ active_files[c.path] = 0 /\ ~InUse(c.path)
         /\ c.size \in Nat /\ round.remaining \in Nat
         /\ IsFiniteSet(Bytes(round.left \ {c}))
         /\ Cardinality(Bytes(round.left \ {c})) \in Nat
         /\ Cardinality(Bytes(round.left \ {c})) + c.size <= round.remaining
<1>1. /\ round \in RoundType /\ round.phase = "delete" /\ ~round.failed
      /\ active_files' = active_files
      /\ \A d \in round.left : c.access_time <= d.access_time
  BY DEF IInv, Types, NextCandidate, NextInOrder
<1>2. /\ round.left \subseteq Candidates /\ c \in Candidates
      /\ c.size \in Nat /\ round.remaining \in Nat
  BY <1>1 DEF RoundType, Candidates
<1>3. /\ c \in round.candidates /\ c \notin round.deleted
      /\ IsFiniteSet(Bytes(round.left))
      /\ Cardinality(Bytes(round.left)) <= round.remaining
  BY <1>1 DEF IInv, RoundInv, Deleting
<1>4. active_files[c.path] = 0 /\ ~InUse(c.path)
  BY <1>3 DEF IInv, RoundInv, InUse
<1>5. /\ IsFiniteSet(Bytes(round.left \ {c}))
      /\ Cardinality(Bytes(round.left \ {c})) + c.size = Cardinality(Bytes(round.left))
      /\ Cardinality(Bytes(round.left \ {c})) \in Nat
  BY <1>2, <1>3, BytesRemoved
<1>6. QED  BY <1>1, <1>2, <1>3, <1>4, <1>5

LEMMA SkipKeeps ==
  ASSUME IInv, NEW c \in round.left, NextCandidate(c), Skip(c)
  PROVE  RoundInv' /\ round' \in RoundType
<1>1. /\ round \in RoundType /\ round.phase = "delete"
      /\ active_files' = active_files
      /\ \A d \in round.left : c.access_time <= d.access_time
      /\ c \in round.candidates /\ c \notin round.deleted
      /\ ~InUse(c.path) /\ c.size \in Nat /\ round.remaining \in Nat
      /\ IsFiniteSet(Bytes(round.left \ {c}))
      /\ Cardinality(Bytes(round.left \ {c})) \in Nat
      /\ Cardinality(Bytes(round.left \ {c})) + c.size <= round.remaining
  BY AtCandidate
<1>2. ~MustReduce(round) /\ ~Expired(c) /\ round' = [round EXCEPT !.left = @ \ {c}]
  BY <1>1 DEF Skip
<1>3. /\ round'.phase = "delete" /\ round'.candidates = round.candidates
      /\ round'.left = round.left \ {c} /\ round'.deleted = round.deleted
      /\ round'.threshold = round.threshold /\ round'.remaining = round.remaining
      /\ round' \in RoundType
  BY <1>1, <1>2 DEF RoundType
<1>4. Skipped' = Skipped \cup {c} /\ ~MustReduce(round')
  BY <1>1, <1>2, <1>3 DEF Skipped, MustReduce
<1>5. Cardinality(Bytes(round.left \ {c})) <= round.remaining
  BY <1>1
<1>6. Deleting'
  <2>1. /\ round'.left \subseteq round'.candidates /\ round'.deleted \subseteq round'.candidates
        /\ round'.left \cap round'.deleted = {}
        /\ IsFiniteSet(Bytes(round'.left))
        /\ Cardinality(Bytes(round'.left)) <= round'.remaining
    BY <1>1, <1>3, <1>5 DEF IInv, RoundInv, Deleting
  <2>2. /\ \A x \in Skipped' : ~Expired(x) /\ ~MustReduce(round')
        /\ \A x \in Skipped', d \in round'.left : x.access_time <= d.access_time
    BY <1>1, <1>2, <1>3, <1>4 DEF IInv, RoundInv, Deleting
  <2>3. /\ \A x \in round'.deleted : Expired(x) \/ round'.threshold
        /\ \/ round'.deleted = {}
           \/ \E x \in round'.deleted :
                /\ \A d \in round'.deleted : d.access_time <= x.access_time
                /\ Expired(x) \/ round'.remaining + x.size > Target
    BY <1>1, <1>3 DEF IInv, RoundInv, Deleting
  <2>4. QED  BY <2>1, <2>2, <2>3 DEF Deleting, Expired
<1>7. Scanning' /\ OldestFirst' /\ OnePerPath'
  BY <1>3 DEF Scanning, OldestFirst, OnePerPath, IInv, RoundInv
<1>8. \A d \in round'.candidates : active_files'[d.path] = 0
  BY <1>1, <1>3 DEF IInv, RoundInv
<1>9. QED  BY <1>3, <1>6, <1>7, <1>8 DEF RoundInv

(* A file is deleted only while none has been passed over.  *)
LEMMA DeleteKeeps ==
  ASSUME IInv, NEW c \in round.left, NextCandidate(c), Delete(c)
  PROVE  RoundInv' /\ round' \in RoundType
<1>1. /\ round \in RoundType /\ round.phase = "delete"
      /\ active_files' = active_files
      /\ \A d \in round.left : c.access_time <= d.access_time
      /\ c \in Candidates /\ c \in round.candidates /\ c \notin round.deleted
      /\ c.size \in Nat /\ round.remaining \in Nat
      /\ IsFiniteSet(Bytes(round.left \ {c}))
      /\ Cardinality(Bytes(round.left \ {c})) \in Nat
      /\ Cardinality(Bytes(round.left \ {c})) + c.size <= round.remaining
  BY AtCandidate
<1>2. MustReduce(round) \/ Expired(c)
  BY DEF Delete
<1>3. CASE round' = [round EXCEPT !.failed = TRUE]
  <2>1. /\ round'.phase = "delete" /\ round'.candidates = round.candidates
        /\ round'.left = round.left /\ round'.deleted = round.deleted
        /\ round'.threshold = round.threshold /\ round'.remaining = round.remaining
        /\ round' \in RoundType
    BY <1>1, <1>3 DEF RoundType
  <2>2. Deleting'
    BY <1>1, <2>1 DEF IInv, RoundInv, Deleting, Skipped, MustReduce, Expired
  <2>3. Scanning' /\ OldestFirst' /\ OnePerPath'
    BY <2>1 DEF Scanning, OldestFirst, OnePerPath, IInv, RoundInv
  <2>4. \A d \in round'.candidates : active_files'[d.path] = 0
    BY <1>1, <2>1 DEF IInv, RoundInv
  <2>5. QED  BY <2>1, <2>2, <2>3, <2>4 DEF RoundInv
<1>4. CASE round' = [round EXCEPT !.left = @ \ {c}, !.deleted = @ \cup {c},
                                  !.remaining = @ - c.size]
  <2>1. /\ round.remaining - c.size \in Nat
        /\ Cardinality(Bytes(round.left \ {c})) <= round.remaining - c.size
    BY <1>1
  <2>2. /\ round'.phase = "delete" /\ round'.candidates = round.candidates
        /\ round'.left = round.left \ {c} /\ round'.deleted = round.deleted \cup {c}
        /\ round'.threshold = round.threshold
        /\ round'.remaining = round.remaining - c.size
        /\ round' \in RoundType
    BY <1>1, <1>4, <2>1 DEF RoundType
  <2>3. Skipped = {}
    <3> SUFFICES ASSUME NEW x \in Skipped PROVE FALSE
      OBVIOUS
    <3>1. ~Expired(x) /\ ~MustReduce(round) /\ x.access_time <= c.access_time
      BY <1>1 DEF IInv, RoundInv, Deleting
    <3>2. x.access_time \in Nat /\ c.access_time \in Nat /\ Now \in Nat /\ Ttl \in Nat
      BY <1>1, ConfigAssumption DEF Skipped, RoundType, Candidates
    <3>3. ~Expired(c)
      BY <3>1, <3>2 DEF Expired
    <3>4. QED  BY <1>2, <3>1, <3>3
  <2>4. Skipped' = {}
    BY <1>1, <2>2, <2>3 DEF Skipped
  <2>5. \A d \in round.deleted : d.access_time <= c.access_time
    BY <1>1 DEF IInv, RoundInv, OldestFirst
  <2>6. OldestFirst'
    <3>1. \A x \in round'.candidates \ round'.deleted : x \in round.left
      BY <2>2, <2>3 DEF Skipped
    <3>2. QED  BY <1>1, <2>2, <3>1 DEF IInv, RoundInv, OldestFirst
  <2>7. Deleting'
    <3>1. /\ round'.left \subseteq round'.candidates /\ round'.deleted \subseteq round'.candidates
          /\ round'.left \cap round'.deleted = {}
          /\ IsFiniteSet(Bytes(round'.left))
          /\ Cardinality(Bytes(round'.left)) <= round'.remaining
      BY <1>1, <2>1, <2>2 DEF IInv, RoundInv, Deleting
    <3>2. \A x \in round'.deleted : Expired(x) \/ round'.threshold
      BY <1>1, <1>2, <2>2 DEF IInv, RoundInv, Deleting, MustReduce
    <3>3. \E x \in round'.deleted :
            /\ \A d \in round'.deleted : d.access_time <= x.access_time
            /\ Expired(x) \/ round'.remaining + x.size > Target
      <4>1. \A d \in round'.deleted : d.access_time <= c.access_time
        BY <1>1, <2>2, <2>5
      <4>2. Expired(c) \/ round'.remaining + c.size > Target
        BY <1>1, <1>2, <2>2, ConfigAssumption DEF MustReduce
      <4>3. QED  BY <2>2, <4>1, <4>2
    <3>4. QED  BY <2>4, <3>1, <3>2, <3>3 DEF Deleting, Expired
  <2>8. Scanning' /\ OnePerPath'
    BY <2>2 DEF Scanning, OnePerPath, IInv, RoundInv
  <2>9. \A d \in round'.candidates : active_files'[d.path] = 0
    BY <1>1, <2>2 DEF IInv, RoundInv
  <2>10. QED  BY <2>2, <2>6, <2>7, <2>8, <2>9 DEF RoundInv
<1>5. QED  BY <1>3, <1>4 DEF Delete

-------------------------------------------------------------------------------
(* The inductive invariant. *)
LEMMA InitInv == Init => IInv
<1> SUFFICES ASSUME Init PROVE IInv
  OBVIOUS
<1>1. Types
  BY InitTypes
<1>2. \A s \in Streams : calls[s] = <<>> /\ local_path[s] = NoPath
  BY DEF Init
<1>3. CallShape
  BY <1>2, ConfigAssumption DEF CallShape, Alternates, EndsAt
<1>4. CountsKept
  <2>1. ASSUME NEW f \in Media PROVE Counted(f) = {}
    BY <1>2, Distinct DEF Counted, CountedFor
  <2>2. \A f \in Files : active_files[f] = 0
    BY DEF Init
  <2>3. QED  BY <2>1, <2>2, Distinct, FS_EmptySet DEF CountsKept
<1>5. RoundInv
  BY DEF Init, NoRound, RoundInv, OnePerPath, Scanning, Deleting, OldestFirst
<1>6. QED  BY <1>1, <1>3, <1>4, <1>5 DEF IInv

(* The steps of the streams and the calls the manager takes. *)
LEMMA StreamKeeps ==
  ASSUME IInv, NEW s \in Streams,
         \/ \E f \in Media \cup Outside : SwitchPath(s, f)
         \/ tear_down(s) \/ retain_file(s) \/ release_file(s)
  PROVE  IInv'
<1>1. HoldInv /\ RoundInv
  BY DEF IInv, HoldInv
<1>2. HoldInv'
  BY <1>1, SwitchPathHolds, TearDownHolds, RetainHolds, ReleaseHolds DEF Paths
<1>3. RoundInv'
  <2>1. CASE UNCHANGED <<round, active_files>>
    BY <1>1, <2>1, RoundUnchanged
  <2>2. CASE round.phase = "idle" /\ UNCHANGED round
    BY <1>1, <2>2, NoRoundInv DEF RoundInv
  <2>3. QED  BY <2>1, <2>2 DEF SwitchPath, tear_down, retain_file, release_file, TakeCall
<1>4. QED  BY <1>2, <1>3 DEF IInv, HoldInv

(* The steps of a round and of TDLib. *)
LEMMA OthersKeep ==
  ASSUME IInv, UNCHANGED <<streamVars, active_files>>,
         disk' \subseteq Files, atime' \in [Files -> 0..Now], emergency' \in BOOLEAN,
         round' \in RoundType, RoundInv'
  PROVE  IInv'
<1>1. CallShape' /\ CountsKept'
  BY HoldsUnchanged DEF IInv
<1>2. Types'
  BY DEF IInv, Types, streamVars
<1>3. QED  BY <1>1, <1>2 DEF IInv

LEMMA NextInv == IInv /\ [Next]_vars => IInv'
<1> SUFFICES ASSUME IInv, [Next]_vars PROVE IInv'
  OBVIOUS
<1>1. /\ disk \subseteq Files /\ atime \in [Files -> 0..Now] /\ emergency \in BOOLEAN
      /\ round \in RoundType /\ RoundInv
  BY DEF IInv, Types
<1>2. ASSUME NEW s \in Streams,
             \/ \E f \in Media \cup Outside : SwitchPath(s, f)
             \/ tear_down(s) \/ retain_file(s) \/ release_file(s)
      PROVE  IInv'
  BY <1>2, StreamKeeps
<1>3. CASE StartRound
  <2>1. UNCHANGED <<disk, atime, streamVars, active_files, emergency>>
    BY <1>3 DEF StartRound
  <2>2. QED  BY <1>1, <1>3, <2>1, StartRoundKeeps, OthersKeep
<1>4. CASE EndScan
  <2>1. UNCHANGED <<disk, atime, streamVars, active_files, emergency>>
    BY <1>4 DEF EndScan
  <2>2. QED  BY <1>1, <1>4, <2>1, EndScanKeeps, OthersKeep
<1>5. CASE EndRound
  <2>1. UNCHANGED <<disk, atime, streamVars, active_files>> /\ emergency' \in BOOLEAN
    BY <1>1, <1>5 DEF EndRound
  <2>2. round' = NoRound
    BY <1>5 DEF EndRound
  <2>3. round' \in RoundType
    BY <2>2 DEF NoRound, RoundType
  <2>4. QED  BY <1>1, <2>1, <2>2, <2>3, NoRoundInv, OthersKeep
<1>6. ASSUME NEW f \in Workdir, Visit(f) PROVE IInv'
  <2>1. UNCHANGED <<disk, atime, streamVars, active_files, emergency>>
    BY <1>6 DEF Visit
  <2>2. QED  BY <1>1, <1>6, <2>1, VisitKeeps, OthersKeep
<1>7. ASSUME NEW c \in round.left, NextCandidate(c) PROVE IInv'
  <2>1. UNCHANGED <<streamVars, active_files, emergency>>
    BY <1>7 DEF NextCandidate
  <2>2. disk' \subseteq Files /\ atime' \in [Files -> 0..Now]
    BY <1>1, <1>7, ConfigAssumption DEF NextCandidate, Skip, Delete
  <2>3. RoundInv' /\ round' \in RoundType
    BY <1>7, SkipKeeps, DeleteKeeps DEF NextCandidate
  <2>4. QED  BY <1>1, <2>1, <2>2, <2>3, OthersKeep
<1>8. ASSUME NEW f \in Deletable, FileComes(f) \/ FileGoes(f) PROVE IInv'
  <2>1. UNCHANGED <<streamVars, active_files, round, emergency>>
    BY <1>8 DEF FileComes, FileGoes
  <2>2. disk' \subseteq Files /\ atime' \in [Files -> 0..Now]
    BY <1>1, <1>8, ConfigAssumption, Distinct DEF FileComes, FileGoes
  <2>3. QED  BY <1>1, <2>1, <2>2, RoundUnchanged, OthersKeep
<1>9. CASE UNCHANGED vars
  BY <1>1, <1>9, RoundUnchanged, OthersKeep DEF vars
<1>10. QED  BY <1>2, <1>3, <1>4, <1>5, <1>6, <1>7, <1>8, <1>9 DEF Next

LEMMA Invariance == Spec => []IInv
  BY InitInv, NextInv, PTL DEF Spec

-------------------------------------------------------------------------------
(* Every hold of a file by a stream begins with a place k >= 0 in its      *)
(* calls (0: the manager counts it already) and ends at the place after.   *)

Begins(f) == (Counted(f) \X {0}) \cup UnderWay("retain", f)
Ends(f) ==
  {p \in Streams \X (1..(MaxCalls + 3)) :
     \/ p \in UnderWay("release", f)
     \/ p[2] = Len(calls[p[1]]) + 1 /\ p[1] \in Holders(f)}

LEMMA SameHold ==
  ASSUME NEW q \in Seq(Calls), NEW path, NEW f \in Paths, NEW k \in 0..Len(q),
         Alternates(q), EndsAt(q, path)
  PROVE  (IF k = 0 THEN CountedFor(q, path) = f ELSE q[k] = Call("retain", f))
           <=> (IF k = Len(q) THEN path = f ELSE q[k + 1] = Call("release", f))
<1>1. /\ Len(q) \in Nat /\ (q = <<>> <=> Len(q) = 0)
      /\ \A i \in 1..Len(q) : q[i] \in Calls
  BY EmptySeq, ElementOfSeq
<1>2. \A e \in Calls, op \in {"retain", "release"} :
        e = Call(op, f) <=> e.op = op /\ e.path = f
  BY DEF Calls, Call
<1>3. CASE k = 0
  <2>1. CASE q = <<>>
    BY <1>1, <1>3, <2>1 DEF CountedFor
  <2>2. CASE q # <<>>
    <3>1. q[1] \in Calls /\ k # Len(q) /\ k + 1 = 1
      BY <1>1, <1>3, <2>2
    <3>2. QED  BY <1>2, <1>3, <2>2, <3>1, Distinct DEF CountedFor
  <2>3. QED  BY <2>1, <2>2
<1>4. CASE k # 0 /\ k = Len(q)
  <2>1. q # <<>> /\ q[Len(q)] \in Calls
    BY <1>1, <1>4
  <2>2. IF q[Len(q)].op = "retain" THEN path = q[Len(q)].path ELSE path = Ended
    BY <2>1 DEF EndsAt
  <2>3. QED  BY <1>2, <1>4, <2>1, <2>2, Distinct
<1>5. CASE k # 0 /\ k # Len(q)
  <2>1. k \in 1..(Len(q) - 1) /\ q[k] \in Calls /\ q[k + 1] \in Calls
    BY <1>1, <1>5
  <2>2. IF q[k].op = "retain" THEN q[k + 1] = Call("release", q[k].path)
        ELSE q[k + 1].op = "retain"
    BY <2>1 DEF Alternates
  <2>3. q[k].path \in Paths /\ q[k].op \in {"retain", "release"}
    BY <2>1 DEF Calls
  <2>4. QED  BY <1>2, <1>5, <2>1, <2>2, <2>3 DEF Call
<1>6. QED  BY <1>3, <1>4, <1>5

LEMMA HoldsMatch ==
  ASSUME HoldInv, NEW f \in Media
  PROVE  /\ \A p \in Begins(f) : <<p[1], p[2] + 1>> \in Ends(f)
         /\ \A r \in Ends(f) : <<r[1], r[2] - 1>> \in Begins(f)
<1>1. ASSUME NEW s \in Streams
      PROVE  /\ calls[s] \in Seq(Calls) /\ Len(calls[s]) \in Nat
             /\ Len(calls[s]) <= MaxCalls + 2 /\ MaxCalls \in Nat
             /\ \A k \in 0..Len(calls[s]) :
                  (IF k = 0 THEN s \in Counted(f) ELSE calls[s][k] = Call("retain", f))
                  <=> (IF k = Len(calls[s]) THEN s \in Holders(f)
                       ELSE calls[s][k + 1] = Call("release", f))
  <2>1. /\ calls[s] \in Seq(Calls) /\ Len(calls[s]) \in Nat
        /\ Len(calls[s]) <= MaxCalls + 2 /\ MaxCalls \in Nat
        /\ Alternates(calls[s]) /\ EndsAt(calls[s], local_path[s])
    BY ConfigAssumption DEF HoldInv, Types, CallShape
  <2>2. f \in Paths
    BY Distinct
  <2>3. /\ s \in Counted(f) <=> CountedFor(calls[s], local_path[s]) = f
        /\ s \in Holders(f) <=> local_path[s] = f
    BY DEF Counted, Holders
  <2>4. ASSUME NEW k \in 0..Len(calls[s])
        PROVE  (IF k = 0 THEN CountedFor(calls[s], local_path[s]) = f
                ELSE calls[s][k] = Call("retain", f))
               <=> (IF k = Len(calls[s]) THEN local_path[s] = f
                    ELSE calls[s][k + 1] = Call("release", f))
    BY <2>1, <2>2, SameHold
  <2>5. QED  BY <2>1, <2>3, <2>4
<1>2. ASSUME NEW p \in Begins(f) PROVE <<p[1], p[2] + 1>> \in Ends(f)
  <2>1. PICK s \in Streams, k \in Nat :
          /\ p = <<s, k>> /\ k \in 0..Len(calls[s])
          /\ IF k = 0 THEN s \in Counted(f) ELSE calls[s][k] = Call("retain", f)
    <3>1. CASE p \in Counted(f) \X {0}
      <4>1. p[1] \in Streams /\ p[1] \in Counted(f) /\ p = <<p[1], 0>>
        BY <3>1 DEF Counted
      <4>2. 0 \in 0..Len(calls[p[1]])
        BY <1>1, <4>1
      <4>3. QED  BY <4>1, <4>2
    <3>2. CASE p \in UnderWay("retain", f)
      <4>1. /\ p[1] \in Streams /\ p[2] \in 1..(MaxCalls + 2) /\ p = <<p[1], p[2]>>
            /\ p[2] <= Len(calls[p[1]]) /\ calls[p[1]][p[2]] = Call("retain", f)
        BY <3>2 DEF UnderWay
      <4>2. p[2] \in 0..Len(calls[p[1]]) /\ p[2] # 0
        BY <1>1, <4>1
      <4>3. QED  BY <4>1, <4>2
    <3>3. QED  BY <3>1, <3>2 DEF Begins
  <2>2. /\ IF k = Len(calls[s]) THEN s \in Holders(f) ELSE calls[s][k + 1] = Call("release", f)
        /\ k + 1 \in 1..(MaxCalls + 3) /\ (k # Len(calls[s]) => k + 1 \in 1..(MaxCalls + 2))
        /\ (k # Len(calls[s]) => k + 1 <= Len(calls[s]))
    BY <1>1, <2>1
  <2>3. QED  BY <2>1, <2>2 DEF Ends, UnderWay
<1>3. ASSUME NEW r \in Ends(f) PROVE <<r[1], r[2] - 1>> \in Begins(f)
  <2>1. PICK s \in Streams, k \in Nat :
          /\ r = <<s, k + 1>> /\ k \in 0..Len(calls[s])
          /\ IF k = Len(calls[s]) THEN s \in Holders(f) ELSE calls[s][k + 1] = Call("release", f)
    <3>1. r[1] \in Streams /\ r[2] \in 1..(MaxCalls + 3) /\ r = <<r[1], r[2]>>
      BY DEF Ends
    <3>2. \/ r[2] = Len(calls[r[1]]) + 1 /\ r[1] \in Holders(f)
          \/ r[2] <= Len(calls[r[1]]) /\ calls[r[1]][r[2]] = Call("release", f)
      BY DEF Ends, UnderWay
    <3>3. /\ r[2] - 1 \in 0..Len(calls[r[1]]) /\ (r[2] - 1) + 1 = r[2]
          /\ r = <<r[1], (r[2] - 1) + 1>>
      BY <1>1, <3>1, <3>2
    <3>4. IF r[2] - 1 = Len(calls[r[1]]) THEN r[1] \in Holders(f)
          ELSE calls[r[1]][(r[2] - 1) + 1] = Call("release", f)
      BY <1>1, <3>1, <3>2, <3>3
    <3>5. QED  BY <3>1, <3>3, <3>4
  <2>2. /\ IF k = 0 THEN s \in Counted(f) ELSE calls[s][k] = Call("retain", f)
        /\ k # 0 => k \in 1..(MaxCalls + 2) /\ k <= Len(calls[s])
        /\ r[1] = s /\ r[2] - 1 = k
    BY <1>1, <2>1
  <2>3. <<s, k>> \in Begins(f)
    BY <2>2 DEF Begins, UnderWay
  <2>4. QED  BY <2>2, <2>3
<1>4. QED  BY <1>2, <1>3

LEMMA UnderWayFinite ==
  ASSUME NEW op, NEW f
  PROVE  IsFiniteSet(UnderWay(op, f)) /\ Cardinality(UnderWay(op, f)) \in Nat
<1>1. IsFiniteSet(1..(MaxCalls + 2))
  BY ConfigAssumption, IntervalSize
<1>2. IsFiniteSet(Streams \X (1..(MaxCalls + 2)))
  BY <1>1, FilesAssumption, FS_Product
<1>3. UnderWay(op, f) \subseteq Streams \X (1..(MaxCalls + 2))
  BY DEF UnderWay
<1>4. QED  BY <1>2, <1>3, FS_Subset, FS_CardinalityType

LEMMA HoldersFinite ==
  ASSUME NEW f
  PROVE  IsFiniteSet(Holders(f)) /\ Cardinality(Holders(f)) \in Nat
<1>1. Holders(f) \subseteq Streams
  BY DEF Holders
<1>2. QED  BY <1>1, FilesAssumption, FS_Subset, FS_CardinalityType

LEMMA BeginsSize ==
  ASSUME NEW f
  PROVE  /\ IsFiniteSet(Begins(f))
         /\ Cardinality(Begins(f)) = Cardinality(Counted(f)) + Cardinality(UnderWay("retain", f))
<1> DEFINE C == Counted(f) \X {0}
           U == UnderWay("retain", f)
<1>1. IsFiniteSet(C) /\ Cardinality(C) = Cardinality(Counted(f)) /\ Cardinality(C) \in Nat
  <2>1. IsFiniteSet({0}) /\ Cardinality({0}) = 1
    BY FS_Singleton
  <2>2. IsFiniteSet(C) /\ Cardinality(C) = Cardinality(Counted(f)) * Cardinality({0})
    BY <2>1, CountedFinite, FS_Product
  <2>3. QED  BY <2>1, <2>2, CountedFinite
<1>2. IsFiniteSet(U) /\ Cardinality(U) \in Nat
  BY UnderWayFinite
<1>3. C \cap U = {}
  BY ConfigAssumption DEF UnderWay
<1>4. Begins(f) = C \cup U
  BY DEF Begins
<1> HIDE DEF C, U
<1>5. Cardinality(C \cap U) = 0
  BY <1>3, FS_EmptySet
<1>6. /\ IsFiniteSet(C \cup U)
      /\ Cardinality(C \cup U) = Cardinality(C) + Cardinality(U) - Cardinality(C \cap U)
  BY <1>1, <1>2, FS_Union
<1>7. QED  BY <1>1, <1>2, <1>4, <1>5, <1>6 DEF U

LEMMA EndsSize ==
  ASSUME HoldInv, NEW f
  PROVE  /\ IsFiniteSet(Ends(f))
         /\ Cardinality(Ends(f)) = Cardinality(UnderWay("release", f)) + Cardinality(Holders(f))
<1> DEFINE U == UnderWay("release", f)
           H == {p \in Streams \X (1..(MaxCalls + 3)) :
                   p[2] = Len(calls[p[1]]) + 1 /\ p[1] \in Holders(f)}
           last == [s \in Holders(f) |-> <<s, Len(calls[s]) + 1>>]
<1>1. \A s \in Streams : Len(calls[s]) \in Nat /\ Len(calls[s]) + 1 \in 1..(MaxCalls + 3)
  BY ConfigAssumption DEF HoldInv, Types, CallShape
<1>2. /\ last \in [Holders(f) -> H]
      /\ \A a, b \in Holders(f) : last[a] = last[b] => a = b
      /\ \A p \in H : \E s \in Holders(f) : last[s] = p
  <2>1. last \in [Holders(f) -> H]
    BY <1>1 DEF Holders
  <2>2. \A a, b \in Holders(f) : last[a] = last[b] => a = b
    OBVIOUS
  <2>3. ASSUME NEW p \in H PROVE p[1] \in Holders(f) /\ last[p[1]] = p
    OBVIOUS
  <2>4. QED  BY <2>1, <2>2, <2>3
<1>3. U \cap H = {}
  BY <1>1 DEF UnderWay
<1>4. Ends(f) = U \cup H
  BY ConfigAssumption DEF Ends, UnderWay
<1> HIDE DEF U, H, last
<1>5. IsFiniteSet(H) /\ Cardinality(H) = Cardinality(Holders(f)) /\ Cardinality(H) \in Nat
  <2>1. ExistsBijection(Holders(f), H)
    BY <1>2, Fun_IsBij, Fun_ExistsBij
  <2>2. IsFiniteSet(H) /\ Cardinality(H) = Cardinality(Holders(f))
    BY <2>1, HoldersFinite, FS_Bijection
  <2>3. QED  BY <2>2, HoldersFinite
<1>6. IsFiniteSet(U) /\ Cardinality(U) \in Nat
  BY UnderWayFinite DEF U
<1>7. Cardinality(U \cap H) = 0
  BY <1>3, FS_EmptySet
<1>8. /\ IsFiniteSet(U \cup H)
      /\ Cardinality(U \cup H) = Cardinality(U) + Cardinality(H) - Cardinality(U \cap H)
  BY <1>5, <1>6, FS_Union
<1>9. QED  BY <1>4, <1>5, <1>6, <1>7, <1>8 DEF U

LEMMA AsManyEnd ==
  ASSUME HoldInv, NEW f \in Media
  PROVE  Cardinality(Ends(f)) = Cardinality(Begins(f))
<1> DEFINE after == [p \in Begins(f) |-> <<p[1], p[2] + 1>>]
<1>1. /\ \A p \in Begins(f) : <<p[1], p[2] + 1>> \in Ends(f)
      /\ \A r \in Ends(f) : <<r[1], r[2] - 1>> \in Begins(f)
  BY HoldsMatch
<1>2. \A p \in Begins(f) : p = <<p[1], p[2]>> /\ p[2] \in Int
  BY ConfigAssumption DEF Begins, UnderWay
<1>3. \A r \in Ends(f) : r = <<r[1], r[2]>> /\ r[2] \in Int
  BY ConfigAssumption DEF Ends
<1>4. after \in [Begins(f) -> Ends(f)]
  BY <1>1
<1>5. \A a, b \in Begins(f) : after[a] = after[b] => a = b
  BY <1>2
<1>6. ASSUME NEW r \in Ends(f) PROVE \E p \in Begins(f) : after[p] = r
  <2>1. <<r[1], r[2] - 1>> \in Begins(f) /\ (r[2] - 1) + 1 = r[2]
    BY <1>1, <1>3
  <2>2. after[<<r[1], r[2] - 1>>] = r
    BY <1>3, <2>1
  <2>3. QED  BY <2>1, <2>2
<1> HIDE DEF after
<1>7. ExistsBijection(Begins(f), Ends(f))
  BY <1>4, <1>5, <1>6, Fun_IsBij, Fun_ExistsBij
<1>8. QED  BY <1>7, BeginsSize, FS_Bijection

LEMMA HoldsAreExact == IInv => HoldsExact
<1> SUFFICES ASSUME IInv PROVE HoldsExact
  OBVIOUS
<1>1. HoldInv /\ CountsKept
  BY DEF IInv, HoldInv
<1>2. ASSUME NEW f \in Media
      PROVE  active_files[f] + Cardinality(UnderWay("retain", f))
               = Cardinality(Holders(f)) + Cardinality(UnderWay("release", f))
  <2>1. active_files[f] = Cardinality(Counted(f))
    BY <1>1 DEF CountsKept
  <2>2. Cardinality(Counted(f)) + Cardinality(UnderWay("retain", f))
          = Cardinality(UnderWay("release", f)) + Cardinality(Holders(f))
    BY <1>1, BeginsSize, EndsSize, AsManyEnd
  <2>3. QED  BY <2>1, <2>2, UnderWayFinite, HoldersFinite
<1>3. QED  BY <1>1, <1>2 DEF HoldsExact, CountsKept

-------------------------------------------------------------------------------
LEMMA TypesOK == IInv => TypeOK
<1> SUFFICES ASSUME IInv PROVE TypeOK
  OBVIOUS
<1>1. round \in RoundType
  BY DEF IInv, Types
<1>2. round.left \subseteq round.candidates /\ round.deleted \subseteq round.candidates
  BY <1>1 DEF IInv, RoundInv, Scanning, Deleting, NoRound, RoundType
<1>3. /\ round.phase \in {"idle", "scan", "delete"} /\ round.unseen \subseteq Workdir
      /\ round.scanned \in Nat /\ round.remaining \in Nat
      /\ round.candidates \subseteq Candidates
      /\ round.threshold \in BOOLEAN /\ round.failed \in BOOLEAN
  BY <1>1 DEF RoundType
<1>4. QED  BY <1>2, <1>3 DEF IInv, Types, TypeOK, Calls, Paths

LEMMA RoundsAreExact == IInv => RoundExact
<1> SUFFICES ASSUME IInv, RoundOver, ~round.failed PROVE RoundExact
  BY DEF RoundExact
<1>1. round.phase = "delete" /\ round.left = {} /\ round \in RoundType
  BY DEF RoundOver, IInv, Types
<1>2. round.candidates \ round.deleted = Skipped
  BY <1>1 DEF Skipped
<1>3. Deleting /\ round.remaining \in Nat /\ Target \in Nat
  BY <1>1, ConfigAssumption DEF IInv, RoundInv, RoundType
<1>4. \A c \in Skipped : ~Expired(c) /\ (round.threshold => round.remaining <= Target)
  BY <1>1, <1>3 DEF Deleting, MustReduce
<1>5. QED  BY <1>1, <1>2, <1>3, <1>4 DEF Deleting, RoundExact

(* A file that is deleted has no count, so the manager counts no stream    *)
(* for it, and the last call of a stream that holds it is its retain.      *)
LEMMA UnusedOnly ==
  ASSUME IInv, [Next]_vars, NEW c \in round'.deleted \ round.deleted
  PROVE  \A s \in Holders(c.path) :
           \E k \in 1..Len(calls[s]) : calls[s][k] = Call("retain", c.path)
<1>1. /\ c \in Candidates /\ active_files[c.path] = 0
  <2>1. round \in RoundType
    BY DEF IInv, Types
  <2>2. PICK d \in round.left : NextCandidate(d)
    <3>1. round'.deleted # round.deleted
      OBVIOUS
    <3>2. UNCHANGED round \/ StartRound \/ EndScan \/ EndRound \/ (\E f \in Workdir : Visit(f))
            \/ \E d \in round.left : NextCandidate(d)
      BY DEF Next, vars, SwitchPath, tear_down, retain_file, release_file, TakeCall,
             FileComes, FileGoes
    <3>3. StartRound \/ EndRound => round'.deleted = {}
      <4>1. StartRound => round'.deleted = {}
        BY DEF StartRound, NoRound
      <4>2. EndRound => round'.deleted = {}
        BY DEF EndRound, NoRound
      <4>3. QED  BY <4>1, <4>2
    <3>4. EndScan \/ (\E f \in Workdir : Visit(f)) => round'.deleted = round.deleted
      BY <2>1 DEF EndScan, Visit, RoundType
    <3>5. QED  BY <3>1, <3>2, <3>3, <3>4
  <2>3. /\ d \in Candidates /\ active_files[d.path] = 0
    BY <2>2, AtCandidate
  <2>4. c = d
    <3>1. \/ round' = [round EXCEPT !.left = @ \ {d}]
          \/ round' = [round EXCEPT !.left = @ \ {d}, !.deleted = @ \cup {d},
                                    !.remaining = @ - d.size]
          \/ round' = [round EXCEPT !.failed = TRUE]
      BY <2>2 DEF NextCandidate, Skip, Delete
    <3>2. round'.deleted \subseteq round.deleted \cup {d}
      BY <2>1, <3>1 DEF RoundType
    <3>3. QED  BY <3>2
  <2>5. QED  BY <2>3, <2>4
<1>2. ASSUME NEW s \in Holders(c.path)
      PROVE  \E k \in 1..Len(calls[s]) : calls[s][k] = Call("retain", c.path)
  <2>1. /\ s \in Streams /\ local_path[s] = c.path /\ calls[s] \in Seq(Calls)
        /\ EndsAt(calls[s], c.path)
    BY DEF Holders, IInv, Types, CallShape
  <2>2. c.path \in Media
    <3>1. c.path \in Deletable /\ local_path[s] \in Paths \cup {NoPath, Ended}
      BY <1>1, <2>1 DEF Candidates, IInv, Types
    <3>2. QED  BY <2>1, <3>1, FilesAssumption, Distinct
  <2>3. Counted(c.path) = {}
    <3>1. Cardinality(Counted(c.path)) = 0
      BY <1>1, <2>2 DEF IInv, CountsKept
    <3>2. QED  BY <3>1, CountedFinite, FS_EmptySet
  <2>4. calls[s] # <<>>
    BY <2>1, <2>3 DEF Counted, CountedFor
  <2>5. Len(calls[s]) \in 1..Len(calls[s]) /\ calls[s][Len(calls[s])] \in Calls
    BY <2>1, <2>4, EmptySeq, ElementOfSeq
  <2>6. calls[s][Len(calls[s])].op = "retain" /\ calls[s][Len(calls[s])].path = c.path
    BY <2>1, <2>2, <2>4, Distinct DEF EndsAt
  <2>7. calls[s][Len(calls[s])] = Call("retain", c.path)
    BY <2>5, <2>6 DEF Calls, Call
  <2>8. QED  BY <2>5, <2>7
<1>3. QED  BY <1>2

-------------------------------------------------------------------------------
(* However often streams change paths and end, and whenever the manager    *)
(* takes their calls, active_files_ is exactly the streams that hold each  *)
(* file up to the calls under way (retain_file and release_file); and the  *)
(* bytes left in a round never drop below 0 (run_workdir_cleanup).         *)
THEOREM HoldsAlwaysExact == Spec => []Consistent
<1>1. IInv => Consistent
  BY TypesOK, HoldsAreExact DEF Consistent
<1>2. QED  BY <1>1, Invariance, PTL

(* At every point of a round the files deleted so far were used no later   *)
(* than any candidate that is left: the sort by access time, and no file   *)
(* passed over before one that is deleted (run_workdir_cleanup).           *)
THEOREM DeletesOldestFirst == Spec => []OldestFirst
<1>1. IInv => OldestFirst
  BY DEF IInv, RoundInv
<1>2. QED  BY <1>1, Invariance, PTL

(* A round without a failure deletes every expired file and just enough    *)
(* others, whatever streams and TDLib do meanwhile (run_workdir_cleanup).  *)
THEOREM RoundsAlwaysExact == Spec => []RoundExact
<1>1. QED  BY RoundsAreExact, Invariance, PTL

(* No round deletes a file that a stream holds, unless the retain_file of  *)
(* that stream is still on its way (run_workdir_cleanup, retain_file).     *)
THEOREM UsedFilesAlwaysKept == Spec => UsedFilesKept
<1>1. ASSUME IInv, [Next]_vars
      PROVE  [\A c \in round'.deleted \ round.deleted :
                \A s \in Holders(c.path) :
                  \E k \in 1..Len(calls[s]) : calls[s][k] = Call("retain", c.path)]_vars
  BY <1>1, UnusedOnly
<1>2. QED  BY <1>1, Invariance, PTL DEF Spec, UsedFilesKept

===============================================================================
