------------------------- MODULE UpdateDeliveryProofs -------------------------
(***************************************************************************)
(* Proofs about UpdateDelivery, for every number of updates, chats and     *)
(* connections, every set of delays and every length of the queue.         *)
(*                                                                         *)
(*  - The state of the sender of the webhook (HookOK): a loaded update is  *)
(*    in one chain, a chain waits or its first update is on a connection.  *)
(*  - Identifiers (ClassOK, Passed) and what the sender has loaded of the  *)
(*    queue (InStep).                                                      *)
(*  - A long poll ends on time (OnTime).                                   *)
(*  - Steady, which holds through every restart: the log can be replayed   *)
(*    and the sender has all its chains scheduled.                         *)
(*  - Sound, which holds until a restart loses records: every update is    *)
(*    queued, received or excused, and a chat receives in order.           *)
(***************************************************************************)
EXTENDS UpdateDelivery, UpdateQueueProofs

-------------------------------------------------------------------------------
(* Sequences: the lists of chains and of identifiers of the sender.        *)

(* The elements of a sequence over S are in S. *)
LEMMA ElementsIn ==
  ASSUME NEW S, NEW s \in Seq(S)
  PROVE  \A e \in Range(s) : e \in S
<1>1. ASSUME NEW e \in Range(s) PROVE e \in S
  <2>1. PICK i \in 1..Len(s) : e = s[i]
    BY RangeIs
  <2> QED
    BY <2>1, RangeIs
<1> QED
  BY <1>1

(* Sequences without repetition, and in the order of a function w. *)
Nodup(s) == \A i, j \in 1..Len(s) : s[i] = s[j] => i = j
ByWake(s, w) == \A i, j \in 1..Len(s) : i < j => w[s[i]] <= w[s[j]]

(* A selection keeps the order and repeats nothing. *)
LEMMA SelectKeeps ==
  ASSUME NEW D, NEW s \in Seq(D), NEW A, NEW w
  PROVE  /\ Nodup(s) => Nodup(Select(s, A))
         /\ ByWake(s, w) => ByWake(Select(s, A), w)
<1>1. PICK r : r = Select(s, A)
  OBVIOUS
<1>2. r \in Seq(D) /\ Len(r) \in Nat /\ Len(s) \in Nat
  BY <1>1, SelectPicks, LenProperties
<1>3. PICK g : Picks(g, r, s, A)
  BY <1>1, SelectPicks
<1>4. /\ \A i \in 1..Len(r) : g[i] \in 1..Len(s) /\ r[i] = s[g[i]]
      /\ \A i, j \in 1..Len(r) : i < j => g[i] < g[j]
  BY <1>3 DEF Picks
<1>5. ASSUME Nodup(s) PROVE Nodup(r)
  <2>1. ASSUME NEW i \in 1..Len(r), NEW j \in 1..Len(r), r[i] = r[j] PROVE i = j
    <3>1. g[i] = g[j] /\ g[i] \in Int
      BY <1>4, <1>5, <2>1 DEF Nodup
    <3>2. ~(i < j) /\ ~(j < i)
      BY <1>4, <3>1
    <3> QED
      BY <1>2, <3>2
  <2> QED
    BY <2>1 DEF Nodup
<1>6. ASSUME ByWake(s, w) PROVE ByWake(r, w)
  BY <1>4, <1>6 DEF ByWake
<1> QED
  BY <1>1, <1>5, <1>6

(* One sequence after another, with what becomes of their order. *)
LEMMA ConcatKeeps ==
  ASSUME NEW D, NEW s \in Seq(D), NEW t \in Seq(D), NEW w
  PROVE  /\ s \o t \in Seq(D) /\ Range(s \o t) = Range(s) \cup Range(t)
         /\ Len(s \o t) = Len(s) + Len(t)
         /\ \A i \in 1..Len(s) : (s \o t)[i] = s[i]
         /\ \A i \in 1..Len(t) : (s \o t)[Len(s) + i] = t[i]
         /\ Nodup(s) /\ Nodup(t) /\ Range(s) \cap Range(t) = {} => Nodup(s \o t)
         /\ /\ ByWake(s, w) /\ ByWake(t, w)
            /\ \A d \in Range(s), e \in Range(t) : w[d] <= w[e]
            => ByWake(s \o t, w)
<1>0. Len(s) \in Nat /\ Len(t) \in Nat
  BY LenProperties
<1>1. PICK r : r = s \o t
  OBVIOUS
<1>2. /\ r \in Seq(D) /\ Len(r) = Len(s) + Len(t)
      /\ \A i \in 1..(Len(s) + Len(t)) : r[i] = IF i <= Len(s) THEN s[i] ELSE t[i - Len(s)]
  BY <1>1, ConcatProperties
<1>3. /\ \A i \in 1..Len(s) : r[i] = s[i] /\ i \in 1..Len(r)
      /\ \A i \in 1..Len(t) : r[Len(s) + i] = t[i] /\ Len(s) + i \in 1..Len(r)
  <2>1. \A i \in 1..Len(s) : i \in 1..(Len(s) + Len(t)) /\ i <= Len(s)
    BY <1>0
  <2>2. \A i \in 1..Len(t) : Len(s) + i \in 1..(Len(s) + Len(t)) /\ ~(Len(s) + i <= Len(s)) /\ (Len(s) + i) - Len(s) = i
    BY <1>0
  <2> QED
    BY <1>2, <2>1, <2>2
<1>4. \A i \in 1..Len(r) : \/ i \in 1..Len(s) /\ r[i] = s[i]
                           \/ ~(i \in 1..Len(s)) /\ i - Len(s) \in 1..Len(t) /\ r[i] = t[i - Len(s)] /\ i > Len(s)
  <2>1. \A i \in 1..Len(r) :
          \/ i \in 1..Len(s)
          \/ ~(i \in 1..Len(s)) /\ ~(i <= Len(s)) /\ i - Len(s) \in 1..Len(t) /\ i > Len(s)
    BY <1>0, <1>2
  <2> QED
    BY <1>2, <1>3, <2>1
<1>5. /\ \A i \in 1..Len(s) : s[i] \in Range(s)
      /\ \A i \in 1..Len(t) : t[i] \in Range(t)
  BY RangeIs
<1>6. Range(r) = Range(s) \cup Range(t)
  BY <1>1, RangeConcatenation
<1>7. ASSUME Nodup(s), Nodup(t), Range(s) \cap Range(t) = {} PROVE Nodup(r)
  <2>1. ASSUME NEW i \in 1..Len(r), NEW j \in 1..Len(r), r[i] = r[j] PROVE i = j
    <3>1. CASE i \in 1..Len(s) /\ j \in 1..Len(s)
      BY <1>3, <1>7, <2>1, <3>1 DEF Nodup
    <3>2. CASE ~(i \in 1..Len(s)) /\ ~(j \in 1..Len(s))
      <4>1. i - Len(s) = j - Len(s)
        BY <1>4, <1>7, <2>1, <3>2 DEF Nodup
      <4> QED
        BY <1>0, <1>2, <4>1
    <3>3. CASE i \in 1..Len(s) /\ ~(j \in 1..Len(s))
      BY <1>4, <1>5, <1>7, <2>1, <3>3
    <3>4. CASE ~(i \in 1..Len(s)) /\ j \in 1..Len(s)
      BY <1>4, <1>5, <1>7, <2>1, <3>4
    <3> QED
      BY <3>1, <3>2, <3>3, <3>4
  <2> QED
    BY <2>1 DEF Nodup
<1>8. ASSUME ByWake(s, w), ByWake(t, w), \A d \in Range(s), e \in Range(t) : w[d] <= w[e]
      PROVE  ByWake(r, w)
  <2>1. ASSUME NEW i \in 1..Len(r), NEW j \in 1..Len(r), i < j PROVE w[r[i]] <= w[r[j]]
    <3>1. CASE i \in 1..Len(s) /\ j \in 1..Len(s)
      BY <1>3, <1>8, <2>1, <3>1 DEF ByWake
    <3>2. CASE ~(i \in 1..Len(s)) /\ ~(j \in 1..Len(s))
      <4>1. i - Len(s) < j - Len(s)
        BY <1>0, <1>2, <2>1
      <4> QED
        BY <1>4, <1>8, <3>2, <4>1 DEF ByWake
    <3>3. CASE i \in 1..Len(s) /\ ~(j \in 1..Len(s))
      BY <1>4, <1>5, <1>8, <3>3
    <3>4. CASE ~(i \in 1..Len(s)) /\ j \in 1..Len(s)
      <4>1. i > Len(s) /\ j <= Len(s)
        BY <1>4, <3>4
      <4> QED
        BY <1>0, <1>2, <2>1, <4>1
    <3> QED
      BY <3>1, <3>2, <3>3, <3>4
  <2> QED
    BY <2>1 DEF ByWake
<1> QED
  BY <1>1, <1>2, <1>3, <1>6, <1>7, <1>8

(* queues_.emplace: mid goes behind what is due as soon as mid is. *)
Inserting(D, w, s, mid, b, A, B) ==
  /\ w \in [D -> Nat] /\ s \in Seq(D) /\ Nodup(s) /\ ByWake(s, w)
  /\ mid \in Seq(D) /\ Nodup(mid)
  /\ b \in Nat
  /\ \A d \in Range(mid) : d \notin Range(s) /\ w[d] = b
  /\ \A d \in Range(s) : (d \in A <=> w[d] <= b) /\ (d \in B <=> w[d] > b)

Insertion(D, w, s, mid, A, B, t) ==
  /\ t \in Seq(D) /\ t = Select(s, A) \o mid \o Select(s, B)
  /\ Nodup(t) /\ ByWake(t, w) /\ Range(t) = Range(s) \cup Range(mid)

(* Sequences between which mid is put in stay in order. *)
LEMMA Inserted ==
  ASSUME NEW D, NEW w, NEW s, NEW mid, NEW b, NEW A, NEW B, Inserting(D, w, s, mid, b, A, B)
  PROVE  \E t : Insertion(D, w, s, mid, A, B, t)
<1> USE DEF Inserting
<1>1. PICK a \in Seq(D) : a = Select(s, A) /\ Range(a) = Range(s) \cap A
  BY SelectRange
<1>2. PICK c \in Seq(D) : c = Select(s, B) /\ Range(c) = Range(s) \cap B
  BY SelectRange
<1>3. Nodup(a) /\ Nodup(c) /\ ByWake(a, w) /\ ByWake(c, w)
  BY <1>1, <1>2, SelectKeeps
<1>4. (\A d \in Range(s) : d \in D) /\ (\A d \in Range(mid) : d \in D)
  BY ElementsIn
<1>5. \A d \in D : w[d] \in Nat
  OBVIOUS
<1>6. ByWake(mid, w)
  <2>1. \A i \in 1..Len(mid) : w[mid[i]] = b
    BY RangeIs
  <2> QED
    BY <2>1 DEF ByWake
<1>7. PICK am \in Seq(D) : am = a \o mid
  BY ConcatProperties
<1>8. am \in Seq(D) /\ Range(am) = Range(a) \cup Range(mid) /\ Nodup(am) /\ ByWake(am, w)
  <2>1. Range(a) \cap Range(mid) = {}
    BY <1>1
  <2>2. \A d \in Range(a), e \in Range(mid) : w[d] <= w[e]
    BY <1>1
  <2>3. am \in Seq(D) /\ Range(am) = Range(a) \cup Range(mid)
    BY <1>7, ConcatKeeps
  <2>4. Nodup(am)
    BY <1>3, <1>7, <2>1, ConcatKeeps
  <2>5. ByWake(am, w)
    BY <1>3, <1>6, <1>7, <2>2, ConcatKeeps
  <2> QED
    BY <2>3, <2>4, <2>5
<1>9. PICK r \in Seq(D) : r = am \o c
  BY ConcatProperties
<1>10. r \in Seq(D) /\ Range(r) = Range(am) \cup Range(c) /\ Nodup(r) /\ ByWake(r, w)
  <2>1. Range(am) \cap Range(c) = {}
    BY <1>1, <1>2, <1>4, <1>5, <1>8
  <2>2. ASSUME NEW d \in Range(am), NEW e \in Range(c) PROVE w[d] <= w[e]
    <3>1. w[d] <= b /\ w[e] > b /\ w[d] \in Nat /\ w[e] \in Nat
      BY <1>1, <1>2, <1>4, <1>5, <1>8
    <3> QED
      BY <3>1
  <2>3. r \in Seq(D) /\ Range(r) = Range(am) \cup Range(c)
    BY <1>8, <1>9, ConcatKeeps
  <2>4. Nodup(r)
    BY <1>3, <1>8, <1>9, <2>1, ConcatKeeps
  <2>5. ByWake(r, w)
    BY <1>3, <1>8, <1>9, <2>2, ConcatKeeps
  <2> QED
    BY <2>3, <2>4, <2>5
<1>11. r = Select(s, A) \o mid \o Select(s, B)
  BY <1>1, <1>2, <1>7, <1>9
<1>12. Range(a) \cup Range(c) = Range(s)
  BY <1>1, <1>2, <1>4, <1>5
<1> QED
  BY <1>8, <1>10, <1>11, <1>12 DEF Insertion

-------------------------------------------------------------------------------
(* The state of WebhookActor.  n bounds the updates. *)
LoadedType(n) == [data : 1..n, chain : 1..(MaxChat + MaxId), delay : Nat, failed : BOOLEAN, wake : Nat]

LoadedOK(loaded, n) ==
  /\ DOMAIN loaded \subseteq 1..(MaxId - 2)
  /\ \A i \in DOMAIN loaded : loaded[i] \in LoadedType(n)

(* A loaded update is in its chain and in no other, once. *)
ChainsOK(loaded, chains) ==
  /\ DOMAIN chains \subseteq 1..(MaxChat + MaxId)
  /\ \A c \in DOMAIN chains :
       /\ chains[c] \in Seq(DOMAIN loaded) /\ chains[c] # <<>> /\ Nodup(chains[c])
       /\ \A i \in Range(chains[c]) : loaded[i].chain = c
  /\ \A i \in DOMAIN loaded : /\ loaded[i].chain \in DOMAIN chains
                              /\ i \in Range(chains[loaded[i].chain])

(* The chains that wait are ordered by the wake-up of their first update. *)
Wakes(loaded, chains) == [c \in DOMAIN chains |-> loaded[Head(chains[c])].wake]

DueOK(loaded, chains, due) ==
  /\ due \in Seq(DOMAIN chains) /\ Nodup(due)
  /\ ByWake(due, Wakes(loaded, chains))

(* A chain waits, or its first update is on a connection. *)
ConnsOK(chains, due, conns) ==
  /\ DOMAIN conns \subseteq 1..MaxConnections
  /\ \A k \in DOMAIN conns :
       conns[k] # 0 => \E c \in DOMAIN chains : conns[k] = Head(chains[c]) /\ c \notin Range(due)
  /\ \A j, k \in DOMAIN conns : (conns[j] = conns[k] /\ conns[j] # 0) => j = k
  /\ \A c \in DOMAIN chains :
       c \in Range(due) \/ \E k \in DOMAIN conns : conns[k] = Head(chains[c])

IsHook(h) ==
  h = [offset |-> h.offset, empty |-> h.empty, told |-> h.told, active |-> h.active,
       loaded |-> h.loaded, chains |-> h.chains, due |-> h.due, conns |-> h.conns]

HookOK(h, n) ==
  /\ IsHook(h) /\ h.offset \in 0..(MaxId - 1)
  /\ LoadedOK(h.loaded, n) /\ ChainsOK(h.loaded, h.chains)
  /\ DueOK(h.loaded, h.chains, h.due) /\ ConnsOK(h.chains, h.due, h.conns)

(* The first element. *)
LEMMA HeadIs ==
  ASSUME NEW S, NEW s \in Seq(S), s # <<>>
  PROVE  Head(s) \in S /\ Head(s) = s[1] /\ Head(s) \in Range(s) /\ Len(s) \in Nat /\ 1 \in 1..Len(s)
<1>1. Len(s) \in Nat /\ Len(s) # 0
  BY EmptySeq, LenProperties
<1>2. 1 \in 1..Len(s)
  BY <1>1
<1>3. Head(s) = s[1]
  OBVIOUS
<1> QED
  BY <1>1, <1>2, <1>3, RangeIs

(* A sequence over the set of its elements. *)
LEMMA SeqWithin ==
  ASSUME NEW S, NEW s \in Seq(S), NEW T, \A e \in Range(s) : e \in T
  PROVE  s \in Seq(T)
<1>1. Len(s) \in Nat /\ \A i \in 1..Len(s) : s[i] \in T
  BY RangeIs
<1>2. s = [i \in 1..Len(s) |-> s[i]]
  BY LenProperties
<1>3. s \in [1..Len(s) -> T]
  BY <1>1, <1>2
<1> QED
  BY <1>1, <1>3, SeqDef

(* The order only depends on the elements. *)
LEMMA ByWakeSame ==
  ASSUME NEW S, NEW s \in Seq(S), NEW w, NEW v, \A e \in Range(s) : w[e] = v[e], ByWake(s, w)
  PROVE  ByWake(s, v)
<1>1. \A i \in 1..Len(s) : w[s[i]] = v[s[i]]
  BY RangeIs
<1> QED
  BY <1>1 DEF ByWake

(* The first updates of the chains. *)
LEMMA Heads ==
  ASSUME NEW loaded, NEW n \in Nat, LoadedOK(loaded, n), NEW chains, ChainsOK(loaded, chains)
  PROVE  /\ \A c \in DOMAIN chains :
              /\ Head(chains[c]) \in DOMAIN loaded /\ Head(chains[c]) # 0
              /\ loaded[Head(chains[c])].chain = c
              /\ Head(chains[c]) \in Range(chains[c])
         /\ \A c, d \in DOMAIN chains : Head(chains[c]) = Head(chains[d]) => c = d
         /\ Wakes(loaded, chains) \in [DOMAIN chains -> Nat]
<1>1. ASSUME NEW c \in DOMAIN chains
      PROVE  /\ Head(chains[c]) \in DOMAIN loaded /\ Head(chains[c]) # 0
             /\ loaded[Head(chains[c])].chain = c /\ loaded[Head(chains[c])].wake \in Nat
             /\ Head(chains[c]) \in Range(chains[c])
  <2>1. Head(chains[c]) \in DOMAIN loaded /\ Head(chains[c]) \in Range(chains[c])
    BY HeadIs DEF ChainsOK
  <2>2. Head(chains[c]) \in 1..(MaxId - 2) /\ loaded[Head(chains[c])] \in LoadedType(n)
    BY <2>1 DEF LoadedOK
  <2>3. loaded[Head(chains[c])].chain = c
    BY <2>1 DEF ChainsOK
  <2>4. loaded[Head(chains[c])].wake \in Nat
    BY <2>2 DEF LoadedType
  <2> QED
    BY <2>1, <2>2, <2>3, <2>4
<1>2. Wakes(loaded, chains) \in [DOMAIN chains -> Nat]
  BY <1>1 DEF Wakes
<1>3. ASSUME NEW c \in DOMAIN chains, NEW d \in DOMAIN chains, Head(chains[c]) = Head(chains[d])
      PROVE  c = d
  <2>1. loaded[Head(chains[c])].chain = c /\ loaded[Head(chains[d])].chain = d
    BY <1>1
  <2> QED
    BY <1>3, <2>1
<1> QED
  BY <1>1, <1>2, <1>3

(* A sequence of one element. *)
LEMMA OneIs ==
  ASSUME NEW D, NEW c \in D
  PROVE  \E one \in Seq(D) : one = <<c>> /\ Nodup(one) /\ Range(one) = {c}
<1>1. PICK z \in Seq(D) : z = <<>>
  BY EmptySeq
<1>2. PICK one \in Seq(D) : one = Append(z, c) /\ Len(one) = Len(z) + 1 /\ Range(one) = Range(z) \cup {c}
  BY RangeAppend
<1>3. Range(z) = {} /\ Len(z) = 0
  BY <1>1, NothingInRange
<1>4. one = <<c>>
  BY <1>1, <1>2
<1>5. Nodup(one)
  BY <1>2, <1>3 DEF Nodup
<1> QED
  BY <1>2, <1>3, <1>4, <1>5

(* One chain more. *)
InsertingOne(D, w, s, c, A, B) ==
  /\ w \in [D -> Nat] /\ s \in Seq(D) /\ Nodup(s) /\ ByWake(s, w) /\ c \in D /\ c \notin Range(s)
  /\ \A d \in Range(s) : (d \in A <=> w[d] <= w[c]) /\ (d \in B <=> w[d] > w[c])

(* One chain, put in its place in queues_. *)
LEMMA InsertedOne ==
  ASSUME NEW D, NEW w, NEW s, NEW c, NEW A, NEW B, InsertingOne(D, w, s, c, A, B)
  PROVE  \E t : Insertion(D, w, s, <<c>>, A, B, t) /\ Range(t) = Range(s) \cup {c}
<1> USE DEF InsertingOne
<1>1. PICK one \in Seq(D) : one = <<c>> /\ Nodup(one) /\ Range(one) = {c}
  BY OneIs
<1>2. PICK b \in Nat : b = w[c]
  OBVIOUS
<1>3. Inserting(D, w, s, one, b, A, B)
  BY <1>1, <1>2 DEF Inserting
<1>4. PICK t : Insertion(D, w, s, one, A, B, t)
  BY <1>3, Inserted
<1> QED
  BY <1>1, <1>4 DEF Insertion

(* A chain that starts to wait. *)
LEMMA ScheduleIs ==
  ASSUME NEW h, NEW n \in Nat, IsHook(h), LoadedOK(h.loaded, n), ChainsOK(h.loaded, h.chains),
         DueOK(h.loaded, h.chains, h.due), NEW c \in DOMAIN h.chains, c \notin Range(h.due)
  PROVE  \E due : /\ Schedule(h, c) = [h EXCEPT !.due = due]
                  /\ DueOK(h.loaded, h.chains, due) /\ Range(due) = Range(h.due) \cup {c}
<1>1. PICK w : w = Wakes(h.loaded, h.chains)
  OBVIOUS
<1>2. w \in [DOMAIN h.chains -> Nat] /\ \A d \in DOMAIN h.chains : Wake(h, d) = w[d]
  BY <1>1, Heads DEF Wakes, Wake
<1>3. PICK A : A = {d \in Range(h.due) : Wake(h, d) <= Wake(h, c)}
  OBVIOUS
<1>4. PICK B : B = {d \in Range(h.due) : Wake(h, d) > Wake(h, c)}
  OBVIOUS
<1>5. h.due \in Seq(DOMAIN h.chains) /\ Nodup(h.due) /\ ByWake(h.due, w)
  BY <1>1 DEF DueOK
<1>6. \A d \in Range(h.due) : d \in DOMAIN h.chains
  BY <1>5, ElementsIn
<1>7. \A d \in Range(h.due) : (d \in A <=> w[d] <= w[c]) /\ (d \in B <=> w[d] > w[c])
  BY <1>2, <1>3, <1>4, <1>6
<1>8. PICK due : Insertion(DOMAIN h.chains, w, h.due, <<c>>, A, B, due) /\ Range(due) = Range(h.due) \cup {c}
  <2>1. InsertingOne(DOMAIN h.chains, w, h.due, c, A, B)
    BY <1>2, <1>5, <1>7 DEF InsertingOne
  <2> QED
    BY <2>1, InsertedOne
<1>9. Schedule(h, c) = [h EXCEPT !.due = due]
  BY <1>3, <1>4, <1>8, Zenon DEF Schedule, Insertion
<1>10. DueOK(h.loaded, h.chains, due)
  BY <1>1, <1>8 DEF DueOK, Insertion
<1> QED
  BY <1>8, <1>9, <1>10

(* The update of connection k is done with. *)
Freed(conns, new, k) ==
  /\ DOMAIN new \subseteq DOMAIN conns
  /\ \A j \in DOMAIN conns : j # k => j \in DOMAIN new /\ new[j] = conns[j]
  /\ k \in DOMAIN new => new[k] = 0

(* A connection that is kept or closed carries nothing any more. *)
LEMMA AfterFrees ==
  ASSUME NEW conns, NEW k \in DOMAIN conns, NEW keep \in BOOLEAN,
         NEW new, new = IF keep THEN With(conns, k, 0) ELSE Without(conns, k)
  PROVE  Freed(conns, new, k)
<1>1. CASE keep
  <2>1. new = [y \in DOMAIN conns \cup {k} |-> IF y = k THEN 0 ELSE conns[y]]
    BY <1>1 DEF With
  <2> QED
    BY <2>1 DEF Freed
<1>2. CASE ~keep
  <2>1. new = [x \in DOMAIN conns \ {k} |-> conns[x]]
    BY <1>2 DEF Without, Restrict
  <2> QED
    BY <2>1 DEF Freed
<1> QED
  BY <1>1, <1>2

(* The other connections still carry the first updates of their chains     *)
(* when one is freed and its chain goes on.                                *)
LEMMA ConnsFreed ==
  ASSUME NEW loaded, NEW n \in Nat, LoadedOK(loaded, n), NEW chains, ChainsOK(loaded, chains),
         NEW due, NEW conns, ConnsOK(chains, due, conns),
         NEW k \in DOMAIN conns, NEW c \in DOMAIN chains, conns[k] = Head(chains[c]),
         NEW chains2, NEW due2, NEW conns2, Freed(conns, conns2, k),
         DOMAIN chains2 \subseteq DOMAIN chains,
         \A d \in DOMAIN chains : d # c => d \in DOMAIN chains2 /\ Head(chains2[d]) = Head(chains[d]),
         \A d : d \in Range(due2) <=> d \in Range(due) \/ (d = c /\ d \in DOMAIN chains2)
  PROVE  ConnsOK(chains2, due2, conns2)
<1>1. /\ \A d \in DOMAIN chains : Head(chains[d]) # 0
      /\ \A d, e \in DOMAIN chains : Head(chains[d]) = Head(chains[e]) => d = e
  BY Heads
<1>2. DOMAIN conns2 \subseteq 1..MaxConnections
  BY DEF ConnsOK, Freed
<1>3. ASSUME NEW j \in DOMAIN conns2, conns2[j] # 0
      PROVE  \E d \in DOMAIN chains2 : conns2[j] = Head(chains2[d]) /\ d \notin Range(due2)
  <2>1. j # k /\ j \in DOMAIN conns /\ conns2[j] = conns[j]
    BY <1>3 DEF Freed
  <2>2. PICK d \in DOMAIN chains : conns[j] = Head(chains[d]) /\ d \notin Range(due)
    BY <1>3, <2>1 DEF ConnsOK
  <2>3. d # c
    BY <1>1, <2>1, <2>2 DEF ConnsOK
  <2> QED
    BY <2>1, <2>2, <2>3
<1>4. \A i, j \in DOMAIN conns2 : (conns2[i] = conns2[j] /\ conns2[i] # 0) => i = j
  BY DEF ConnsOK, Freed
<1>5. ASSUME NEW d \in DOMAIN chains2
      PROVE  d \in Range(due2) \/ \E j \in DOMAIN conns2 : conns2[j] = Head(chains2[d])
  <2>1. CASE d # c /\ d \notin Range(due)
    <3>1. PICK j \in DOMAIN conns : conns[j] = Head(chains[d])
      BY <2>1 DEF ConnsOK
    <3>2. j # k
      BY <1>1, <2>1, <3>1
    <3>3. j \in DOMAIN conns2 /\ conns2[j] = Head(chains2[d])
      BY <2>1, <3>1, <3>2 DEF Freed
    <3> QED
      BY <3>3
  <2> QED
    BY <2>1
<1> QED
  BY <1>2, <1>3, <1>4, <1>5 DEF ConnsOK


(* A sequence without its first element. *)
LEMMA TailIs ==
  ASSUME NEW S, NEW s \in Seq(S), s # <<>>, Nodup(s)
  PROVE  /\ Tail(s) \in Seq(S) /\ Nodup(Tail(s)) /\ Len(Tail(s)) = Len(s) - 1
         /\ \A i \in 1..(Len(s) - 1) : Tail(s)[i] = s[i + 1] /\ i + 1 \in 1..Len(s)
         /\ \A e : e \in Range(Tail(s)) <=> e \in Range(s) /\ e # Head(s)
<1>1. PICK r \in Seq(S) : r = Tail(s) /\ Len(r) = Len(s) - 1 /\ \A i \in 1..Len(r) : r[i] = s[i + 1]
  BY HeadTailProperties
<1>2. Len(s) \in Nat /\ Len(s) >= 1 /\ Head(s) = s[1] /\ 1 \in 1..Len(s)
  BY HeadIs
<1>3. \A i \in 1..Len(r) : i + 1 \in 1..Len(s) /\ i + 1 # 1 /\ r[i] = s[i + 1]
  BY <1>1, <1>2
<1>4. \A i \in 1..Len(s) : i = 1 \/ (i - 1 \in 1..Len(r) /\ s[i] = r[i - 1])
  <2>1. \A i \in 1..Len(s) : i = 1 \/ (i - 1 \in 1..Len(r) /\ (i - 1) + 1 = i)
    BY <1>1, <1>2
  <2> QED
    BY <1>3, <2>1
<1>5. Nodup(r)
  <2>1. ASSUME NEW i \in 1..Len(r), NEW j \in 1..Len(r), r[i] = r[j] PROVE i = j
    <3>1. i + 1 = j + 1
      BY <1>3, <2>1 DEF Nodup
    <3> QED
      BY <1>1, <1>2, <3>1
  <2> QED
    BY <2>1 DEF Nodup
<1>6. ASSUME NEW e \in Range(r) PROVE e \in Range(s) /\ e # Head(s)
  <2>1. PICK i \in 1..Len(r) : e = r[i]
    BY RangeIs
  <2>2. e = s[i + 1] /\ i + 1 \in 1..Len(s) /\ i + 1 # 1
    BY <1>3, <2>1
  <2> QED
    BY <1>2, <2>2, RangeIs DEF Nodup
<1>7. ASSUME NEW e \in Range(s), e # Head(s) PROVE e \in Range(r)
  <2>1. PICK i \in 1..Len(s) : e = s[i]
    BY RangeIs
  <2>2. i - 1 \in 1..Len(r) /\ e = r[i - 1]
    BY <1>2, <1>4, <1>7, <2>1
  <2> QED
    BY <2>2, RangeIs
<1> QED
  BY <1>1, <1>3, <1>5, <1>6, <1>7

(* Chains that wait and whose first update does not change. *)
LEMMA DueKept ==
  ASSUME NEW loaded, NEW chains, NEW due, DueOK(loaded, chains, due), NEW loaded2, NEW chains2,
         \A d \in Range(due) : d \in DOMAIN chains =>
            /\ d \in DOMAIN chains2 /\ Head(chains2[d]) = Head(chains[d])
            /\ loaded2[Head(chains[d])].wake = loaded[Head(chains[d])].wake
  PROVE  DueOK(loaded2, chains2, due)
<1>1. due \in Seq(DOMAIN chains) /\ Nodup(due) /\ ByWake(due, Wakes(loaded, chains))
  BY DEF DueOK
<1>2. \A d \in Range(due) : d \in DOMAIN chains
  BY <1>1, ElementsIn
<1>3. due \in Seq(DOMAIN chains2)
  BY <1>1, <1>2, SeqWithin
<1>4. \A d \in Range(due) : Wakes(loaded, chains)[d] = Wakes(loaded2, chains2)[d]
  BY <1>2 DEF Wakes
<1>5. ByWake(due, Wakes(loaded2, chains2))
  BY <1>1, <1>4, ByWakeSame
<1> QED
  BY <1>1, <1>3, <1>5 DEF DueOK

(* The chains without the first update of c. *)
Headless(loaded, chains, c, loaded2, chains2) ==
  /\ DOMAIN loaded2 = DOMAIN loaded \ {Head(chains[c])}
  /\ \A i \in DOMAIN loaded2 : loaded2[i] = loaded[i]
  /\ DOMAIN chains2 \subseteq DOMAIN chains
  /\ \A d \in DOMAIN chains : d # c => d \in DOMAIN chains2 /\ chains2[d] = chains[d]
  /\ c \in DOMAIN chains2 <=> Tail(chains[c]) # <<>>
  /\ c \in DOMAIN chains2 => chains2[c] = Tail(chains[c])

(* A chain without its first update, and the others, are chains. *)
LEMMA HeadlessOK ==
  ASSUME NEW loaded, NEW n \in Nat, LoadedOK(loaded, n), NEW chains, ChainsOK(loaded, chains),
         NEW c \in DOMAIN chains, NEW loaded2, NEW chains2, Headless(loaded, chains, c, loaded2, chains2)
  PROVE  LoadedOK(loaded2, n) /\ ChainsOK(loaded2, chains2)
<1>1. LoadedOK(loaded2, n)
  BY DEF Headless, LoadedOK
<1>2. PICK id : id = Head(chains[c])
  OBVIOUS
<1>3. loaded[id].chain = c /\ id \in DOMAIN loaded
  BY <1>2, Heads
<1>4. /\ chains[c] \in Seq(DOMAIN loaded) /\ chains[c] # <<>> /\ Nodup(chains[c])
      /\ \A i \in Range(chains[c]) : loaded[i].chain = c
  BY DEF ChainsOK
<1>5. PICK rest : rest = Tail(chains[c])
  OBVIOUS
<1>6. /\ rest \in Seq(DOMAIN loaded) /\ Nodup(rest)
      /\ \A e : e \in Range(rest) <=> e \in Range(chains[c]) /\ e # id
  BY <1>2, <1>4, <1>5, TailIs
<1>7. ASSUME NEW d \in DOMAIN chains2
      PROVE  /\ chains2[d] \in Seq(DOMAIN loaded2) /\ chains2[d] # <<>> /\ Nodup(chains2[d])
             /\ \A i \in Range(chains2[d]) : loaded2[i].chain = d
  <2>1. CASE d = c
    <3>1. chains2[d] = rest /\ rest # <<>>
      BY <1>5, <2>1 DEF Headless
    <3>2. \A i \in Range(rest) : i \in DOMAIN loaded2
      BY <1>2, <1>4, <1>6, ElementsIn DEF Headless
    <3>3. rest \in Seq(DOMAIN loaded2)
      BY <1>6, <3>2, SeqWithin
    <3>4. \A i \in Range(rest) : loaded2[i].chain = d
      BY <1>4, <1>6, <2>1, <3>2 DEF Headless
    <3> QED
      BY <1>6, <3>1, <3>3, <3>4
  <2>2. CASE d # c
    <3>1. d \in DOMAIN chains /\ chains2[d] = chains[d]
      BY <2>2 DEF Headless
    <3>2. /\ chains[d] \in Seq(DOMAIN loaded) /\ chains[d] # <<>> /\ Nodup(chains[d])
          /\ \A i \in Range(chains[d]) : loaded[i].chain = d
      BY <3>1 DEF ChainsOK
    <3>3. \A i \in Range(chains[d]) : i \in DOMAIN loaded2
      BY <1>2, <1>3, <2>2, <3>2, ElementsIn DEF Headless
    <3>4. chains[d] \in Seq(DOMAIN loaded2)
      BY <3>2, <3>3, SeqWithin
    <3>5. \A i \in Range(chains[d]) : loaded2[i].chain = d
      BY <3>2, <3>3 DEF Headless
    <3> QED
      BY <3>1, <3>2, <3>4, <3>5
  <2> QED
    BY <2>1, <2>2
<1>8. ASSUME NEW i \in DOMAIN loaded2
      PROVE  loaded2[i].chain \in DOMAIN chains2 /\ i \in Range(chains2[loaded2[i].chain])
  <2>1. i \in DOMAIN loaded /\ i # id /\ loaded2[i] = loaded[i]
    BY <1>2 DEF Headless
  <2>2. loaded[i].chain \in DOMAIN chains /\ i \in Range(chains[loaded[i].chain])
    BY <2>1 DEF ChainsOK
  <2>3. CASE loaded[i].chain = c
    <3>1. i \in Range(rest)
      BY <1>6, <2>1, <2>2, <2>3
    <3>2. rest # <<>>
      BY <3>1, NothingInRange
    <3> QED
      BY <1>5, <2>1, <2>3, <3>1, <3>2 DEF Headless
  <2>4. CASE loaded[i].chain # c
    BY <2>1, <2>2, <2>4 DEF Headless
  <2> QED
    BY <2>3, <2>4
<1>9. DOMAIN chains2 \subseteq 1..(MaxChat + MaxId)
  BY DEF Headless, ChainsOK
<1> QED
  BY <1>1, <1>7, <1>8, <1>9 DEF ChainsOK

(* The chains that wait are still in order without it. *)
LEMMA HeadlessDue ==
  ASSUME NEW loaded, NEW n \in Nat, LoadedOK(loaded, n), NEW chains, ChainsOK(loaded, chains),
         NEW c \in DOMAIN chains, NEW loaded2, NEW chains2, Headless(loaded, chains, c, loaded2, chains2),
         NEW due, DueOK(loaded, chains, due), c \notin Range(due)
  PROVE  DueOK(loaded2, chains2, due)
<1>1. ASSUME NEW d \in Range(due), d \in DOMAIN chains
      PROVE  /\ d \in DOMAIN chains2 /\ Head(chains2[d]) = Head(chains[d])
             /\ loaded2[Head(chains[d])].wake = loaded[Head(chains[d])].wake
  <2>1. d # c
    OBVIOUS
  <2>2. d \in DOMAIN chains2 /\ chains2[d] = chains[d]
    BY <1>1, <2>1 DEF Headless
  <2>3. Head(chains[d]) \in DOMAIN loaded /\ Head(chains[d]) # Head(chains[c])
    BY <1>1, <2>1, Heads
  <2>4. loaded2[Head(chains[d])] = loaded[Head(chains[d])]
    BY <2>3 DEF Headless
  <2> QED
    BY <2>2, <2>4
<1> QED
  BY <1>1, DueKept

(* drop_event: the chain goes on with its next update, or ends. *)
LEMMA DropIs ==
  ASSUME NEW h, NEW n \in Nat, HookOK(h, n), NEW c \in DOMAIN h.chains, c \notin Range(h.due),
         NEW g, g = drop_event(h, Head(h.chains[c]))
  PROVE  /\ IsHook(g) /\ g.offset = h.offset /\ g.empty = h.empty /\ g.told = h.told
         /\ g.conns = h.conns
         /\ Headless(h.loaded, h.chains, c, g.loaded, g.chains)
         /\ DueOK(g.loaded, g.chains, g.due)
         /\ \A d : d \in Range(g.due) <=> d \in Range(h.due) \/ (d = c /\ d \in DOMAIN g.chains)
<1>0. /\ IsHook(h) /\ LoadedOK(h.loaded, n) /\ ChainsOK(h.loaded, h.chains)
      /\ DueOK(h.loaded, h.chains, h.due)
  BY DEF HookOK
<1>1. PICK id : id = Head(h.chains[c])
  OBVIOUS
<1>2. id \in DOMAIN h.loaded /\ h.loaded[id].chain = c
  BY <1>0, <1>1, Heads
<1>3. PICK loaded2 : loaded2 = Without(h.loaded, id)
  OBVIOUS
<1>4. DOMAIN loaded2 = DOMAIN h.loaded \ {id} /\ \A i \in DOMAIN loaded2 : loaded2[i] = h.loaded[i]
  BY <1>3 DEF Without, Restrict
<1>5. PICK l : l = [h EXCEPT !.loaded = Without(h.loaded, id)]
  OBVIOUS
<1>6. /\ IsHook(l) /\ l.offset = h.offset /\ l.empty = h.empty /\ l.told = h.told
      /\ l.conns = h.conns /\ l.loaded = loaded2 /\ l.chains = h.chains /\ l.due = h.due
  BY <1>0, <1>3, <1>5 DEF IsHook
<1>7. CASE Tail(h.chains[c]) = <<>>
  <2>1. g = [l EXCEPT !.chains = Without(h.chains, c)]
    <3>1. g = [l EXCEPT !.chains = Without(l.chains, c)]
      BY <1>1, <1>2, <1>5, <1>7 DEF drop_event
    <3> QED
      BY <1>6, <3>1
  <2>2. PICK chains2 : chains2 = Without(h.chains, c)
    OBVIOUS
  <2>3. /\ IsHook(g) /\ g.offset = l.offset /\ g.empty = l.empty /\ g.told = l.told
        /\ g.conns = l.conns /\ g.loaded = l.loaded /\ g.chains = chains2 /\ g.due = l.due
    BY <1>6, <2>1, <2>2 DEF IsHook
  <2>4. DOMAIN chains2 = DOMAIN h.chains \ {c} /\ \A d \in DOMAIN chains2 : chains2[d] = h.chains[d]
    BY <2>2 DEF Without, Restrict
  <2>5. Headless(h.loaded, h.chains, c, loaded2, chains2)
    BY <1>1, <1>4, <1>7, <2>4 DEF Headless
  <2>6. DueOK(loaded2, chains2, h.due)
    BY <1>0, <2>5, HeadlessDue
  <2> QED
    BY <1>6, <2>3, <2>4, <2>5, <2>6
<1>8. CASE Tail(h.chains[c]) # <<>>
  <2>1. PICK chains2 : chains2 = With(h.chains, c, Tail(h.chains[c]))
    OBVIOUS
  <2>2. PICK m : m = [l EXCEPT !.chains = chains2]
    OBVIOUS
  <2>3. /\ IsHook(m) /\ m.offset = l.offset /\ m.empty = l.empty /\ m.told = l.told
        /\ m.conns = l.conns /\ m.loaded = l.loaded /\ m.chains = chains2 /\ m.due = l.due
    BY <1>6, <2>2 DEF IsHook
  <2>4. g = Schedule(m, c)
    <3>1. g = Schedule([l EXCEPT !.chains = With(l.chains, c, Tail(h.chains[c]))], c)
      BY <1>1, <1>2, <1>5, <1>8 DEF drop_event
    <3> QED
      BY <1>6, <2>1, <2>2, <3>1
  <2>5. /\ DOMAIN chains2 = DOMAIN h.chains /\ chains2[c] = Tail(h.chains[c])
        /\ \A d \in DOMAIN h.chains : d # c => chains2[d] = h.chains[d]
    BY <2>1 DEF With
  <2>6. Headless(h.loaded, h.chains, c, loaded2, chains2)
    BY <1>1, <1>4, <1>8, <2>5 DEF Headless
  <2>7. DueOK(loaded2, chains2, h.due) /\ LoadedOK(loaded2, n) /\ ChainsOK(loaded2, chains2)
    BY <1>0, <2>6, HeadlessDue, HeadlessOK
  <2>8. PICK due : /\ Schedule(m, c) = [m EXCEPT !.due = due]
                   /\ DueOK(m.loaded, m.chains, due) /\ Range(due) = Range(m.due) \cup {c}
    <3>1. /\ LoadedOK(m.loaded, n) /\ ChainsOK(m.loaded, m.chains) /\ DueOK(m.loaded, m.chains, m.due)
          /\ c \in DOMAIN m.chains /\ c \notin Range(m.due)
      BY <1>6, <2>3, <2>5, <2>7
    <3> QED
      BY <2>3, <3>1, ScheduleIs
  <2>9. /\ IsHook(g) /\ g.offset = m.offset /\ g.empty = m.empty /\ g.told = m.told
        /\ g.conns = m.conns /\ g.loaded = m.loaded /\ g.chains = m.chains /\ g.due = due
    BY <2>3, <2>4, <2>8 DEF IsHook
  <2> QED
    BY <1>6, <2>3, <2>5, <2>6, <2>8, <2>9
<1> QED
  BY <1>7, <1>8

(* on_update_ok, and on_update_error for an update that would expire: the  *)
(* update on connection k is dropped.                                      *)
Drops(h, c, g) ==
  /\ g.offset = h.offset /\ g.empty = h.empty
  /\ Headless(h.loaded, h.chains, c, g.loaded, g.chains)

(* After changes the connections only. *)
LEMMA AfterIs ==
  ASSUME NEW h, IsHook(h), NEW k \in DOMAIN h.conns, NEW keep \in BOOLEAN, NEW g, g = After(h, k, keep)
  PROVE  /\ IsHook(g) /\ g.offset = h.offset /\ g.empty = h.empty /\ g.told = h.told
         /\ g.loaded = h.loaded /\ g.chains = h.chains /\ g.due = h.due
         /\ Freed(h.conns, g.conns, k)
<1>1. PICK new : new = IF keep THEN With(h.conns, k, 0) ELSE Without(h.conns, k)
  OBVIOUS
<1>2. g = [h EXCEPT !.conns = new]
  BY <1>1 DEF After
<1>3. Freed(h.conns, new, k)
  BY <1>1, AfterFrees
<1> QED
  BY <1>2, <1>3 DEF IsHook

(* drop_event and the end of the query keep the state of the sender. *)
LEMMA DropOK ==
  ASSUME NEW h, NEW n \in Nat, HookOK(h, n), NEW k \in DOMAIN h.conns, NEW c \in DOMAIN h.chains,
         h.conns[k] = Head(h.chains[c]), c \notin Range(h.due), NEW keep \in BOOLEAN, NEW d, NEW g,
         \/ d = drop_event(h, Head(h.chains[c]))
         \/ d = [drop_event(h, Head(h.chains[c])) EXCEPT !.active = TRUE],
         g = After(d, k, keep)
  PROVE  HookOK(g, n) /\ Drops(h, c, g)
<1>1. PICK f : f = drop_event(h, Head(h.chains[c]))
  OBVIOUS
<1>2. /\ IsHook(f) /\ f.offset = h.offset /\ f.empty = h.empty /\ f.told = h.told
      /\ f.conns = h.conns
      /\ Headless(h.loaded, h.chains, c, f.loaded, f.chains)
      /\ DueOK(f.loaded, f.chains, f.due)
      /\ \A x : x \in Range(f.due) <=> x \in Range(h.due) \/ (x = c /\ x \in DOMAIN f.chains)
  BY <1>1, DropIs
<1>3. /\ IsHook(d) /\ d.offset = f.offset /\ d.empty = f.empty /\ d.told = f.told
      /\ d.loaded = f.loaded /\ d.chains = f.chains /\ d.due = f.due /\ d.conns = f.conns
  <2>1. d = f \/ d = [f EXCEPT !.active = TRUE]
    BY <1>1
  <2> QED
    BY <1>2, <2>1 DEF IsHook
<1>4. /\ IsHook(g) /\ g.offset = d.offset /\ g.empty = d.empty /\ g.told = d.told
      /\ g.loaded = d.loaded /\ g.chains = d.chains /\ g.due = d.due
      /\ Freed(d.conns, g.conns, k)
  BY <1>2, <1>3, AfterIs
<1>5. /\ LoadedOK(h.loaded, n) /\ ChainsOK(h.loaded, h.chains) /\ ConnsOK(h.chains, h.due, h.conns)
      /\ h.offset \in 0..(MaxId - 1)
  BY DEF HookOK
<1>6. LoadedOK(g.loaded, n) /\ ChainsOK(g.loaded, g.chains)
  BY <1>2, <1>3, <1>4, <1>5, HeadlessOK
<1>7. ConnsOK(g.chains, g.due, g.conns)
  <2>1. Freed(h.conns, g.conns, k) /\ DOMAIN g.chains \subseteq DOMAIN h.chains
    BY <1>2, <1>3, <1>4 DEF Headless
  <2>2. \A x \in DOMAIN h.chains : x # c => x \in DOMAIN g.chains /\ Head(g.chains[x]) = Head(h.chains[x])
    BY <1>2, <1>3, <1>4 DEF Headless
  <2>3. \A x : x \in Range(g.due) <=> x \in Range(h.due) \/ (x = c /\ x \in DOMAIN g.chains)
    BY <1>2, <1>3, <1>4
  <2> QED
    BY <1>5, <2>1, <2>2, <2>3, ConnsFreed
<1>8. DueOK(g.loaded, g.chains, g.due)
  BY <1>2, <1>3, <1>4
<1>9. Drops(h, c, g) /\ g.offset \in 0..(MaxId - 1)
  BY <1>2, <1>3, <1>4, <1>5 DEF Drops
<1> QED
  BY <1>4, <1>6, <1>7, <1>8, <1>9 DEF HookOK

(* The delays of an update that is sent again. *)
LEMMA DelayIs ==
  ASSUME NEW n, NEW u \in LoadedType(n), NEW retry_after \in RetryAfter
  PROVE  [u EXCEPT !.delay = NextDelay(u, retry_after), !.failed = TRUE,
                   !.wake = EffectiveDelay(u, retry_after)] \in LoadedType(n)
<1>1. retry_after \in Nat /\ MaxResend \in Nat
  BY DeliveryAssumption
<1>2. u.delay \in Nat /\ 2 * u.delay \in Nat
  BY DEF LoadedType
<1>3. NextDelay(u, retry_after) \in Nat
  BY <1>1, <1>2 DEF NextDelay
<1>4. EffectiveDelay(u, retry_after) \in Nat
  BY <1>1, <1>3 DEF EffectiveDelay
<1> QED
  BY <1>3, <1>4 DEF LoadedType

(* The same updates, in the same chains. *)
SameLoaded(loaded, loaded2) ==
  /\ DOMAIN loaded2 = DOMAIN loaded
  /\ \A i \in DOMAIN loaded : loaded2[i].chain = loaded[i].chain /\ loaded2[i].data = loaded[i].data

(* The chains are those of the same updates. *)
LEMMA SameChains ==
  ASSUME NEW loaded, NEW chains, ChainsOK(loaded, chains), NEW loaded2, SameLoaded(loaded, loaded2)
  PROVE  ChainsOK(loaded2, chains)
<1>1. ASSUME NEW c \in DOMAIN chains PROVE \A i \in Range(chains[c]) : loaded2[i].chain = c
  <2>1. chains[c] \in Seq(DOMAIN loaded) /\ \A i \in Range(chains[c]) : loaded[i].chain = c
    BY DEF ChainsOK
  <2>2. \A i \in Range(chains[c]) : i \in DOMAIN loaded
    BY <2>1, ElementsIn
  <2> QED
    BY <2>1, <2>2 DEF SameLoaded
<1>2. \A i \in DOMAIN loaded2 : loaded2[i].chain \in DOMAIN chains /\ i \in Range(chains[loaded2[i].chain])
  BY DEF ChainsOK, SameLoaded
<1>3. \A c \in DOMAIN chains :
        chains[c] \in Seq(DOMAIN loaded2) /\ chains[c] # <<>> /\ Nodup(chains[c])
  BY DEF ChainsOK, SameLoaded
<1>4. DOMAIN chains \subseteq 1..(MaxChat + MaxId)
  BY DEF ChainsOK
<1> QED
  BY <1>1, <1>2, <1>3, <1>4 DEF ChainsOK

(* on_update_error for an update that is sent again. *)
Keeps(h, g) ==
  g.offset = h.offset /\ g.empty = h.empty /\ g.chains = h.chains /\ SameLoaded(h.loaded, g.loaded)

(* The update is sent again: its chain waits for its new wake-up. *)
LEMMA RetriedIs ==
  ASSUME NEW h, NEW n \in Nat, HookOK(h, n), NEW c \in DOMAIN h.chains, c \notin Range(h.due),
         NEW retry_after \in RetryAfter, NEW g, g = Retried(h, Head(h.chains[c]), retry_after)
  PROVE  /\ IsHook(g) /\ g.conns = h.conns /\ Keeps(h, g) /\ LoadedOK(g.loaded, n)
         /\ ChainsOK(g.loaded, g.chains)
         /\ DueOK(g.loaded, g.chains, g.due)
         /\ Range(g.due) = Range(h.due) \cup {c}
<1>0. /\ IsHook(h) /\ LoadedOK(h.loaded, n) /\ ChainsOK(h.loaded, h.chains)
      /\ DueOK(h.loaded, h.chains, h.due)
  BY DEF HookOK
<1>1. PICK id : id = Head(h.chains[c])
  OBVIOUS
<1>2. id \in DOMAIN h.loaded /\ h.loaded[id].chain = c
  BY <1>0, <1>1, Heads
<1>3. PICK u : u = h.loaded[id]
  OBVIOUS
<1>4. u \in LoadedType(n)
  BY <1>0, <1>2, <1>3 DEF LoadedOK
<1>5. PICK v : v = [u EXCEPT !.delay = NextDelay(u, retry_after), !.failed = TRUE,
                             !.wake = EffectiveDelay(u, retry_after)]
  OBVIOUS
<1>6. v \in LoadedType(n) /\ v.data = u.data /\ v.chain = u.chain
  BY <1>4, <1>5, DelayIs DEF LoadedType
<1>7. PICK loaded2 : loaded2 = [h.loaded EXCEPT ![id] = v]
  OBVIOUS
<1>8. PICK m : m = [h EXCEPT !.loaded[id] = v]
  OBVIOUS
<1>9. m = [h EXCEPT !.loaded = loaded2]
  BY <1>0, <1>7, <1>8 DEF IsHook
<1>10. /\ IsHook(m) /\ m.offset = h.offset /\ m.empty = h.empty /\ m.told = h.told
       /\ m.conns = h.conns /\ m.loaded = loaded2 /\ m.chains = h.chains /\ m.due = h.due
  BY <1>0, <1>9 DEF IsHook
<1>11. DOMAIN loaded2 = DOMAIN h.loaded /\ \A i \in DOMAIN h.loaded : loaded2[i] = (IF i = id THEN v ELSE h.loaded[i])
  BY <1>7
<1>12. LoadedOK(loaded2, n)
  BY <1>0, <1>6, <1>11 DEF LoadedOK
<1>13. SameLoaded(h.loaded, loaded2)
  BY <1>3, <1>6, <1>11 DEF SameLoaded
<1>14. ChainsOK(loaded2, h.chains)
  BY <1>0, <1>13, SameChains
<1>15. DueOK(loaded2, h.chains, h.due)
  <2>1. ASSUME NEW d \in Range(h.due), d \in DOMAIN h.chains
        PROVE  loaded2[Head(h.chains[d])].wake = h.loaded[Head(h.chains[d])].wake
    <3>1. Head(h.chains[d]) # id /\ Head(h.chains[d]) \in DOMAIN h.loaded
      BY <1>0, <1>1, <2>1, Heads
    <3> QED
      BY <1>11, <3>1
  <2> QED
    BY <1>0, <2>1, DueKept
<1>16. g = Schedule(m, c)
  <2>1. g = Schedule([h EXCEPT !.loaded[id] = [u EXCEPT !.delay = NextDelay(u, retry_after), !.failed = TRUE,
                             !.wake = EffectiveDelay(u, retry_after)]], u.chain)
    BY <1>1, <1>3 DEF Retried
  <2> QED
    BY <1>2, <1>3, <1>5, <1>8, <2>1
<1>17. PICK due : /\ Schedule(m, c) = [m EXCEPT !.due = due]
                  /\ DueOK(m.loaded, m.chains, due) /\ Range(due) = Range(m.due) \cup {c}
  <2>1. /\ LoadedOK(m.loaded, n) /\ ChainsOK(m.loaded, m.chains) /\ DueOK(m.loaded, m.chains, m.due)
        /\ c \in DOMAIN m.chains /\ c \notin Range(m.due)
    BY <1>10, <1>12, <1>14, <1>15
  <2> QED
    BY <1>10, <2>1, ScheduleIs
<1>18. /\ IsHook(g) /\ g.offset = m.offset /\ g.empty = m.empty
       /\ g.conns = m.conns /\ g.loaded = m.loaded /\ g.chains = m.chains /\ g.due = due
  BY <1>10, <1>16, <1>17 DEF IsHook
<1>19. Keeps(h, g)
  BY <1>10, <1>13, <1>18 DEF Keeps
<1> QED
  BY <1>10, <1>12, <1>14, <1>17, <1>18, <1>19

(* on_update_error keeps the state of the sender. *)
LEMMA RetriedOK ==
  ASSUME NEW h, NEW n \in Nat, HookOK(h, n), NEW k \in DOMAIN h.conns, NEW c \in DOMAIN h.chains,
         h.conns[k] = Head(h.chains[c]), c \notin Range(h.due), NEW keep \in BOOLEAN,
         NEW retry_after \in RetryAfter, NEW g,
         g = After(Retried(h, Head(h.chains[c]), retry_after), k, keep)
  PROVE  HookOK(g, n) /\ Keeps(h, g)
<1>1. PICK d : d = Retried(h, Head(h.chains[c]), retry_after)
  OBVIOUS
<1>2. /\ IsHook(d) /\ d.conns = h.conns /\ Keeps(h, d) /\ LoadedOK(d.loaded, n)
      /\ ChainsOK(d.loaded, d.chains)
      /\ DueOK(d.loaded, d.chains, d.due) /\ Range(d.due) = Range(h.due) \cup {c}
  BY <1>1, RetriedIs
<1>4. /\ IsHook(g) /\ g.offset = d.offset /\ g.empty = d.empty /\ g.told = d.told
      /\ g.loaded = d.loaded /\ g.chains = d.chains /\ g.due = d.due
      /\ Freed(d.conns, g.conns, k)
  BY <1>1, <1>2, AfterIs
<1>5. /\ LoadedOK(h.loaded, n) /\ ChainsOK(h.loaded, h.chains) /\ ConnsOK(h.chains, h.due, h.conns)
      /\ h.offset \in 0..(MaxId - 1)
  BY DEF HookOK
<1>7. ConnsOK(g.chains, g.due, g.conns)
  <2>1. Freed(h.conns, g.conns, k) /\ g.chains = h.chains
    BY <1>2, <1>4 DEF Keeps
  <2>3. \A x : x \in Range(g.due) <=> x \in Range(h.due) \/ (x = c /\ x \in DOMAIN g.chains)
    BY <1>2, <1>4, <2>1
  <2> QED
    BY <1>5, <2>1, <2>3, ConnsFreed
<1>8. Keeps(h, g) /\ g.offset \in 0..(MaxId - 1)
  BY <1>2, <1>4, <1>5 DEF Keeps
<1> QED
  BY <1>2, <1>4, <1>7, <1>8 DEF HookOK

(* The end of an idle connection. *)
LEMMA HangupOK ==
  ASSUME NEW h, NEW n \in Nat, HookOK(h, n), NEW k \in DOMAIN h.conns, h.conns[k] = 0,
         NEW g, g = After(h, k, FALSE)
  PROVE  HookOK(g, n) /\ Keeps(h, g)
<1>1. /\ IsHook(g) /\ g.offset = h.offset /\ g.empty = h.empty
      /\ g.loaded = h.loaded /\ g.chains = h.chains /\ g.due = h.due
      /\ Freed(h.conns, g.conns, k)
  BY AfterIs DEF HookOK
<1>2. ConnsOK(g.chains, g.due, g.conns)
  <2>1. ConnsOK(h.chains, h.due, h.conns) /\ \A c \in DOMAIN h.chains : Head(h.chains[c]) # 0
    BY Heads DEF HookOK
  <2>2. ConnsOK(h.chains, h.due, g.conns)
    <3>0. /\ \A j \in DOMAIN g.conns : j \in DOMAIN h.conns /\ g.conns[j] = h.conns[j]
          /\ \A j \in DOMAIN h.conns : h.conns[j] # 0 => j \in DOMAIN g.conns
      BY <1>1 DEF Freed
    <3>1. /\ DOMAIN g.conns \subseteq 1..MaxConnections
          /\ \A i, j \in DOMAIN g.conns : (g.conns[i] = g.conns[j] /\ g.conns[i] # 0) => i = j
      <4>1. DOMAIN h.conns \subseteq 1..MaxConnections
        BY <2>1 DEF ConnsOK
      <4>2. ASSUME NEW i \in DOMAIN g.conns, NEW j \in DOMAIN g.conns, g.conns[i] = g.conns[j], g.conns[i] # 0
            PROVE  i = j
        BY <2>1, <3>0, <4>2 DEF ConnsOK
      <4> QED
        BY <3>0, <4>1, <4>2
    <3>2. \A j \in DOMAIN g.conns :
            g.conns[j] # 0 => \E c \in DOMAIN h.chains : g.conns[j] = Head(h.chains[c]) /\ c \notin Range(h.due)
      BY <2>1, <3>0 DEF ConnsOK
    <3>3. ASSUME NEW c \in DOMAIN h.chains
          PROVE  c \in Range(h.due) \/ \E j \in DOMAIN g.conns : g.conns[j] = Head(h.chains[c])
      BY <2>1, <3>0 DEF ConnsOK
    <3> QED
      BY <3>1, <3>2, <3>3 DEF ConnsOK
  <2> QED
    BY <1>1, <2>2
<1>3. Keeps(h, g)
  BY <1>1 DEF Keeps, SameLoaded
<1> QED
  BY <1>1, <1>2, <1>3 DEF HookOK

(* Of the members outside the chains any may change. *)
LEMMA OtherOK ==
  ASSUME NEW h, NEW n \in Nat, HookOK(h, n), NEW g, IsHook(g), g.offset \in 0..(MaxId - 1),
         g.loaded = h.loaded, g.chains = h.chains, g.due = h.due, g.conns = h.conns
  PROVE  HookOK(g, n)
BY DEF HookOK

(* The sender as start_up leaves it. *)
LEMMA NewHookOK ==
  ASSUME NEW n \in Nat
  PROVE  HookOK(NewHook, n)
<1>1. PICK h : h = NewHook
  OBVIOUS
<1>2. /\ h.offset = 0 /\ h.loaded = <<>> /\ h.chains = <<>> /\ h.due = <<>> /\ h.conns = <<>> /\ IsHook(h)
  BY <1>1 DEF NewHook, IsHook
<1>3. DOMAIN h.loaded = {} /\ DOMAIN h.chains = {} /\ DOMAIN h.conns = {}
  BY <1>2
<1>4. h.offset \in 0..(MaxId - 1)
  <2>1. PICK f \in FreshIds : f \in 1..(MaxId - 2) /\ MaxId \in Nat
    BY IdAssumption
  <2> QED
    BY <1>2, <2>1
<1>5. DueOK(h.loaded, h.chains, h.due)
  <2>1. h.due \in Seq(DOMAIN h.chains) /\ Len(h.due) = 0
    BY <1>2
  <2> QED
    BY <2>1 DEF DueOK, Nodup, ByWake
<1>6. LoadedOK(h.loaded, n) /\ ChainsOK(h.loaded, h.chains) /\ ConnsOK(h.chains, h.due, h.conns)
  BY <1>3 DEF LoadedOK, ChainsOK, ConnsOK
<1> QED
  BY <1>1, <1>2, <1>4, <1>5, <1>6 DEF HookOK

(* More updates may be pushed. *)
LEMMA MoreUpdates ==
  ASSUME NEW h, NEW n \in Nat, NEW m \in Nat, n <= m, HookOK(h, n)
  PROVE  HookOK(h, m)
<1>1. \A x \in 1..n : x \in 1..m
  OBVIOUS
<1>2. \A u \in LoadedType(n) : u \in LoadedType(m)
  BY <1>1 DEF LoadedType
<1> QED
  BY <1>2 DEF HookOK, LoadedOK

(* Time passes: the order of the wake-ups stays. *)
TickedLoaded(loaded) == [id \in DOMAIN loaded |-> [loaded[id] EXCEPT !.wake = Elapsed(loaded[id].wake)]]

(* When time passes all wake-ups come nearer, in the same order. *)
LEMMA TickOK ==
  ASSUME NEW h, NEW n \in Nat, HookOK(h, n), NEW g, IsHook(g), g.offset = h.offset, g.empty = h.empty,
         g.loaded = TickedLoaded(h.loaded), g.chains = h.chains, g.due = h.due, g.conns = h.conns
  PROVE  HookOK(g, n) /\ Keeps(h, g)
<1>0. /\ LoadedOK(h.loaded, n) /\ ChainsOK(h.loaded, h.chains)
      /\ DueOK(h.loaded, h.chains, h.due) /\ ConnsOK(h.chains, h.due, h.conns)
      /\ h.offset \in 0..(MaxId - 1)
  BY DEF HookOK
<1>1. ASSUME NEW u \in LoadedType(n)
      PROVE  LET v == [u EXCEPT !.wake = Elapsed(u.wake)]
             IN  v \in LoadedType(n) /\ v.data = u.data /\ v.chain = u.chain /\ v.wake = Elapsed(u.wake)
  BY DEF LoadedType, Elapsed
<1>2. /\ DOMAIN g.loaded = DOMAIN h.loaded
      /\ \A i \in DOMAIN h.loaded : g.loaded[i] = [h.loaded[i] EXCEPT !.wake = Elapsed(h.loaded[i].wake)]
  BY DEF TickedLoaded
<1>3. \A i \in DOMAIN h.loaded :
        /\ g.loaded[i] \in LoadedType(n) /\ g.loaded[i].data = h.loaded[i].data
        /\ g.loaded[i].chain = h.loaded[i].chain /\ g.loaded[i].wake = Elapsed(h.loaded[i].wake)
  BY <1>0, <1>1, <1>2 DEF LoadedOK
<1>4. LoadedOK(g.loaded, n) /\ SameLoaded(h.loaded, g.loaded)
  BY <1>0, <1>2, <1>3 DEF LoadedOK, SameLoaded
<1>5. ChainsOK(g.loaded, h.chains)
  BY <1>0, <1>4, SameChains
<1>6. DueOK(g.loaded, h.chains, h.due)
  <2>1. PICK w : w = Wakes(h.loaded, h.chains)
    OBVIOUS
  <2>2. PICK v : v = Wakes(g.loaded, h.chains)
    OBVIOUS
  <2>3. h.due \in Seq(DOMAIN h.chains) /\ Nodup(h.due) /\ ByWake(h.due, w)
    BY <1>0, <2>1 DEF DueOK
  <2>4. \A c \in DOMAIN h.chains : v[c] = Elapsed(w[c]) /\ w[c] \in Nat
    <3>1. \A c \in DOMAIN h.chains : Head(h.chains[c]) \in DOMAIN h.loaded
      BY <1>0, Heads
    <3>2. w \in [DOMAIN h.chains -> Nat]
      BY <1>0, <2>1, Heads
    <3> QED
      BY <1>3, <2>1, <2>2, <3>1, <3>2 DEF Wakes
  <2>5. \A i \in 1..Len(h.due) : h.due[i] \in DOMAIN h.chains
    BY <2>3, RangeIs
  <2>6. \A x, y \in Nat : x <= y => Elapsed(x) <= Elapsed(y)
    BY DEF Elapsed
  <2>7. ByWake(h.due, v)
    BY <2>3, <2>4, <2>5, <2>6 DEF ByWake
  <2> QED
    BY <2>2, <2>3, <2>7 DEF DueOK
<1>7. Keeps(h, g)
  BY <1>4 DEF Keeps
<1> QED
  BY <1>0, <1>4, <1>5, <1>6, <1>7 DEF HookOK

-------------------------------------------------------------------------------
(* create_new_connections and send_updates. *)
LEMMA SetToSeqIs ==
  ASSUME NEW S, IsFiniteSet(S)
  PROVE  /\ SetToSeq(S) \in Seq(S) /\ Len(SetToSeq(S)) = Cardinality(S) /\ Nodup(SetToSeq(S))
         /\ Cardinality(S) \in Nat
<1>1. Cardinality(S) \in Nat /\ ExistsBijection(1..Cardinality(S), S)
  BY FS_CardinalityType
<1>2. \E f \in [1..Cardinality(S) -> S] : IsInjective(f)
  BY <1>1 DEF ExistsBijection, Bijection, Injection
<1>3. SetToSeq(S) \in [1..Cardinality(S) -> S] /\ IsInjective(SetToSeq(S))
  BY <1>2 DEF SetToSeq
<1>4. PICK n \in Nat : n = Cardinality(S)
  BY <1>1
<1>5. PICK f \in [1..n -> S] : f = SetToSeq(S) /\ IsInjective(f)
  BY <1>3, <1>4
<1>6. f \in Seq(S) /\ Len(f) = n
  OBVIOUS
<1>7. Nodup(f)
  BY <1>5, <1>6 DEF Nodup, IsInjective
<1> QED
  BY <1>4, <1>5, <1>6, <1>7

Opened(conns, new) ==
  /\ DOMAIN conns \subseteq DOMAIN new /\ DOMAIN new \subseteq 1..MaxConnections
  /\ \A k \in DOMAIN conns : new[k] = conns[k]
  /\ \A k \in DOMAIN new : k \notin DOMAIN conns => new[k] = 0

(* New connections carry nothing. *)
LEMMA ConnsOpened ==
  ASSUME NEW loaded, NEW n \in Nat, LoadedOK(loaded, n), NEW chains, ChainsOK(loaded, chains),
         NEW due, NEW conns, ConnsOK(chains, due, conns), NEW new, Opened(conns, new)
  PROVE  ConnsOK(chains, due, new)
<1>1. ASSUME NEW k \in DOMAIN new, new[k] # 0
      PROVE  k \in DOMAIN conns /\ new[k] = conns[k]
  BY <1>1 DEF Opened
<1>2. ASSUME NEW k \in DOMAIN new, new[k] # 0
      PROVE  \E c \in DOMAIN chains : new[k] = Head(chains[c]) /\ c \notin Range(due)
  BY <1>1, <1>2 DEF ConnsOK
<1>3. ASSUME NEW j \in DOMAIN new, NEW k \in DOMAIN new, new[j] = new[k], new[j] # 0 PROVE j = k
  <2>1. j \in DOMAIN conns /\ k \in DOMAIN conns /\ conns[j] = conns[k] /\ conns[j] # 0
    BY <1>1, <1>3
  <2> QED
    BY <2>1 DEF ConnsOK
<1>4. ASSUME NEW c \in DOMAIN chains
      PROVE  c \in Range(due) \/ \E k \in DOMAIN new : new[k] = Head(chains[c])
  <2>1. CASE c \notin Range(due)
    <3>1. PICK k \in DOMAIN conns : conns[k] = Head(chains[c])
      BY <2>1 DEF ConnsOK
    <3> QED
      BY <3>1 DEF Opened
  <2> QED
    BY <2>1
<1>5. DOMAIN new \subseteq 1..MaxConnections
  BY DEF Opened
<1> QED
  BY <1>2, <1>3, <1>4, <1>5 DEF ConnsOK

(* There are no more chains than chats and identifiers. *)
LEMMA FewChains ==
  ASSUME NEW loaded, NEW chains, ChainsOK(loaded, chains)
  PROVE  IsFiniteSet(DOMAIN chains) /\ Cardinality(DOMAIN chains) \in Nat
<1>1. IsFiniteSet(1..(MaxChat + MaxId))
  <2>1. MaxChat + MaxId \in Nat
    BY DeliveryAssumption, IdAssumption
  <2> QED
    BY <2>1, FirstNumbers
<1>2. DOMAIN chains \in SUBSET (1..(MaxChat + MaxId))
  BY DEF ChainsOK
<1>3. IsFiniteSet(DOMAIN chains)
  BY <1>1, <1>2, FS_Subset
<1> QED
  BY <1>3, FS_CardinalityType

(* create_new_connections keeps the state of the sender. *)
LEMMA OpenOK ==
  ASSUME NEW h, NEW n \in Nat, HookOK(h, n), NEW m \in 0..Missing(h),
         NEW g, g = create_new_connections(h, m)
  PROVE  HookOK(g, n) /\ g.offset = h.offset /\ g.empty = h.empty /\ g.told = h.told
         /\ g.loaded = h.loaded /\ g.chains = h.chains /\ g.due = h.due
<1>0. /\ LoadedOK(h.loaded, n) /\ ChainsOK(h.loaded, h.chains) /\ IsHook(h)
      /\ DueOK(h.loaded, h.chains, h.due) /\ ConnsOK(h.chains, h.due, h.conns)
      /\ h.offset \in 0..(MaxId - 1)
  BY DEF HookOK
<1>1. MaxConnections \in Nat /\ MaxConnections >= 1
  BY DeliveryAssumption
<1>2. PICK all : all = 1..MaxConnections
  OBVIOUS
<1>3. IsFiniteSet(all) /\ Cardinality(all) = MaxConnections
  BY <1>1, <1>2, FirstNumbers
<1>4. PICK used : used = DOMAIN h.conns
  OBVIOUS
<1>5. used \in SUBSET all
  BY <1>0, <1>2, <1>4 DEF ConnsOK
<1>6. IsFiniteSet(used) /\ Cardinality(used) \in Nat
  BY <1>3, <1>5, FS_Subset, FS_CardinalityType
<1>7. PICK rest : rest = all \ used
  OBVIOUS
<1>8. IsFiniteSet(rest) /\ Cardinality(rest) = MaxConnections - Cardinality(used)
  <2>1. all \cap used = used
    BY <1>5
  <2> QED
    BY <1>3, <1>7, <2>1, FS_Difference
<1>9. PICK free : free = SetToSeq(rest)
  OBVIOUS
<1>10. free \in Seq(rest) /\ Len(free) = MaxConnections - Cardinality(used)
  BY <1>8, <1>9, SetToSeqIs
<1>11. Missing(h) = 0 \/ Missing(h) <= MaxConnections - Cardinality(used)
  <2>1. Cardinality(DOMAIN h.chains) \in Nat
    BY <1>0, FewChains
  <2>2. Need(h) \in Nat /\ Need(h) <= MaxConnections
    BY <1>1, <2>1 DEF Need
  <2>3. PICK x \in Nat : x = Need(h)
    BY <2>2
  <2>4. PICK y \in Nat : y = Cardinality(used)
    BY <1>6
  <2>5. Missing(h) = IF x > y THEN x - y ELSE 0
    BY <1>4, <2>3, <2>4 DEF Missing
  <2>6. Missing(h) = 0 \/ Missing(h) <= MaxConnections - y
    BY <1>1, <2>2, <2>3, <2>5
  <2> QED
    BY <2>4, <2>6
<1>12. Missing(h) \in Int
  <2>1. Cardinality(DOMAIN h.chains) \in Nat
    BY <1>0, FewChains
  <2>2. Need(h) \in Nat
    BY <1>1, <2>1 DEF Need
  <2> QED
    BY <1>4, <1>6, <2>2 DEF Missing
<1>13. \A k \in 1..m : k \in 1..Len(free)
  BY <1>1, <1>6, <1>10, <1>11, <1>12
<1>14. \A k \in 1..m : free[k] \in all /\ free[k] \notin used
  BY <1>7, <1>10, <1>13, RangeIs
<1>15. PICK new : new = {free[k] : k \in 1..m}
  OBVIOUS
<1>16. \A c \in new : c \in all /\ c \notin used
  BY <1>14, <1>15
<1>17. PICK conns : conns = [c \in DOMAIN h.conns \cup new |-> IF c \in new THEN 0 ELSE h.conns[c]]
  OBVIOUS
<1>18. Opened(h.conns, conns)
  BY <1>2, <1>4, <1>5, <1>16, <1>17 DEF Opened
<1>19. g = [h EXCEPT !.conns = conns]
  <2>1. g = [h EXCEPT !.conns = [c \in DOMAIN h.conns \cup new |-> IF c \in new THEN 0 ELSE h.conns[c]]]
    BY <1>0, <1>2, <1>4, <1>7, <1>9, <1>15 DEF create_new_connections, IsHook
  <2> QED
    BY <1>17, <2>1
<1>20. /\ IsHook(g) /\ g.offset = h.offset /\ g.empty = h.empty /\ g.told = h.told
       /\ g.loaded = h.loaded /\ g.chains = h.chains /\ g.due = h.due /\ g.conns = conns
  BY <1>0, <1>19 DEF IsHook
<1>21. ConnsOK(h.chains, h.due, conns)
  BY <1>0, <1>18, ConnsOpened
<1> QED
  BY <1>0, <1>20, <1>21 DEF HookOK

(* The chains that are due come first. *)
InWakeOrder(D, w, x, A) ==
  /\ w \in [D -> Nat] /\ x \in Seq(D) /\ ByWake(x, w)
  /\ \A d \in Range(x) : d \in A <=> w[d] = 0

(* The chains that are due now are the first ones of queues_. *)
LEMMA ZeroFirst ==
  ASSUME NEW D, NEW w, NEW x, NEW A, InWakeOrder(D, w, x, A)
  PROVE  /\ Len(Select(x, A)) \in 0..Len(x)
         /\ \A k \in 1..Len(Select(x, A)) : Select(x, A)[k] = x[k]
<1> USE DEF InWakeOrder
<1> DEFINE First(s) == /\ Len(Select(s, A)) \in 0..Len(s)
                       /\ \A k \in 1..Len(Select(s, A)) : Select(s, A)[k] = s[k]
                       /\ (\A i \in 1..Len(s) : s[i] \in A) => Select(s, A) = s
           Fine(s) == ByWake(s, w) /\ \A i \in 1..Len(s) : s[i] \in A <=> w[s[i]] = 0
           G == {s \in Seq(D) : Fine(s) => First(s)}
<1>1. <<>> \in G
  <2>1. Select(<<>>, A) = <<>> /\ <<>> \in Seq(D) /\ Len(<<>>) = 0
    BY SelectEmpty, EmptySeq
  <2>2. First(<<>>)
    BY <2>1
  <2> QED
    BY <2>1, <2>2
<1>2. ASSUME NEW s \in Seq(D), NEW e \in D, s \in G PROVE Append(s, e) \in G
  <2>1. PICK r \in Seq(D) : /\ r = Append(s, e) /\ Len(r) = Len(s) + 1
                            /\ r[Len(s) + 1] = e /\ \A i \in 1..Len(s) : r[i] = s[i]
    <3>1. PICK r \in Seq(D) : r = Append(s, e)
      BY RangeAppend
    <3>2. Len(r) = Len(s) + 1 /\ r[Len(s) + 1] = e /\ \A i \in 1..Len(s) : r[i] = s[i]
      BY <3>1, AppendProperties, LenProperties
    <3> QED
      BY <3>1, <3>2
  <2>2. Len(s) \in Nat /\ (\A i \in 1..Len(s) : i \in 1..Len(r) /\ i < Len(s) + 1) /\ Len(s) + 1 \in 1..Len(r)
    BY <2>1, LenProperties
  <2>3. SUFFICES ASSUME Fine(r) PROVE First(r)
    BY <2>1
  <2>4. ByWake(s, w) /\ \A i \in 1..Len(s) : s[i] \in A <=> w[s[i]] = 0
    BY <2>1, <2>2, <2>3 DEF ByWake
  <2>5. First(s)
    BY <1>2, <2>4
  <2>6. PICK q \in Seq(D) : q = Select(s, A)
    BY SelectRange
  <2>7. /\ Len(q) \in 0..Len(s) /\ (\A k \in 1..Len(q) : q[k] = s[k])
        /\ (\A i \in 1..Len(s) : s[i] \in A) => q = s
    BY <2>5, <2>6
  <2>8. Select(r, A) = IF e \in A THEN Append(q, e) ELSE q
    BY <2>1, <2>6, SelectAppend
  <2>9. CASE e \in A
    <3>1. w[e] = 0
      BY <2>1, <2>2, <2>3, <2>9
    <3>2. \A i \in 1..Len(s) : w[s[i]] <= w[e]
      BY <2>1, <2>2, <2>3 DEF ByWake
    <3>3. \A i \in 1..Len(s) : w[s[i]] \in Nat
      BY RangeIs
    <3>4. \A i \in 1..Len(s) : s[i] \in A
      BY <2>4, <3>1, <3>2, <3>3
    <3>5. Select(r, A) = r
      BY <2>1, <2>7, <2>8, <2>9, <3>4
    <3> QED
      BY <2>1, <2>2, <3>5
  <2>10. CASE e \notin A
    <3>1. Select(r, A) = q
      BY <2>8, <2>10
    <3>2. Len(q) \in 0..Len(r) /\ \A k \in 1..Len(q) : q[k] = r[k]
      BY <2>1, <2>2, <2>7
    <3>3. ~(\A i \in 1..Len(r) : r[i] \in A)
      BY <2>1, <2>2, <2>10
    <3> QED
      BY <3>1, <3>2, <3>3
  <2> QED
    BY <2>9, <2>10
<1>3. \A s \in Seq(D) : s \in G
  <2> HIDE DEF G
  <2> QED
    BY <1>1, <1>2, SeqInduction
<1>4. Fine(x)
  BY RangeIs
<1>5. First(x)
  BY <1>3, <1>4
<1> QED
  BY <1>5

IsRest(s, m, r) == r = SubSeq(s, m + 1, Len(s))

(* The first m chains that wait are sent on the connections idle. *)
Sends(chains, due, conns, due2, conns2, idle, m) ==
  /\ IsRest(due, m, due2) /\ DOMAIN conns2 = DOMAIN conns
  /\ \A i \in 1..m : idle[i] \in DOMAIN conns /\ conns[idle[i]] = 0 /\ conns2[idle[i]] = Head(chains[due[i]])
  /\ \A k \in DOMAIN conns : (\E i \in 1..m : idle[i] = k) \/ conns2[k] = conns[k]
  /\ \A i, j \in 1..m : idle[i] = idle[j] => i = j

(* A sequence without its first m elements. *)
LEMMA RestIs ==
  ASSUME NEW S, NEW s \in Seq(S), NEW m \in 0..Len(s), NEW r, IsRest(s, m, r)
  PROVE  /\ r \in Seq(S) /\ Len(r) = Len(s) - m
         /\ \A k \in 1..Len(r) : r[k] = s[m + k] /\ m + k \in 1..Len(s)
         /\ \A e : e \in Range(r) <=> \E k \in (m + 1)..Len(s) : e = s[k]
<1>1. Len(s) \in Nat /\ m \in Nat
  BY LenProperties
<1>2. PICK i \in 1..(Len(s) + 1) : i = m + 1
  BY <1>1
<1>3. PICK j \in (i - 1)..Len(s) : j = Len(s)
  BY <1>1, <1>2
<1>4. r = SubSeq(s, i, j)
  BY <1>2, <1>3 DEF IsRest
<1>5. /\ r \in Seq(S) /\ Len(r) = j - i + 1
      /\ \A k \in 1..(j - i + 1) : r[k] = s[i + k - 1] /\ i + k - 1 \in i..j
  BY <1>1, <1>4, SubSeqIs
<1>6. \A e : e \in Range(r) <=> \E k \in i..j : e = s[k]
  BY <1>1, <1>4, SubSeqIs
<1>7. j - i + 1 = Len(s) - m /\ \A k \in 1..(Len(s) - m) : i + k - 1 = m + k /\ m + k \in 1..Len(s)
  BY <1>1, <1>2, <1>3
<1> QED
  BY <1>2, <1>3, <1>5, <1>6, <1>7

(* The chains that are left wait in the same order. *)
LEMMA DueSent ==
  ASSUME NEW loaded, NEW chains, NEW due, DueOK(loaded, chains, due), NEW m \in 0..Len(due),
         NEW due2, IsRest(due, m, due2)
  PROVE  /\ DueOK(loaded, chains, due2)
         /\ \A c : c \in Range(due2) <=> \E i \in (m + 1)..Len(due) : c = due[i]
<1>1. /\ due \in Seq(DOMAIN chains) /\ Nodup(due) /\ ByWake(due, Wakes(loaded, chains))
      /\ Len(due) \in Nat /\ m \in Nat
  BY LenProperties DEF DueOK
<1>4. /\ due2 \in Seq(DOMAIN chains) /\ Len(due2) = Len(due) - m
      /\ \A k \in 1..Len(due2) : due2[k] = due[m + k] /\ m + k \in 1..Len(due)
      /\ \A c : c \in Range(due2) <=> \E k \in (m + 1)..Len(due) : c = due[k]
  BY <1>1, RestIs
<1>5. \A k \in 1..Len(due2) : k \in Nat
  OBVIOUS
<1>6. Nodup(due2)
  <2>1. ASSUME NEW i \in 1..Len(due2), NEW j \in 1..Len(due2), due2[i] = due2[j] PROVE i = j
    <3>1. m + i = m + j
      BY <1>1, <1>4, <2>1 DEF Nodup
    <3> QED
      BY <1>1, <1>5, <3>1
  <2> QED
    BY <2>1 DEF Nodup
<1>7. ByWake(due2, Wakes(loaded, chains))
  <2>1. ASSUME NEW i \in 1..Len(due2), NEW j \in 1..Len(due2), i < j
        PROVE  Wakes(loaded, chains)[due2[i]] <= Wakes(loaded, chains)[due2[j]]
    <3>1. m + i < m + j
      BY <1>1, <1>5, <2>1
    <3> QED
      BY <1>1, <1>4, <3>1 DEF ByWake
  <2> QED
    BY <2>1 DEF ByWake
<1> QED
  BY <1>4, <1>6, <1>7 DEF DueOK

(* A chain that is sent no longer waits: it is on one connection. *)
LEMMA ConnsSent ==
  ASSUME NEW loaded, NEW n \in Nat, LoadedOK(loaded, n), NEW chains, ChainsOK(loaded, chains),
         NEW due, DueOK(loaded, chains, due), NEW conns, ConnsOK(chains, due, conns),
         NEW due2, NEW conns2, NEW idle, NEW m \in 0..Len(due),
         Sends(chains, due, conns, due2, conns2, idle, m)
  PROVE  ConnsOK(chains, due2, conns2)
<1>1. /\ \A d \in DOMAIN chains : Head(chains[d]) # 0
      /\ \A d, e \in DOMAIN chains : Head(chains[d]) = Head(chains[e]) => d = e
  BY Heads
<1>2. due \in Seq(DOMAIN chains) /\ Nodup(due) /\ Len(due) \in Nat /\ m \in Nat
  BY LenProperties DEF DueOK
<1>3. \A i \in 1..Len(due) : due[i] \in DOMAIN chains /\ due[i] \in Range(due)
  BY <1>2, RangeIs
<1>4. \A c : c \in Range(due2) <=> \E i \in (m + 1)..Len(due) : c = due[i]
  <2>1. IsRest(due, m, due2)
    BY DEF Sends
  <2> QED
    BY <2>1, DueSent
<1>5. /\ \A i \in 1..m : i \in 1..Len(due)
      /\ \A i \in (m + 1)..Len(due) : i \in 1..Len(due) /\ i \notin 1..m
      /\ \A i \in 1..Len(due) : i \in 1..m \/ i \in (m + 1)..Len(due)
  BY <1>2
<1>6. \A i \in 1..m : due[i] \notin Range(due2)
  BY <1>2, <1>4, <1>5 DEF Nodup
<1>7. \A c \in Range(due2) : c \in Range(due)
  BY <1>3, <1>4, <1>5
<1>8. ASSUME NEW k \in DOMAIN conns2, conns2[k] # 0
      PROVE  \/ \E i \in 1..m : idle[i] = k /\ conns2[k] = Head(chains[due[i]])
             \/ conns2[k] = conns[k] /\ \E c \in DOMAIN chains : conns[k] = Head(chains[c]) /\ c \notin Range(due)
  <2>1. CASE \E i \in 1..m : idle[i] = k
    BY <2>1 DEF Sends
  <2>2. CASE conns2[k] = conns[k] /\ k \in DOMAIN conns
    BY <1>8, <2>2 DEF ConnsOK
  <2> QED
    BY <2>1, <2>2 DEF Sends
<1>9. ASSUME NEW k \in DOMAIN conns2, conns2[k] # 0
      PROVE  \E c \in DOMAIN chains : conns2[k] = Head(chains[c]) /\ c \notin Range(due2)
  <2>1. CASE \E i \in 1..m : idle[i] = k /\ conns2[k] = Head(chains[due[i]])
    BY <1>3, <1>5, <1>6, <2>1
  <2>2. CASE conns2[k] = conns[k] /\ \E c \in DOMAIN chains : conns[k] = Head(chains[c]) /\ c \notin Range(due)
    BY <1>7, <2>2
  <2> QED
    BY <1>8, <1>9, <2>1, <2>2
<1>10. ASSUME NEW j \in DOMAIN conns2, NEW k \in DOMAIN conns2, conns2[j] = conns2[k], conns2[j] # 0
       PROVE  j = k
  <2>1. CASE /\ \E i \in 1..m : idle[i] = j /\ conns2[j] = Head(chains[due[i]])
             /\ \E i \in 1..m : idle[i] = k /\ conns2[k] = Head(chains[due[i]])
    <3>1. PICK a \in 1..m : idle[a] = j /\ conns2[j] = Head(chains[due[a]])
      BY <2>1
    <3>2. PICK b \in 1..m : idle[b] = k /\ conns2[k] = Head(chains[due[b]])
      BY <2>1
    <3>3. due[a] = due[b]
      BY <1>1, <1>3, <1>5, <1>10, <3>1, <3>2
    <3>4. a = b
      BY <1>2, <1>5, <3>3 DEF Nodup
    <3> QED
      BY <3>1, <3>2, <3>4
  <2>2. ASSUME NEW x \in DOMAIN conns2, NEW y \in DOMAIN conns2, conns2[x] = conns2[y],
               \E i \in 1..m : idle[i] = x /\ conns2[x] = Head(chains[due[i]]),
               \E c \in DOMAIN chains : conns2[y] = Head(chains[c]) /\ c \notin Range(due)
        PROVE  FALSE
    <3>1. PICK a \in 1..m : conns2[x] = Head(chains[due[a]])
      BY <2>2
    <3>2. PICK c \in DOMAIN chains : conns2[y] = Head(chains[c]) /\ c \notin Range(due)
      BY <2>2
    <3>3. due[a] = c
      BY <1>1, <1>3, <1>5, <2>2, <3>1, <3>2
    <3> QED
      BY <1>3, <1>5, <3>2, <3>3
  <2>3. CASE conns2[j] = conns[j] /\ conns2[k] = conns[k]
    <3>1. j \in DOMAIN conns /\ k \in DOMAIN conns /\ conns[j] = conns[k] /\ conns[j] # 0
      BY <1>10, <2>3 DEF Sends
    <3> QED
      BY <3>1 DEF ConnsOK
  <2>4. \/ \E i \in 1..m : idle[i] = j /\ conns2[j] = Head(chains[due[i]])
        \/ conns2[j] = conns[j] /\ \E c \in DOMAIN chains : conns2[j] = Head(chains[c]) /\ c \notin Range(due)
    BY <1>8, <1>10
  <2>5. \/ \E i \in 1..m : idle[i] = k /\ conns2[k] = Head(chains[due[i]])
        \/ conns2[k] = conns[k] /\ \E c \in DOMAIN chains : conns2[k] = Head(chains[c]) /\ c \notin Range(due)
    BY <1>8, <1>10
  <2> QED
    BY <1>10, <2>1, <2>2, <2>3, <2>4, <2>5
<1>11. ASSUME NEW c \in DOMAIN chains
       PROVE  c \in Range(due2) \/ \E k \in DOMAIN conns2 : conns2[k] = Head(chains[c])
  <2>1. CASE c \in Range(due)
    <3>1. PICK i \in 1..Len(due) : c = due[i]
      BY <1>2, <2>1, RangeIs
    <3>2. CASE i \in 1..m
      BY <3>1, <3>2 DEF Sends
    <3>3. CASE i \in (m + 1)..Len(due)
      BY <1>4, <3>1, <3>3
    <3> QED
      BY <1>5, <3>2, <3>3
  <2>2. CASE c \notin Range(due)
    <3>1. PICK k \in DOMAIN conns : conns[k] = Head(chains[c])
      BY <2>2 DEF ConnsOK
    <3>2. conns2[k] = conns[k]
      BY <1>1, <3>1 DEF Sends
    <3> QED
      BY <3>1, <3>2 DEF Sends
  <2> QED
    BY <2>1, <2>2
<1>12. DOMAIN conns2 \subseteq 1..MaxConnections
  BY DEF Sends, ConnsOK
<1> QED
  BY <1>9, <1>10, <1>11, <1>12 DEF ConnsOK

Sending(h, idle, now, n) ==
  [h EXCEPT !.due = SubSeq(@, n + 1, Len(@)),
            !.conns = [c \in DOMAIN @ |->
                         IF \E k \in 1..n : idle[k] = c
                         THEN Head(h.chains[now[CHOOSE k \in 1..n : idle[k] = c]])
                         ELSE @[c]]]

(* send_updates keeps the state of the sender. *)
LEMMA SendOK ==
  ASSUME NEW h, NEW n \in Nat, HookOK(h, n), NEW g, g = send_updates(h)
  PROVE  HookOK(g, n) /\ g.offset = h.offset /\ g.empty = h.empty /\ g.told = h.told
         /\ g.loaded = h.loaded /\ g.chains = h.chains
<1>0. /\ LoadedOK(h.loaded, n) /\ ChainsOK(h.loaded, h.chains) /\ IsHook(h)
      /\ DueOK(h.loaded, h.chains, h.due) /\ ConnsOK(h.chains, h.due, h.conns)
      /\ h.offset \in 0..(MaxId - 1)
  BY DEF HookOK
<1>1. PICK free : free = {c \in DOMAIN h.conns : h.conns[c] = 0}
  OBVIOUS
<1>2. IsFiniteSet(free)
  <2>1. IsFiniteSet(1..MaxConnections)
    BY FirstNumbers, DeliveryAssumption
  <2>2. free \in SUBSET (1..MaxConnections)
    BY <1>0, <1>1 DEF ConnsOK
  <2> QED
    BY <2>1, <2>2, FS_Subset
<1>3. PICK idle \in Seq(free) : idle = SetToSeq(free) /\ Nodup(idle) /\ Len(idle) \in Nat
  BY <1>2, SetToSeqIs
<1>4. PICK w : w = Wakes(h.loaded, h.chains)
  OBVIOUS
<1>5. /\ w \in [DOMAIN h.chains -> Nat] /\ \A d \in DOMAIN h.chains : Wake(h, d) = w[d]
      /\ h.due \in Seq(DOMAIN h.chains) /\ ByWake(h.due, w) /\ Len(h.due) \in Nat
  BY <1>0, <1>4, Heads, LenProperties DEF Wakes, Wake, DueOK
<1>6. PICK A : A = {c \in Range(h.due) : Wake(h, c) = 0}
  OBVIOUS
<1>7. \A d \in Range(h.due) : d \in A <=> w[d] = 0
  BY <1>5, <1>6, ElementsIn
<1>8. PICK now : now = Select(h.due, A)
  OBVIOUS
<1>9. Len(now) \in 0..Len(h.due) /\ \A k \in 1..Len(now) : now[k] = h.due[k]
  <2>1. InWakeOrder(DOMAIN h.chains, w, h.due, A)
    BY <1>5, <1>7 DEF InWakeOrder
  <2> QED
    BY <1>8, <2>1, ZeroFirst
<1>10. PICK m : m = IF Len(idle) < Len(now) THEN Len(idle) ELSE Len(now)
  OBVIOUS
<1>11. /\ m \in 0..Len(h.due) /\ \A k \in 1..m : k \in 1..Len(idle) /\ k \in 1..Len(now)
  BY <1>3, <1>5, <1>9, <1>10
<1>12. PICK due : IsRest(h.due, m, due)
  BY DEF IsRest
<1>13. PICK conns : conns = [c \in DOMAIN h.conns |->
                               IF \E k \in 1..m : idle[k] = c
                               THEN Head(h.chains[now[CHOOSE k \in 1..m : idle[k] = c]])
                               ELSE h.conns[c]]
  OBVIOUS
<1>14. g = [h EXCEPT !.due = due, !.conns = conns]
  <2>1. g = Sending(h, SetToSeq({c \in DOMAIN h.conns : h.conns[c] = 0}),
                    Select(h.due, {c \in Range(h.due) : Wake(h, c) = 0}),
                    IF Len(SetToSeq({c \in DOMAIN h.conns : h.conns[c] = 0}))
                         < Len(Select(h.due, {c \in Range(h.due) : Wake(h, c) = 0}))
                    THEN Len(SetToSeq({c \in DOMAIN h.conns : h.conns[c] = 0}))
                    ELSE Len(Select(h.due, {c \in Range(h.due) : Wake(h, c) = 0})))
    BY Zenon DEF send_updates, Sending
  <2>2. g = Sending(h, SetToSeq(free), Select(h.due, A),
                    IF Len(SetToSeq(free)) < Len(Select(h.due, A)) THEN Len(SetToSeq(free)) ELSE Len(Select(h.due, A)))
    BY <1>1, <1>6, <2>1
  <2>3. g = Sending(h, idle, now, m)
    BY <1>3, <1>8, <1>10, <2>2
  <2>4. g = [h EXCEPT !.due = SubSeq(h.due, m + 1, Len(h.due)),
                      !.conns = [c \in DOMAIN h.conns |->
                               IF \E k \in 1..m : idle[k] = c
                               THEN Head(h.chains[now[CHOOSE k \in 1..m : idle[k] = c]])
                               ELSE h.conns[c]]]
    BY <2>3, Zenon DEF Sending
  <2> QED
    BY <1>12, <1>13, <2>4 DEF IsRest
<1>15. /\ IsHook(g) /\ g.offset = h.offset /\ g.empty = h.empty /\ g.told = h.told
       /\ g.loaded = h.loaded /\ g.chains = h.chains /\ g.due = due /\ g.conns = conns
  BY <1>0, <1>14 DEF IsHook
<1>16. \A i, j \in 1..m : idle[i] = idle[j] => i = j
  BY <1>3, <1>11 DEF Nodup
<1>17. \A i \in 1..m : idle[i] \in DOMAIN h.conns /\ h.conns[idle[i]] = 0
  <2>1. \A i \in 1..m : idle[i] \in free
    BY <1>11, RangeIs
  <2> QED
    BY <1>1, <2>1
<1>18. ASSUME NEW i \in 1..m PROVE conns[idle[i]] = Head(h.chains[h.due[i]])
  <2>1. (CHOOSE k \in 1..m : idle[k] = idle[i]) = i
    BY <1>16
  <2>2. now[i] = h.due[i]
    BY <1>9, <1>11
  <2> QED
    BY <1>13, <1>17, <2>1, <2>2
<1>19. Sends(h.chains, h.due, h.conns, due, conns, idle, m)
  <2>1. DOMAIN conns = DOMAIN h.conns
    BY <1>13
  <2>2. \A k \in DOMAIN h.conns : (\E i \in 1..m : idle[i] = k) \/ conns[k] = h.conns[k]
    BY <1>13
  <2> QED
    BY <1>12, <1>16, <1>17, <1>18, <2>1, <2>2 DEF Sends
<1>20. ConnsOK(h.chains, due, conns)
  BY <1>0, <1>11, <1>19, ConnsSent
<1>21. DueOK(h.loaded, h.chains, due)
  BY <1>0, <1>11, <1>12, DueSent
<1> QED
  BY <1>0, <1>15, <1>20, <1>21 DEF HookOK

-------------------------------------------------------------------------------
(* load_updates.  The identifiers of a list of events. *)
IdList(s) == [k \in 1..Len(s) |-> s[k].id]

(* The identifiers of the events of a log. *)
LEMMA IdListIs ==
  ASSUME NEW s, IsLog(s)
  PROVE  /\ IdList(s) \in Seq(1..(MaxId - 2)) /\ Len(IdList(s)) = Len(s) /\ Nodup(IdList(s))
         /\ \A k \in 1..Len(s) : IdList(s)[k] = s[k].id
         /\ \A i : i \in Range(IdList(s)) <=> \E e \in Range(s) : e.id = i
<1>1. /\ s \in Seq(EventType) /\ Sorted(s) /\ Len(s) \in Nat
      /\ \A e \in Range(s) : e \in EventType
  BY LogIs
<1>2. \A k \in 1..Len(s) : s[k] \in Range(s) /\ s[k].id \in 1..(MaxId - 2)
  BY <1>1, RangeIs, EventIs
<1>3. PICK n \in Nat : n = Len(s)
  BY <1>1
<1>4. PICK r : r = [k \in 1..n |-> s[k].id]
  OBVIOUS
<1>5. r = IdList(s)
  BY <1>3, <1>4 DEF IdList
<1>6. r \in Seq(1..(MaxId - 2)) /\ Len(r) = n /\ \A k \in 1..n : r[k] = s[k].id
  BY <1>2, <1>3, <1>4
<1>7. Nodup(r)
  <2>1. ASSUME NEW i \in 1..Len(r), NEW j \in 1..Len(r), r[i] = r[j] PROVE i = j
    <3>1. i \in 1..Len(s) /\ j \in 1..Len(s) /\ s[i].id = s[j].id
      BY <1>3, <1>6, <2>1
    <3> QED
      BY <1>1, <3>1, SortedOnce
  <2> QED
    BY <2>1 DEF Nodup
<1>8. ASSUME NEW i \in Range(r) PROVE \E e \in Range(s) : e.id = i
  <2>1. PICK k \in 1..Len(r) : i = r[k]
    BY <1>6, RangeIs
  <2> QED
    BY <1>2, <1>3, <1>6, <2>1
<1>9. ASSUME NEW e \in Range(s) PROVE e.id \in Range(r)
  <2>1. PICK k \in 1..Len(s) : e = s[k]
    BY <1>1, RangeIs
  <2>2. k \in 1..Len(r) /\ r[k] = e.id
    BY <1>3, <1>6, <2>1
  <2> QED
    BY <1>6, <2>2, RangeIs
<1> QED
  BY <1>3, <1>5, <1>6, <1>7, <1>8, <1>9

(* The events of one chain, in a list of events. *)
OfChain(events, c) == Select(events, {e \in Range(events) : ChainOf(e) = c})

(* The events of a chain, by their elements. *)
LEMMA OfChainIs ==
  ASSUME NEW events, IsLog(events), NEW c
  PROVE  /\ IsLog(OfChain(events, c))
         /\ \A e : e \in Range(OfChain(events, c)) <=> e \in Range(events) /\ ChainOf(e) = c
<1>1. events \in Seq(EventType)
  BY LogIs
<1>2. PICK A : A = {e \in Range(events) : ChainOf(e) = c}
  OBVIOUS
<1>3. PICK r : r = Select(events, A)
  OBVIOUS
<1>4. IsLog(r) /\ Range(r) = Range(events) \cap A
  BY <1>1, <1>3, SelectLog, SelectRange
<1>5. r = OfChain(events, c)
  BY <1>2, <1>3 DEF OfChain
<1> QED
  BY <1>2, <1>4, <1>5

(* The new chains, in the order of their first events. *)
ChainList(s) == [k \in 1..Len(s) |-> ChainOf(s[k])]

(* FirstOfChain has exactly one event of every chain, the first one. *)
LEMMA FirstIs ==
  ASSUME NEW events, IsLog(events)
  PROVE  /\ IsLog(FirstOfChain(events))
         /\ \A e : e \in Range(FirstOfChain(events)) <=>
              e \in Range(events) /\ \A d \in Range(events) : ChainOf(d) = ChainOf(e) => d.id >= e.id
         /\ \A e \in Range(events) : \E f \in Range(FirstOfChain(events)) : ChainOf(f) = ChainOf(e)
         /\ \A e, f \in Range(FirstOfChain(events)) : ChainOf(e) = ChainOf(f) => e = f
<1>1. /\ events \in Seq(EventType)
      /\ \A e \in Range(events) : e.id \in Nat
      /\ \A d, e \in Range(events) : d.id = e.id => d = e
  <2>1. \A e \in Range(events) : e \in EventType
    BY LogIs
  <2> QED
    BY <2>1, LogIs, EventIs
<1>2. PICK A : A = {e \in Range(events) : \A d \in Range(events) : ChainOf(d) = ChainOf(e) => d.id >= e.id}
  OBVIOUS
<1>3. PICK r : r = Select(events, A)
  OBVIOUS
<1>4. IsLog(r) /\ Range(r) = Range(events) \cap A
  BY <1>1, <1>3, SelectLog, SelectRange
<1>5. r = FirstOfChain(events)
  BY <1>2, <1>3 DEF FirstOfChain
<1>6. \A e : e \in Range(r) <=>
        e \in Range(events) /\ \A d \in Range(events) : ChainOf(d) = ChainOf(e) => d.id >= e.id
  BY <1>2, <1>4
<1>7. ASSUME NEW e \in Range(events) PROVE \E f \in Range(r) : ChainOf(f) = ChainOf(e)
  <2>1. PICK T : T = {i \in Nat : \E d \in Range(events) : ChainOf(d) = ChainOf(e) /\ d.id = i}
    OBVIOUS
  <2>2. T \subseteq Nat /\ e.id \in T
    BY <1>1, <2>1
  <2>3. PICK i \in T : \A j \in T : i <= j
    BY <2>2, LeastNatural
  <2>4. PICK f \in Range(events) : ChainOf(f) = ChainOf(e) /\ f.id = i
    BY <2>1, <2>3
  <2>5. \A d \in Range(events) : ChainOf(d) = ChainOf(f) => d.id >= f.id
    <3>1. ASSUME NEW d \in Range(events), ChainOf(d) = ChainOf(f) PROVE d.id >= f.id
      <4>1. d.id \in T
        BY <1>1, <2>1, <2>4, <3>1
      <4>2. i <= d.id /\ i \in Nat /\ d.id \in Nat
        BY <2>2, <2>3, <4>1
      <4> QED
        BY <2>4, <4>2
    <3> QED
      BY <3>1
  <2> QED
    BY <1>6, <2>4, <2>5
<1>8. ASSUME NEW e \in Range(r), NEW f \in Range(r), ChainOf(e) = ChainOf(f) PROVE e = f
  <2>1. e \in Range(events) /\ f \in Range(events) /\ e.id >= f.id /\ f.id >= e.id
    BY <1>6, <1>8
  <2>2. e.id = f.id
    BY <1>1, <2>1
  <2> QED
    BY <1>1, <2>1, <2>2
<1> QED
  BY <1>4, <1>5, <1>6, <1>7, <1>8

(* Unscheduled has exactly one event of every new chain. *)
LEMMA UnscheduledIs ==
  ASSUME NEW h, NEW events, IsLog(events)
  PROVE  /\ IsLog(Unscheduled(h, events))
         /\ \A e \in Range(Unscheduled(h, events)) : e \in Range(events) /\ ChainOf(e) \notin DOMAIN h.chains
         /\ \A e \in Range(events) :
              ChainOf(e) \notin DOMAIN h.chains => \E f \in Range(Unscheduled(h, events)) : ChainOf(f) = ChainOf(e)
         /\ \A e, f \in Range(Unscheduled(h, events)) : ChainOf(e) = ChainOf(f) => e = f
<1>1. PICK s : s = FirstOfChain(events)
  OBVIOUS
<1>2. /\ IsLog(s) /\ s \in Seq(EventType)
      /\ \A e \in Range(s) : e \in Range(events)
      /\ \A e \in Range(events) : \E f \in Range(s) : ChainOf(f) = ChainOf(e)
      /\ \A e, f \in Range(s) : ChainOf(e) = ChainOf(f) => e = f
  BY <1>1, FirstIs, LogIs
<1>3. PICK A : A = {e \in Range(events) : ChainOf(e) \notin DOMAIN h.chains}
  OBVIOUS
<1>4. PICK r : r = Select(s, A)
  OBVIOUS
<1>5. IsLog(r) /\ Range(r) = Range(s) \cap A
  BY <1>2, <1>4, SelectLog, SelectRange
<1>6. r = Unscheduled(h, events)
  BY <1>1, <1>3, <1>4 DEF Unscheduled
<1>7. \A e : e \in Range(r) <=> e \in Range(s) /\ e \in Range(events) /\ ChainOf(e) \notin DOMAIN h.chains
  BY <1>3, <1>5
<1> QED
  BY <1>2, <1>5, <1>6, <1>7

(* The chains of these events, each of them once. *)
LEMMA ChainListIs ==
  ASSUME NEW s, IsLog(s), NEW D, \A e \in Range(s) : ChainOf(e) \in D,
         \A e, f \in Range(s) : ChainOf(e) = ChainOf(f) => e = f
  PROVE  /\ ChainList(s) \in Seq(D) /\ Nodup(ChainList(s))
         /\ \A c : c \in Range(ChainList(s)) <=> \E e \in Range(s) : ChainOf(e) = c
<1>1. s \in Seq(EventType) /\ Sorted(s) /\ Len(s) \in Nat
  BY LogIs
<1>2. \A k \in 1..Len(s) : s[k] \in Range(s) /\ ChainOf(s[k]) \in D
  BY <1>1, RangeIs
<1>3. PICK n \in Nat : n = Len(s)
  BY <1>1
<1>4. PICK r : r = [k \in 1..n |-> ChainOf(s[k])]
  OBVIOUS
<1>5. r = ChainList(s)
  BY <1>3, <1>4 DEF ChainList
<1>6. r \in Seq(D) /\ Len(r) = n /\ \A k \in 1..n : r[k] = ChainOf(s[k])
  BY <1>2, <1>3, <1>4
<1>7. Nodup(r)
  <2>1. ASSUME NEW i \in 1..Len(r), NEW j \in 1..Len(r), r[i] = r[j] PROVE i = j
    <3>1. i \in 1..Len(s) /\ j \in 1..Len(s) /\ s[i] = s[j]
      BY <1>2, <1>3, <1>6, <2>1
    <3> QED
      BY <1>1, <3>1, SortedOnce
  <2> QED
    BY <2>1 DEF Nodup
<1>8. ASSUME NEW c \in Range(r) PROVE \E e \in Range(s) : ChainOf(e) = c
  <2>1. PICK k \in 1..Len(r) : c = r[k]
    BY <1>6, RangeIs
  <2> QED
    BY <1>2, <1>3, <1>6, <2>1
<1>9. ASSUME NEW e \in Range(s) PROVE ChainOf(e) \in Range(r)
  <2>1. PICK k \in 1..Len(s) : e = s[k]
    BY <1>1, RangeIs
  <2>2. k \in 1..Len(r) /\ r[k] = ChainOf(e)
    BY <1>3, <1>6, <2>1
  <2> QED
    BY <1>6, <2>2, RangeIs
<1> QED
  BY <1>5, <1>6, <1>7, <1>8, <1>9

(* What load_updates adds. *)
NewEvents(new, n) == IsLog(new) /\ \A e \in Range(new) : e.data \in 1..n /\ ChainOf(e) \in 1..(MaxChat + MaxId)

Grows(loaded, new, loaded2) ==
  /\ \A i : i \in DOMAIN loaded2 <=> i \in DOMAIN loaded \/ \E e \in Range(new) : e.id = i
  /\ \A i \in DOMAIN loaded : loaded2[i] = loaded[i]
  /\ \A e \in Range(new) : e.id \notin DOMAIN loaded /\ loaded2[e.id] = NewlyLoaded(e)

LongerChains(chains, new, chains2) ==
  /\ \A c : c \in DOMAIN chains2 <=> c \in DOMAIN chains \/ \E e \in Range(new) : ChainOf(e) = c
  /\ \A c \in DOMAIN chains2 :
       chains2[c] = (IF c \in DOMAIN chains THEN chains[c] ELSE <<>>) \o IdList(OfChain(new, c))

(* Every chain gets its events at the end, and no other. *)
LEMMA AppendedIs ==
  ASSUME NEW chains, NEW new, IsLog(new), NEW chains2, chains2 = Appended(chains, new)
  PROVE  LongerChains(chains, new, chains2)
<1>1. new \in Seq(EventType)
  BY LogIs
<1>2. \A c : c \in {ChainOf(new[k]) : k \in 1..Len(new)} <=> \E e \in Range(new) : ChainOf(e) = c
  BY <1>1, RangeIs
<1>3. PICK C : C = DOMAIN chains \cup {ChainOf(new[k]) : k \in 1..Len(new)}
  OBVIOUS
<1>4. chains2 = [c \in C |-> (IF c \in DOMAIN chains THEN chains[c] ELSE <<>>) \o IdList(OfChain(new, c))]
  BY <1>3, Zenon DEF Appended, IdList, OfChain
<1> QED
  BY <1>2, <1>3, <1>4 DEF LongerChains

(* One chain. *)
LEMMA ChainGrows ==
  ASSUME NEW loaded, NEW chains, ChainsOK(loaded, chains), NEW n, NEW new, NewEvents(new, n),
         NEW loaded2, Grows(loaded, new, loaded2), NEW chains2, LongerChains(chains, new, chains2),
         NEW c \in DOMAIN chains2
  PROVE  /\ chains2[c] \in Seq(DOMAIN loaded2) /\ chains2[c] # <<>> /\ Nodup(chains2[c])
         /\ \A i : i \in Range(chains2[c]) <=> \/ c \in DOMAIN chains /\ i \in Range(chains[c])
                                               \/ \E e \in Range(new) : e.id = i /\ ChainOf(e) = c
         /\ c \in DOMAIN chains => Head(chains2[c]) = Head(chains[c])
<1>1. PICK old : old = IF c \in DOMAIN chains THEN chains[c] ELSE <<>>
  OBVIOUS
<1>2. PICK more : more = IdList(OfChain(new, c))
  OBVIOUS
<1>3. chains2[c] = old \o more
  BY <1>1, <1>2 DEF LongerChains
<1>4. old \in Seq(DOMAIN loaded) /\ Nodup(old) /\ (c \in DOMAIN chains => old # <<>>)
  <2>1. CASE c \in DOMAIN chains
    BY <1>1, <2>1 DEF ChainsOK
  <2>2. CASE c \notin DOMAIN chains
    <3>1. old = <<>>
      BY <1>1, <2>2
    <3>2. old \in Seq(DOMAIN loaded) /\ Len(old) = 0
      BY <3>1
    <3> QED
      BY <2>2, <3>2 DEF Nodup
  <2> QED
    BY <2>1, <2>2
<1>5. \A i : i \in Range(old) <=> c \in DOMAIN chains /\ i \in Range(chains[c])
  BY <1>1, NothingInRange
<1>6. PICK l : l = OfChain(new, c)
  OBVIOUS
<1>7. IsLog(l) /\ \A e : e \in Range(l) <=> e \in Range(new) /\ ChainOf(e) = c
  BY <1>6, OfChainIs DEF NewEvents
<1>8. /\ more \in Seq(1..(MaxId - 2)) /\ Nodup(more)
      /\ \A i : i \in Range(more) <=> \E e \in Range(l) : e.id = i
  BY <1>2, <1>6, <1>7, IdListIs
<1>9. \A i \in Range(more) : i \in DOMAIN loaded2 /\ i \notin DOMAIN loaded
  BY <1>7, <1>8 DEF Grows
<1>10. \A i \in Range(old) : i \in DOMAIN loaded2 /\ i \in DOMAIN loaded
  BY <1>4, ElementsIn DEF Grows
<1>11. PICK D : D = DOMAIN loaded2
  OBVIOUS
<1>12. old \in Seq(D) /\ more \in Seq(D)
  BY <1>4, <1>8, <1>9, <1>10, <1>11, SeqWithin
<1>13. PICK s : s = old \o more
  OBVIOUS
<1>14. /\ s \in Seq(D) /\ Range(s) = Range(old) \cup Range(more) /\ Len(s) = Len(old) + Len(more)
       /\ \A i \in 1..Len(old) : s[i] = old[i]
  BY <1>12, <1>13, ConcatKeeps
<1>15. Nodup(s)
  <2>1. Range(old) \cap Range(more) = {}
    BY <1>9, <1>10
  <2> QED
    BY <1>4, <1>8, <1>12, <1>13, <2>1, ConcatKeeps
<1>16. s # <<>>
  <2>1. CASE c \in DOMAIN chains
    <3>1. Range(old) # {}
      BY <1>4, <1>12, <2>1, EmptyRange
    <3> QED
      BY <1>14, <3>1, NothingInRange
  <2>2. CASE c \notin DOMAIN chains
    <3>1. PICK e \in Range(new) : ChainOf(e) = c
      BY <2>2 DEF LongerChains
    <3>2. e.id \in Range(s)
      BY <1>7, <1>8, <1>14, <3>1
    <3> QED
      BY <3>2, NothingInRange
  <2> QED
    BY <2>1, <2>2
<1>17. ASSUME c \in DOMAIN chains PROVE Head(s) = Head(old)
  <2>1. Head(s) = s[1]
    BY <1>14, <1>16, HeadIs
  <2>2. Head(old) = old[1] /\ 1 \in 1..Len(old)
    BY <1>4, <1>17, HeadIs
  <2> QED
    BY <1>14, <2>1, <2>2
<1>18. \A i : i \in Range(s) <=> \/ c \in DOMAIN chains /\ i \in Range(chains[c])
                                \/ \E e \in Range(new) : e.id = i /\ ChainOf(e) = c
  BY <1>5, <1>7, <1>8, <1>14
<1>19. c \in DOMAIN chains => Head(s) = Head(chains[c])
  BY <1>1, <1>17
<1> QED
  BY <1>3, <1>11, <1>13, <1>14, <1>15, <1>16, <1>18, <1>19

(* An update that is loaded now. *)
LEMMA NewlyLoadedIs ==
  ASSUME NEW n \in Nat, NEW new, NewEvents(new, n), NEW e \in Range(new)
  PROVE  /\ NewlyLoaded(e) \in LoadedType(n) /\ NewlyLoaded(e).chain = ChainOf(e)
         /\ NewlyLoaded(e).data = e.data /\ NewlyLoaded(e).wake = 0 /\ e.id \in 1..(MaxId - 2)
<1>1. e.data \in 1..n /\ ChainOf(e) \in 1..(MaxChat + MaxId) /\ IsLog(new)
  BY DEF NewEvents
<1>2. e.id \in 1..(MaxId - 2)
  BY <1>1, LogIs, EventIs
<1> QED
  BY <1>1, <1>2 DEF NewlyLoaded, LoadedType

(* With the new events the chains are chains. *)
LEMMA GrownOK ==
  ASSUME NEW n \in Nat, NEW loaded, LoadedOK(loaded, n), NEW chains, ChainsOK(loaded, chains),
         NEW new, NewEvents(new, n), NEW loaded2, Grows(loaded, new, loaded2),
         NEW chains2, LongerChains(chains, new, chains2)
  PROVE  LoadedOK(loaded2, n) /\ ChainsOK(loaded2, chains2)
<1>1. \A e \in Range(new) : /\ NewlyLoaded(e) \in LoadedType(n) /\ NewlyLoaded(e).chain = ChainOf(e)
                           /\ e.id \in 1..(MaxId - 2)
  BY NewlyLoadedIs
<1>2. ASSUME NEW i \in DOMAIN loaded2
      PROVE  \/ i \in DOMAIN loaded /\ loaded2[i] = loaded[i]
             \/ \E e \in Range(new) : e.id = i /\ loaded2[i] = NewlyLoaded(e)
  BY DEF Grows
<1>3. LoadedOK(loaded2, n)
  BY <1>1, <1>2 DEF LoadedOK
<1>4. ASSUME NEW c \in DOMAIN chains2 PROVE \A i \in Range(chains2[c]) : loaded2[i].chain = c
  <2>1. ASSUME NEW i \in Range(chains2[c]) PROVE loaded2[i].chain = c
    <3>1. CASE c \in DOMAIN chains /\ i \in Range(chains[c])
      <4>1. chains[c] \in Seq(DOMAIN loaded) /\ loaded[i].chain = c
        BY <3>1 DEF ChainsOK
      <4>2. i \in DOMAIN loaded
        BY <3>1, <4>1, ElementsIn
      <4> QED
        BY <4>1, <4>2 DEF Grows
    <3>2. CASE \E e \in Range(new) : e.id = i /\ ChainOf(e) = c
      BY <1>1, <3>2 DEF Grows
    <3> QED
      BY <3>1, <3>2, ChainGrows
  <2> QED
    BY <2>1
<1>5. ASSUME NEW i \in DOMAIN loaded2
      PROVE  loaded2[i].chain \in DOMAIN chains2 /\ i \in Range(chains2[loaded2[i].chain])
  <2>1. CASE i \in DOMAIN loaded /\ loaded2[i] = loaded[i]
    <3>1. loaded[i].chain \in DOMAIN chains /\ i \in Range(chains[loaded[i].chain])
      BY <2>1 DEF ChainsOK
    <3>2. loaded[i].chain \in DOMAIN chains2
      BY <3>1 DEF LongerChains
    <3> QED
      BY <2>1, <3>1, <3>2, ChainGrows
  <2>2. CASE \E e \in Range(new) : e.id = i /\ loaded2[i] = NewlyLoaded(e)
    <3>1. PICK e \in Range(new) : e.id = i /\ loaded2[i] = NewlyLoaded(e)
      BY <2>2
    <3>2. loaded2[i].chain = ChainOf(e) /\ ChainOf(e) \in DOMAIN chains2
      BY <1>1, <3>1 DEF LongerChains
    <3> QED
      BY <3>1, <3>2, ChainGrows
  <2> QED
    BY <1>2, <2>1, <2>2
<1>6. \A c \in DOMAIN chains2 :
        chains2[c] \in Seq(DOMAIN loaded2) /\ chains2[c] # <<>> /\ Nodup(chains2[c])
  BY ChainGrows
<1>7. DOMAIN chains2 \subseteq 1..(MaxChat + MaxId)
  BY DEF LongerChains, NewEvents, ChainsOK
<1> QED
  BY <1>3, <1>4, <1>5, <1>6, <1>7 DEF ChainsOK

(* The new chains are due. *)
LongerDue(h, new, due2) ==
  due2 = Select(h.due, {d \in Range(h.due) : Wake(h, d) = 0}) \o ChainList(Unscheduled(h, new))
           \o Select(h.due, {d \in Range(h.due) : Wake(h, d) > 0})

(* The new chains are due at once, and only they are added. *)
LEMMA DueGrows ==
  ASSUME NEW n \in Nat, NEW h, LoadedOK(h.loaded, n), ChainsOK(h.loaded, h.chains),
         DueOK(h.loaded, h.chains, h.due), NEW new, NewEvents(new, n),
         NEW loaded2, Grows(h.loaded, new, loaded2), NEW chains2, LongerChains(h.chains, new, chains2),
         NEW due2, LongerDue(h, new, due2)
  PROVE  /\ DueOK(loaded2, chains2, due2)
         /\ \A c : c \in Range(due2) <=> c \in Range(h.due) \/ (c \in DOMAIN chains2 /\ c \notin DOMAIN h.chains)
<1>1. LoadedOK(loaded2, n) /\ ChainsOK(loaded2, chains2)
  BY GrownOK
<1>2. \A c \in DOMAIN h.chains : c \in DOMAIN chains2
  BY DEF LongerChains
<1>3. \A c \in DOMAIN h.chains : Head(chains2[c]) = Head(h.chains[c])
  BY <1>2, ChainGrows
<1>4. \A c \in DOMAIN h.chains : Head(h.chains[c]) \in DOMAIN h.loaded
  BY Heads
<1>5. \A c \in DOMAIN h.chains : loaded2[Head(h.chains[c])] = h.loaded[Head(h.chains[c])]
  BY <1>4 DEF Grows
<1>6. DueOK(loaded2, chains2, h.due)
  BY <1>2, <1>3, <1>5, DueKept
<1>7. PICK w : w = Wakes(loaded2, chains2)
  OBVIOUS
<1>8. w \in [DOMAIN chains2 -> Nat]
  BY <1>1, <1>7, Heads
<1>9. \A c \in DOMAIN h.chains : w[c] = Wake(h, c)
  BY <1>2, <1>3, <1>5, <1>7 DEF Wakes, Wake
<1>10. PICK first : first = Unscheduled(h, new)
  OBVIOUS
<1>11. /\ IsLog(first)
       /\ \A e \in Range(first) : e \in Range(new) /\ ChainOf(e) \notin DOMAIN h.chains
       /\ \A e \in Range(new) :
            ChainOf(e) \notin DOMAIN h.chains => \E f \in Range(first) : ChainOf(f) = ChainOf(e)
       /\ \A e, f \in Range(first) : ChainOf(e) = ChainOf(f) => e = f
  BY <1>10, UnscheduledIs DEF NewEvents
<1>12. \A e \in Range(first) : ChainOf(e) \in DOMAIN chains2
  BY <1>11 DEF LongerChains
<1>13. PICK mid : mid = ChainList(first)
  OBVIOUS
<1>14. /\ mid \in Seq(DOMAIN chains2) /\ Nodup(mid)
       /\ \A c : c \in Range(mid) <=> \E e \in Range(first) : ChainOf(e) = c
  BY <1>11, <1>12, <1>13, ChainListIs
<1>15. \A c : c \in Range(mid) <=> c \in DOMAIN chains2 /\ c \notin DOMAIN h.chains
  BY <1>11, <1>12, <1>14 DEF LongerChains
<1>16. ASSUME NEW c \in Range(mid) PROVE w[c] = 0
  <2>1. c \in DOMAIN chains2 /\ c \notin DOMAIN h.chains
    BY <1>15
  <2>2. Head(chains2[c]) \in Range(chains2[c])
    BY <1>1, <2>1, Heads
  <2>3. PICK e \in Range(new) : e.id = Head(chains2[c])
    BY <2>1, <2>2, ChainGrows
  <2>4. loaded2[e.id].wake = 0
    BY NewlyLoadedIs DEF Grows
  <2> QED
    BY <1>7, <2>1, <2>3, <2>4 DEF Wakes
<1>17. h.due \in Seq(DOMAIN h.chains)
  BY DEF DueOK
<1>18. \A d \in Range(h.due) : d \in DOMAIN h.chains /\ d \in DOMAIN chains2
  BY <1>2, <1>17, ElementsIn
<1>19. PICK A : A = {d \in Range(h.due) : Wake(h, d) = 0}
  OBVIOUS
<1>20. PICK B : B = {d \in Range(h.due) : Wake(h, d) > 0}
  OBVIOUS
<1>21. PICK b \in Nat : b = 0
  OBVIOUS
<1>22. Inserting(DOMAIN chains2, w, h.due, mid, b, A, B)
  <2>1. h.due \in Seq(DOMAIN chains2) /\ Nodup(h.due) /\ ByWake(h.due, w)
    BY <1>6, <1>7 DEF DueOK
  <2>2. \A d \in Range(mid) : d \notin Range(h.due) /\ w[d] = b
    BY <1>15, <1>16, <1>18, <1>21
  <2>3. \A d \in Range(h.due) : w[d] = Wake(h, d) /\ w[d] \in Nat
    BY <1>8, <1>9, <1>18
  <2>4. \A d \in Range(h.due) : (d \in A <=> w[d] <= b) /\ (d \in B <=> w[d] > b)
    BY <1>19, <1>20, <1>21, <2>3
  <2> QED
    BY <1>8, <1>14, <1>21, <2>1, <2>2, <2>4 DEF Inserting
<1>23. PICK t : Insertion(DOMAIN chains2, w, h.due, mid, A, B, t)
  BY <1>22, Inserted
<1>24. due2 = t
  BY <1>10, <1>13, <1>19, <1>20, <1>23 DEF Insertion, LongerDue
<1>25. DueOK(loaded2, chains2, due2)
  BY <1>7, <1>23, <1>24 DEF Insertion, DueOK
<1>26. Range(due2) = Range(h.due) \cup Range(mid)
  BY <1>23, <1>24 DEF Insertion
<1> QED
  BY <1>15, <1>25, <1>26

(* The connections carry the same first updates. *)
LEMMA ConnsGrow ==
  ASSUME NEW loaded, NEW chains, ChainsOK(loaded, chains), NEW n, NEW new, NewEvents(new, n),
         NEW loaded2, Grows(loaded, new, loaded2), NEW chains2, LongerChains(chains, new, chains2),
         NEW due, NEW conns, ConnsOK(chains, due, conns), NEW due2,
         \A c : c \in Range(due2) <=> c \in Range(due) \/ (c \in DOMAIN chains2 /\ c \notin DOMAIN chains)
  PROVE  ConnsOK(chains2, due2, conns)
<1>1. \A c \in DOMAIN chains : c \in DOMAIN chains2
  BY DEF LongerChains
<1>2. \A c \in DOMAIN chains : Head(chains2[c]) = Head(chains[c])
  BY <1>1, ChainGrows
<1>3. ASSUME NEW k \in DOMAIN conns, conns[k] # 0
      PROVE  \E c \in DOMAIN chains2 : conns[k] = Head(chains2[c]) /\ c \notin Range(due2)
  <2>1. PICK c \in DOMAIN chains : conns[k] = Head(chains[c]) /\ c \notin Range(due)
    BY <1>3 DEF ConnsOK
  <2> QED
    BY <1>1, <1>2, <2>1
<1>4. ASSUME NEW c \in DOMAIN chains2
      PROVE  c \in Range(due2) \/ \E k \in DOMAIN conns : conns[k] = Head(chains2[c])
  <2>1. CASE c \in DOMAIN chains /\ c \notin Range(due)
    <3>1. PICK k \in DOMAIN conns : conns[k] = Head(chains[c])
      BY <2>1 DEF ConnsOK
    <3> QED
      BY <1>2, <2>1, <3>1
  <2> QED
    BY <2>1
<1>5. /\ DOMAIN conns \subseteq 1..MaxConnections
      /\ \A j, k \in DOMAIN conns : (conns[j] = conns[k] /\ conns[j] # 0) => j = k
  BY DEF ConnsOK
<1> QED
  BY <1>3, <1>4, <1>5 DEF ConnsOK

(* Load. *)
Loading(h, new, first) ==
  [h EXCEPT
     !.loaded = [id \in DOMAIN @ \cup Ids(new) |->
                   IF id \in DOMAIN @ THEN @[id]
                   ELSE NewlyLoaded(CHOOSE e \in Range(new) : e.id = id)],
     !.offset = IF new = <<>> THEN @ ELSE Last(new).id + 1,
     !.chains = Appended(@, new),
     !.due    = Select(h.due, {d \in Range(h.due) : Wake(h, d) = 0})
                \o ChainList(first)
                \o Select(h.due, {d \in Range(h.due) : Wake(h, d) > 0})]

(* The updates that Load adds. *)
LEMMA GrowsIs ==
  ASSUME NEW loaded, NEW new, IsLog(new), \A e \in Range(new) : e.id \notin DOMAIN loaded, NEW loaded2,
         loaded2 = [id \in DOMAIN loaded \cup Ids(new) |->
                      IF id \in DOMAIN loaded THEN loaded[id]
                      ELSE NewlyLoaded(CHOOSE e \in Range(new) : e.id = id)]
  PROVE  Grows(loaded, new, loaded2)
<1>1. \A i : i \in Ids(new) <=> \E e \in Range(new) : e.id = i
  BY LogIs, IdsAre
<1>2. \A i \in DOMAIN loaded : loaded2[i] = loaded[i]
  OBVIOUS
<1>3. ASSUME NEW e \in Range(new) PROVE loaded2[e.id] = NewlyLoaded(e)
  <2>1. (CHOOSE d \in Range(new) : d.id = e.id) = e
    BY LogIs
  <2>2. e.id \in Ids(new) /\ e.id \notin DOMAIN loaded
    BY <1>1
  <2> QED
    BY <2>1, <2>2
<1> QED
  BY <1>1, <1>2, <1>3 DEF Grows

(* The identifiers after the ones of new. *)
Beyond(old, new, offset) ==
  \/ new = <<>> /\ offset = old
  \/ \E e \in Range(new) : offset = e.id + 1 /\ \A d \in Range(new) : d.id <= e.id

Loads(h, new, g) ==
  /\ g.empty = h.empty /\ g.told = h.told
  /\ Beyond(h.offset, new, g.offset)
  /\ Grows(h.loaded, new, g.loaded) /\ LongerChains(h.chains, new, g.chains)

(* tqueue_offset_ is above the last event loaded. *)
LEMMA BeyondIs ==
  ASSUME NEW old, NEW new, IsLog(new), NEW offset, offset = IF new = <<>> THEN old ELSE Last(new).id + 1
  PROVE  Beyond(old, new, offset)
<1>1. CASE new = <<>>
  BY <1>1 DEF Beyond
<1>2. CASE new # <<>>
  <2>1. new \in Seq(EventType) /\ Sorted(new) /\ Len(new) \in Nat
    BY LogIs
  <2>2. Len(new) # 0 /\ Len(new) \in 1..Len(new)
    BY <1>2, <2>1, EmptySeq
  <2>3. PICK e : e = new[Len(new)]
    OBVIOUS
  <2>4. e \in Range(new) /\ offset = e.id + 1
    BY <1>2, <2>1, <2>2, <2>3, RangeIs DEF Last
  <2>5. ASSUME NEW d \in Range(new) PROVE d.id <= e.id
    <3>1. PICK i \in 1..Len(new) : d = new[i]
      BY <2>1, RangeIs
    <3>2. d.id \in Int /\ e.id \in Int
      BY <2>4, LogIs
    <3>3. i = Len(new) \/ i < Len(new)
      BY <2>1
    <3> QED
      BY <2>1, <2>2, <2>3, <3>1, <3>2, <3>3 DEF Sorted
  <2> QED
    BY <2>4, <2>5 DEF Beyond
<1> QED
  BY <1>1, <1>2

(* Unloaded, by the elements of the events. *)
LEMMA UnloadedIs ==
  ASSUME NEW h, NEW events, IsLog(events)
  PROVE  /\ IsLog(Unloaded(h, events))
         /\ \A e : e \in Range(Unloaded(h, events)) <=> e \in Range(events) /\ e.id \notin DOMAIN h.loaded
<1>1. events \in Seq(EventType)
  BY LogIs
<1>2. PICK A : A = {e \in Range(events) : e.id \notin DOMAIN h.loaded}
  OBVIOUS
<1>3. PICK r : r = Select(events, A)
  OBVIOUS
<1>4. IsLog(r) /\ Range(r) = Range(events) \cap A
  BY <1>1, <1>3, SelectLog, SelectRange
<1>5. r = Unloaded(h, events)
  BY <1>2, <1>3 DEF Unloaded
<1> QED
  BY <1>2, <1>4, <1>5

(* Load keeps the state of the sender. *)
LEMMA LoadOK ==
  ASSUME NEW n \in Nat, NEW h, HookOK(h, n), NEW events, NewEvents(events, n), NEW g, g = Load(h, events)
  PROVE  HookOK(g, n) /\ Loads(h, Unloaded(h, events), g) /\ NewEvents(Unloaded(h, events), n)
<1>0. /\ LoadedOK(h.loaded, n) /\ ChainsOK(h.loaded, h.chains) /\ IsHook(h)
      /\ DueOK(h.loaded, h.chains, h.due) /\ ConnsOK(h.chains, h.due, h.conns)
      /\ h.offset \in 0..(MaxId - 1)
  BY DEF HookOK
<1>1. PICK new : new = Unloaded(h, events)
  OBVIOUS
<1>2. IsLog(new) /\ \A e : e \in Range(new) <=> e \in Range(events) /\ e.id \notin DOMAIN h.loaded
  BY <1>1, UnloadedIs DEF NewEvents
<1>3. NewEvents(new, n)
  BY <1>2 DEF NewEvents
<1>4. PICK first : first = Unscheduled(h, new)
  OBVIOUS
<1>5. g = Loading(h, new, first)
  <2>1. Load(h, events) = Loading(h, Unloaded(h, events), Unscheduled(h, Unloaded(h, events)))
    BY Zenon DEF Load, Loading, ChainList
  <2> QED
    BY <1>1, <1>4, <2>1
<1>6. PICK loaded2 : loaded2 = [id \in DOMAIN h.loaded \cup Ids(new) |->
                      IF id \in DOMAIN h.loaded THEN h.loaded[id]
                      ELSE NewlyLoaded(CHOOSE e \in Range(new) : e.id = id)]
  OBVIOUS
<1>7. PICK offset : offset = IF new = <<>> THEN h.offset ELSE Last(new).id + 1
  OBVIOUS
<1>8. PICK chains2 : chains2 = Appended(h.chains, new)
  OBVIOUS
<1>9. PICK due2 : due2 = Select(h.due, {d \in Range(h.due) : Wake(h, d) = 0}) \o ChainList(first)
                          \o Select(h.due, {d \in Range(h.due) : Wake(h, d) > 0})
  OBVIOUS
<1>10. g = [h EXCEPT !.loaded = loaded2, !.offset = offset, !.chains = chains2, !.due = due2]
  BY <1>5, <1>6, <1>7, <1>8, <1>9 DEF Loading
<1>11. /\ IsHook(g) /\ g.offset = offset /\ g.empty = h.empty /\ g.told = h.told
       /\ g.loaded = loaded2 /\ g.chains = chains2 /\ g.due = due2 /\ g.conns = h.conns
  BY <1>0, <1>10 DEF IsHook
<1>12. Grows(h.loaded, new, loaded2)
  BY <1>2, <1>6, GrowsIs
<1>13. LongerChains(h.chains, new, chains2)
  BY <1>2, <1>8, AppendedIs
<1>14. LoadedOK(loaded2, n) /\ ChainsOK(loaded2, chains2)
  BY <1>0, <1>3, <1>12, <1>13, GrownOK
<1>15. /\ DueOK(loaded2, chains2, due2)
       /\ \A c : c \in Range(due2) <=> c \in Range(h.due) \/ (c \in DOMAIN chains2 /\ c \notin DOMAIN h.chains)
  <2>1. LongerDue(h, new, due2)
    BY <1>4, <1>9 DEF LongerDue
  <2> QED
    BY <1>0, <1>3, <1>12, <1>13, <2>1, DueGrows
<1>16. ConnsOK(chains2, due2, h.conns)
  BY <1>0, <1>3, <1>12, <1>13, <1>15, ConnsGrow
<1>17. Beyond(h.offset, new, offset)
  BY <1>2, <1>7, BeyondIs
<1>18. offset \in 0..(MaxId - 1)
  <2>1. CASE offset = h.offset
    BY <1>0, <2>1
  <2>2. CASE \E e \in Range(new) : offset = e.id + 1
    <3>1. PICK e \in Range(new) : offset = e.id + 1
      BY <2>2
    <3>2. e.id \in 1..(MaxId - 2)
      BY <1>3, NewlyLoadedIs
    <3>3. MaxId \in Nat
      BY IdAssumption
    <3> QED
      BY <3>1, <3>2, <3>3
  <2> QED
    BY <1>17, <2>1, <2>2 DEF Beyond
<1>19. Loads(h, new, g)
  BY <1>11, <1>12, <1>13, <1>17 DEF Loads
<1> QED
  BY <1>1, <1>3, <1>11, <1>14, <1>15, <1>16, <1>18, <1>19 DEF HookOK

(* The updates of a chain come in the order they were pushed. *)
InChainOrder(loaded, chains) ==
  \A c \in DOMAIN chains : \A i, j \in 1..Len(chains[c]) :
    i < j => loaded[chains[c][i]].data < loaded[chains[c][j]].data

Newer(loaded, new) == \A i \in DOMAIN loaded : \A e \in Range(new) : loaded[i].data < e.data

(* A chain is in the order of its updates when newer ones are added. *)
LEMMA OrderGrows ==
  ASSUME NEW n \in Nat, NEW loaded, LoadedOK(loaded, n), NEW chains, ChainsOK(loaded, chains),
         NEW new, NewEvents(new, n),
         NEW loaded2, Grows(loaded, new, loaded2), NEW chains2, LongerChains(chains, new, chains2),
         InChainOrder(loaded, chains), Newer(loaded, new)
  PROVE  InChainOrder(loaded2, chains2)
<1>1. SUFFICES ASSUME NEW c \in DOMAIN chains2, NEW i \in 1..Len(chains2[c]), NEW j \in 1..Len(chains2[c]), i < j
               PROVE  loaded2[chains2[c][i]].data < loaded2[chains2[c][j]].data
  BY DEF InChainOrder
<1>2. PICK old : old = IF c \in DOMAIN chains THEN chains[c] ELSE <<>>
  OBVIOUS
<1>3. PICK l : l = OfChain(new, c)
  OBVIOUS
<1>4. IsLog(l) /\ \A e \in Range(l) : e \in Range(new)
  BY <1>3, OfChainIs DEF NewEvents
<1>5. PICK more : more = IdList(l)
  OBVIOUS
<1>6. /\ more \in Seq(1..(MaxId - 2)) /\ Len(more) = Len(l)
      /\ \A k \in 1..Len(l) : more[k] = l[k].id
  BY <1>4, <1>5, IdListIs
<1>7. PICK s : s = chains2[c]
  OBVIOUS
<1>8. s = old \o more
  BY <1>2, <1>3, <1>5, <1>7 DEF LongerChains
<1>9. old \in Seq(DOMAIN loaded) /\ \A x, y \in 1..Len(old) : x < y => loaded[old[x]].data < loaded[old[y]].data
  <2>1. CASE c \in DOMAIN chains
    BY <1>2, <2>1 DEF ChainsOK, InChainOrder
  <2>2. CASE c \notin DOMAIN chains
    <3>1. old = <<>>
      BY <1>2, <2>2
    <3>2. old \in Seq(DOMAIN loaded) /\ Len(old) = 0
      BY <3>1
    <3> QED
      BY <3>2
  <2> QED
    BY <2>1, <2>2
<1>10. PICK D : D = DOMAIN loaded \cup (1..(MaxId - 2))
  OBVIOUS
<1>11. old \in Seq(D) /\ more \in Seq(D)
  <2>1. \A x \in Range(old) : x \in D
    BY <1>9, <1>10, ElementsIn
  <2>2. \A x \in Range(more) : x \in D
    BY <1>6, <1>10, ElementsIn
  <2> QED
    BY <1>6, <1>9, <2>1, <2>2, SeqWithin
<1>12. /\ Len(s) = Len(old) + Len(more)
       /\ \A x \in 1..Len(old) : s[x] = old[x]
       /\ \A x \in 1..Len(more) : s[Len(old) + x] = more[x]
  BY <1>8, <1>11, ConcatKeeps
<1>13. Len(old) \in Nat /\ Len(more) \in Nat
  BY <1>11, LenProperties
<1>14. l \in Seq(EventType) /\ Ordered(l) /\ \A k \in 1..Len(l) : l[k] \in Range(l)
  BY <1>4, LogIs, RangeIs DEF IsLog
<1>15. \A k \in 1..Len(more) : /\ l[k] \in Range(new) /\ loaded2[more[k]].data = l[k].data
                              /\ l[k].data \in Int /\ l[k].data # NoData
  <2>1. \A k \in 1..Len(more) : l[k] \in Range(new) /\ more[k] = l[k].id
    BY <1>4, <1>6, <1>14
  <2>2. \A e \in Range(new) : loaded2[e.id].data = e.data /\ e.data \in Int /\ e.data # NoData
    <3>1. ASSUME NEW e \in Range(new) PROVE loaded2[e.id].data = e.data /\ e.data \in Int /\ e.data # NoData
      <4>1. loaded2[e.id] = NewlyLoaded(e) /\ NewlyLoaded(e).data = e.data
        BY NewlyLoadedIs DEF Grows
      <4>2. e.data \in 1..n
        BY DEF NewEvents
      <4> QED
        BY <4>1, <4>2 DEF NoData
    <3> QED
      BY <3>1
  <2> QED
    BY <2>1, <2>2
<1>16. \A x \in 1..Len(old) : old[x] \in DOMAIN loaded /\ loaded2[old[x]] = loaded[old[x]]
  BY <1>9, RangeIs DEF Grows
<1>17. CASE j <= Len(old)
  <2>1. i \in 1..Len(old) /\ j \in 1..Len(old)
    BY <1>1, <1>7, <1>12, <1>13, <1>17
  <2> QED
    BY <1>1, <1>7, <1>9, <1>12, <1>16, <2>1
<1>18. CASE i <= Len(old) /\ j > Len(old)
  <2>1. i \in 1..Len(old) /\ j - Len(old) \in 1..Len(more) /\ Len(old) + (j - Len(old)) = j
    BY <1>1, <1>7, <1>12, <1>13, <1>18
  <2>2. s[j] = more[j - Len(old)] /\ s[i] = old[i]
    BY <1>12, <2>1
  <2>3. loaded[old[i]].data < l[j - Len(old)].data
    BY <1>15, <1>16, <2>1 DEF Newer
  <2> QED
    BY <1>7, <1>15, <1>16, <2>1, <2>2, <2>3
<1>19. CASE i > Len(old)
  <2>1. /\ i - Len(old) \in 1..Len(more) /\ Len(old) + (i - Len(old)) = i
        /\ j - Len(old) \in 1..Len(more) /\ Len(old) + (j - Len(old)) = j
        /\ i - Len(old) < j - Len(old)
    BY <1>1, <1>7, <1>12, <1>13, <1>19
  <2>2. s[i] = more[i - Len(old)] /\ s[j] = more[j - Len(old)]
    BY <1>12, <2>1
  <2>3. l[i - Len(old)].data < l[j - Len(old)].data
    BY <1>6, <1>14, <1>15, <2>1 DEF Ordered
  <2> QED
    BY <1>7, <1>15, <2>1, <2>2, <2>3
<1>20. j <= Len(old) \/ (i <= Len(old) /\ j > Len(old)) \/ i > Len(old)
  BY <1>1, <1>7, <1>12, <1>13
<1> QED
  BY <1>17, <1>18, <1>19, <1>20

(* get_queue_head is the identifier of the first event. *)
LEMMA QueueHead ==
  ASSUME NEW q, NEW n \in Nat, IsQueue(q, n)
  PROVE  /\ get_queue_head(q) \in 0..(MaxId - 1) /\ get_queue_head(q) <= q.tail
         /\ \A e \in Range(q.events) : get_queue_head(q) <= e.id
         /\ q.tail # 0 => \E e \in Range(q.events) : get_queue_head(q) = e.id
         /\ q.tail = 0 => get_queue_head(q) = 0
<1>1. /\ IsLog(q.events) /\ q.events \in Seq(EventType) /\ Len(q.events) \in Nat
      /\ q.tail \in 0..(MaxId - 1) /\ (q.tail = 0 <=> q.events = <<>>)
      /\ \A e \in Range(q.events) : e.id \in 1..(MaxId - 2) /\ e.id < q.tail
      /\ (q.tail = 0 <=> Range(q.events) = {}) /\ MaxId \in Nat
  BY QueueIs, IdAssumption
<1>2. CASE q.events = <<>>
  BY <1>1, <1>2 DEF get_queue_head
<1>3. CASE q.events # <<>>
  <2>1. 1 \in 1..Len(q.events)
    BY <1>1, <1>3, HeadIs
  <2>2. get_queue_head(q) = q.events[1].id /\ q.events[1] \in Range(q.events)
    BY <1>1, <1>3, <2>1, RangeIs DEF get_queue_head
  <2>3. ASSUME NEW e \in Range(q.events) PROVE q.events[1].id <= e.id
    <3>1. PICK i \in 1..Len(q.events) : e = q.events[i]
      BY <1>1, RangeIs
    <3>2. e.id \in Int /\ q.events[1].id \in Int
      BY <1>1, <2>2
    <3>3. i = 1 \/ 1 < i
      BY <1>1
    <3> QED
      BY <1>1, <2>1, <3>1, <3>2, <3>3, LogIs DEF Sorted
  <2>4. q.events[1].id \in 1..(MaxId - 2) /\ q.events[1].id < q.tail
    BY <1>1, <2>2
  <2>5. q.events[1].id \in 0..(MaxId - 1) /\ q.events[1].id <= q.tail
    BY <1>1, <2>4
  <2> QED
    BY <1>1, <1>3, <2>2, <2>3, <2>5
<1> QED
  BY <1>2, <1>3

(* What load_updates does. *)
StartAt(h, q) ==
  LET first == IF h.offset = 0 THEN get_queue_head(q) ELSE h.offset
  IN  IF GetOK(q, first) THEN first ELSE get_queue_head(q)

Fetched(h, q, g, q2, from, new) ==
  /\ PopsFor(q, q2, from, FALSE, Expired)
  /\ \A e \in Range(new) : e \in Range(q.events) /\ e \in Range(q2.events) /\ e.id >= from /\ e.data # NoData
  /\ \A e \in Range(new) : \A d \in Range(q2.events) :
       (d.data # NoData /\ d.id >= from /\ d.id <= e.id) => d.id \in DOMAIN g.loaded
  /\ Beyond(from, new, g.offset)
  /\ Grows(h.loaded, new, g.loaded)
  /\ InChainOrder(h.loaded, h.chains) /\ Newer(h.loaded, new) => InChainOrder(g.loaded, g.chains)

(* Events of updates have chains. *)
LEMMA ChainOfIs ==
  ASSUME chat \in [Updates -> 0..MaxChat], NEW n \in Nat, n <= MaxUpdates, NEW s, GoodLog(s, n),
         \A e \in Range(s) : e.data # NoData
  PROVE  NewEvents(s, n)
<1>1. ASSUME NEW e \in Range(s) PROVE e.data \in 1..n /\ ChainOf(e) \in 1..(MaxChat + MaxId)
  <2>1. e.id \in 1..(MaxId - 2) /\ e.data \in Nat /\ e.data <= n /\ e.data # 0
    BY LogIs, EventIs DEF GoodLog, NoData
  <2>2. e.data \in Updates /\ MaxId \in Nat /\ MaxChat \in Nat
    BY <2>1, DeliveryAssumption, IdAssumption DEF Updates
  <2>3. chat[e.data] \in 0..MaxChat
    BY <2>2
  <2>4. ChainOf(e) \in 1..(MaxChat + MaxId)
    BY <2>1, <2>2, <2>3 DEF ChainOf
  <2> QED
    BY <2>1, <2>4
<1> QED
  BY <1>1 DEF NewEvents, GoodLog

Gets(q, from, limit, r) == r = do_get(q, from, FALSE, Expired, limit)

(* load_updates when get has returned events. *)
LEMMA FetchedOK ==
  ASSUME chat \in [Updates -> 0..MaxChat], NEW n \in Nat, n <= MaxUpdates, NEW q, IsQueue(q, n),
         NEW h, HookOK(h, n), NEW from \in 0..(MaxId - 1), NEW limit \in Nat,
         NEW r, Gets(q, from, limit, r), r.events # <<>>,
         NEW l, l = [h EXCEPT !.offset = from], NEW g, g = Load(l, r.events)
  PROVE  HookOK(g, n) /\ \E new : Fetched(h, q, g, r.queue, from, new)
<1>1. IsHook(l) /\ l.offset = from /\ l.loaded = h.loaded /\ l.chains = h.chains /\ l.due = h.due /\ l.conns = h.conns
  BY DEF HookOK, IsHook
<1>2. HookOK(l, n)
  BY <1>1, OtherOK
<1>3. /\ IsQueue(r.queue, n) /\ PopsFor(q, r.queue, from, FALSE, Expired) /\ Reads(q, r, from, Expired)
  <2>1. PICK expired : expired = Expired
    OBVIOUS
  <2>2. PICK forget_previous \in BOOLEAN : forget_previous = FALSE
    OBVIOUS
  <2>3. from \in Int /\ r = do_get(q, from, forget_previous, expired, limit)
    <3>1. from \in Int
      BY IdAssumption
    <3>2. r = do_get(q, from, forget_previous, expired, limit)
      BY <2>1, <2>2, Zenon DEF Gets
    <3> QED
      BY <3>1, <3>2
  <2>4. /\ IsQueue(r.queue, n) /\ PopsFor(q, r.queue, from, forget_previous, expired)
        /\ Reads(q, r, from, expired)
    BY <2>3, GetIs
  <2> QED
    BY <2>1, <2>2, <2>4
<1>4. PICK s : s = r.events
  OBVIOUS
<1>5. /\ IsLog(s)
      /\ \A e \in Range(s) : /\ e \in Range(q.events) /\ e \in Range(r.queue.events)
                             /\ e.id >= from /\ e.data # NoData
      /\ \A k \in 1..Len(s) : \A e \in Range(r.queue.events) :
           (e.data # NoData /\ e.id >= from /\ e.id <= s[k].id) => \E i \in 1..k : e = s[i]
  BY <1>3, <1>4 DEF Reads
<1>6. GoodLog(s, n)
  BY <1>5, QueueIs DEF GoodLog
<1>7. NewEvents(s, n)
  BY <1>5, <1>6, ChainOfIs
<1>8. PICK new : new = Unloaded(l, s)
  OBVIOUS
<1>9. HookOK(g, n) /\ Loads(l, new, g) /\ NewEvents(new, n)
  BY <1>2, <1>4, <1>7, <1>8, LoadOK
<1>10. \A e : e \in Range(new) <=> e \in Range(s) /\ e.id \notin DOMAIN l.loaded
  BY <1>5, <1>8, UnloadedIs
<1>11. Grows(h.loaded, new, g.loaded) /\ LongerChains(h.chains, new, g.chains) /\ Beyond(from, new, g.offset)
  BY <1>1, <1>9 DEF Loads
<1>12. ASSUME NEW e \in Range(new), NEW d \in Range(r.queue.events), d.data # NoData, d.id >= from, d.id <= e.id
       PROVE  d.id \in DOMAIN g.loaded
  <2>1. s \in Seq(EventType) /\ Len(s) \in Nat
    BY <1>5, LogIs
  <2>2. PICK k \in 1..Len(s) : e = s[k]
    BY <1>10, <2>1, RangeIs
  <2>3. PICK i \in 1..k : d = s[i]
    BY <1>5, <1>12, <2>2
  <2>4. i \in 1..Len(s)
    BY <2>1, <2>2, <2>3
  <2>5. d \in Range(s)
    BY <2>1, <2>3, <2>4, RangeIs
  <2> QED
    BY <1>1, <1>10, <1>11, <2>5 DEF Grows
<1>13. ASSUME InChainOrder(h.loaded, h.chains), Newer(h.loaded, new)
       PROVE  InChainOrder(g.loaded, g.chains)
  <2>1. LoadedOK(h.loaded, n) /\ ChainsOK(h.loaded, h.chains)
    BY DEF HookOK
  <2> QED
    BY <1>9, <1>11, <1>13, <2>1, OrderGrows
<1>14. \A e \in Range(new) : /\ e \in Range(q.events) /\ e \in Range(r.queue.events) /\ e.id >= from
                            /\ e.data # NoData
  BY <1>5, <1>10
<1>15. Fetched(h, q, g, r.queue, from, new)
  BY <1>3, <1>11, <1>12, <1>13, <1>14 DEF Fetched
<1> QED
  BY <1>9, <1>15

(* load_updates when get has returned none. *)
LEMMA NothingFetched ==
  ASSUME NEW n \in Nat, NEW q, IsQueue(q, n), NEW h, HookOK(h, n), NEW from \in 0..(MaxId - 1),
         NEW q2, PopsFor(q, q2, from, FALSE, Expired),
         NEW g, g = [[h EXCEPT !.offset = from] EXCEPT !.empty = TRUE]
  PROVE  HookOK(g, n) /\ \E new : Fetched(h, q, g, q2, from, new)
<1>1. PICK l : l = [h EXCEPT !.offset = from]
  OBVIOUS
<1>2. IsHook(l) /\ l.offset = from /\ l.loaded = h.loaded /\ l.chains = h.chains /\ l.due = h.due /\ l.conns = h.conns
  BY <1>1 DEF HookOK, IsHook
<1>3. g = [l EXCEPT !.empty = TRUE]
  BY <1>1
<1>4. IsHook(g) /\ g.offset = from /\ g.loaded = h.loaded /\ g.chains = h.chains /\ g.due = h.due /\ g.conns = h.conns
  BY <1>2, <1>3 DEF IsHook
<1>5. HookOK(g, n)
  BY <1>4, OtherOK
<1>6. PICK z : z = <<>>
  OBVIOUS
<1>7. Range(z) = {}
  BY <1>6, NothingInRange
<1>8. Beyond(from, z, g.offset) /\ Grows(h.loaded, z, g.loaded)
  BY <1>4, <1>6, <1>7 DEF Beyond, Grows
<1>9. Fetched(h, q, g, q2, from, z)
  BY <1>4, <1>7, <1>8 DEF Fetched
<1> QED
  BY <1>5, <1>9

(* load_updates keeps the state of the sender and of the queue, and loads  *)
(* what follows from where it starts to read.                              *)
LEMMA LoadUpdatesOK ==
  ASSUME chat \in [Updates -> 0..MaxChat], NEW n \in Nat, n <= MaxUpdates, NEW q, IsQueue(q, n),
         NEW h, HookOK(h, n), NEW l, l = load_updates(h, q)
  PROVE  /\ HookOK(l.hook, n) /\ IsQueue(l.queue, n) /\ l.queue.tail = q.tail
         /\ Cut(q.events, l.queue.events)
         /\ \/ /\ l.hook.loaded = h.loaded /\ l.hook.chains = h.chains
               /\ l.hook.offset = h.offset /\ l.queue = q
            \/ \E new : Fetched(h, q, l.hook, l.queue, StartAt(h, q), new)
<1>0. Cut(q.events, q.events)
  BY CutSame, QueueIs DEF IsQueue
<1>1. PICK first : first = IF h.offset = 0 THEN get_queue_head(q) ELSE h.offset
  OBVIOUS
<1>2. PICK from : from = IF GetOK(q, first) THEN first ELSE get_queue_head(q)
  OBVIOUS
<1>3. from = StartAt(h, q)
  BY <1>1, <1>2 DEF StartAt
<1>4. from \in 0..(MaxId - 1) /\ first \in 0..(MaxId - 1)
  BY <1>1, <1>2, QueueHead DEF HookOK
<1>5. PICK m : m = Cardinality(DOMAIN h.chains)
  OBVIOUS
<1>6. m \in Nat /\ MaxLoaded \in Nat
  BY <1>5, FewChains, DeliveryAssumption DEF HookOK, MaxLoaded
<1>7. PICK r : r = do_get(q, from, FALSE, Expired, MaxLoaded - m)
  OBVIOUS
<1>8. PICK f : f = [h EXCEPT !.offset = from]
  OBVIOUS
<1>9. l = IF h.empty \/ m >= MaxLoaded THEN [hook |-> h, queue |-> q]
          ELSE IF first = 0 THEN [hook |-> [h EXCEPT !.empty = TRUE], queue |-> q]
          ELSE [hook  |-> IF r.events = <<>> THEN [f EXCEPT !.empty = TRUE] ELSE Load(f, r.events),
                queue |-> r.queue]
  BY <1>1, <1>2, <1>5, <1>7, <1>8 DEF load_updates
<1>10. CASE h.empty \/ m >= MaxLoaded
  <2>1. l.hook = h /\ l.queue = q
    BY <1>9, <1>10
  <2> QED
    BY <1>0, <2>1
<1>11. CASE ~(h.empty \/ m >= MaxLoaded) /\ first = 0
  <2>1. l.hook = [h EXCEPT !.empty = TRUE] /\ l.queue = q
    BY <1>9, <1>11
  <2>2. PICK g : g = l.hook
    OBVIOUS
  <2>3. IsHook(g) /\ g.offset = h.offset /\ g.loaded = h.loaded /\ g.chains = h.chains /\ g.due = h.due /\ g.conns = h.conns
    BY <2>1, <2>2 DEF HookOK, IsHook
  <2>4. HookOK(g, n)
    BY <2>3, OtherOK DEF HookOK
  <2> QED
    BY <1>0, <2>1, <2>2, <2>3, <2>4
<1>12. CASE ~(h.empty \/ m >= MaxLoaded) /\ first # 0
  <2>1. l.hook = (IF r.events = <<>> THEN [f EXCEPT !.empty = TRUE] ELSE Load(f, r.events)) /\ l.queue = r.queue
    BY <1>9, <1>12
  <2>2. PICK limit \in Nat : limit = MaxLoaded - m
    BY <1>6, <1>12
  <2>3. r = do_get(q, from, FALSE, Expired, limit)
    BY <1>7, <2>2
  <2>4. /\ IsQueue(r.queue, n) /\ r.queue.tail = q.tail /\ Cut(q.events, r.queue.events)
        /\ PopsFor(q, r.queue, from, FALSE, Expired)
    <3>1. PICK expired : expired = Expired
      OBVIOUS
    <3>2. PICK forget_previous \in BOOLEAN : forget_previous = FALSE
      OBVIOUS
    <3>3. from \in Int /\ r = do_get(q, from, forget_previous, expired, limit)
      <4>1. from \in Int
        BY <1>4, IdAssumption
      <4>2. r = do_get(q, from, forget_previous, expired, limit)
        BY <2>3, <3>1, <3>2, Zenon
      <4> QED
        BY <4>1, <4>2
    <3>4. /\ IsQueue(r.queue, n) /\ r.queue.tail = q.tail /\ Cut(q.events, r.queue.events)
          /\ PopsFor(q, r.queue, from, forget_previous, expired)
      BY <3>3, GetIs
    <3> QED
      BY <3>1, <3>2, <3>4
  <2>5. PICK g : g = l.hook
    OBVIOUS
  <2>6. HookOK(g, n) /\ \E new : Fetched(h, q, g, r.queue, from, new)
    <3>1. CASE r.events = <<>>
      <4>1. g = [[h EXCEPT !.offset = from] EXCEPT !.empty = TRUE]
        BY <1>8, <2>1, <2>5, <3>1
      <4> QED
        BY <1>4, <2>4, <4>1, NothingFetched
    <3>2. CASE r.events # <<>>
      <4>1. g = Load(f, r.events)
        BY <2>1, <2>5, <3>2
      <4> QED
        BY <1>4, <1>8, <2>3, <3>2, <4>1, FetchedOK DEF Gets
    <3> QED
      BY <3>1, <3>2
  <2> QED
    BY <1>3, <2>1, <2>4, <2>5, <2>6
<1> QED
  BY <1>10, <1>11, <1>12

-------------------------------------------------------------------------------
(* Identifiers.  As long as none is given out a second time, the queue is  *)
(* new, or it counts from one of FreshIds, or it was there at the start.   *)
Low(tail, n) == \E f \in FreshIds : tail <= f + n
High(tail) == tail >= MaxId - 3

ClassOK(q, n) ==
  /\ q.tail = 0 \/ Low(q.tail, n) \/ High(q.tail)
  /\ High(q.tail) => \A e \in Range(q.events) : e.id >= MaxId - 4

(* Every update before the identifier b is in seen. *)
Covered(q, b, seen) == \A e \in Range(q.events) : (e.data # NoData /\ e.id < b) => e \in seen

(* An offset that was given out: the queue is past it, or it is from       *)
(* before the identifiers were used up and too far ahead for get.          *)
Passed(b, q, n, seen) ==
  \/ b = 0
  \/ b <= q.tail /\ (High(q.tail) => b >= MaxId - 4) /\ Covered(q, b, seen)
  \/ b >= MaxId - 4 /\ Low(q.tail, n)

(* Below the gap no offset comes near the identifiers above it. *)
LEMMA GapIs ==
  ASSUME NEW n \in Nat, n <= MaxUpdates, NEW tail \in Nat, Low(tail, n)
  PROVE  tail < MaxId - 4 /\ tail + FutureIds < MaxId - 4 /\ ~High(tail)
<1>1. PICK f \in FreshIds : tail <= f + n
  BY DEF Low
<1>2. f \in Nat /\ f + MaxUpdates + FutureIds < MaxId - 4 /\ FutureIds \in Nat /\ MaxUpdates \in Nat /\ MaxId \in Nat
  BY GapAssumption, IdAssumption, DeliveryAssumption
<1> QED
  BY <1>1, <1>2 DEF High

(* A queue that starts again is below the gap. *)
LEMMA Fresh ==
  ASSUME NEW n \in Nat, n < MaxUpdates, NEW f \in FreshIds
  PROVE  f + 1 < MaxId - 4 /\ Low(f + 1, n + 1) /\ f \in Nat /\ f # 0 /\ ~High(f + 1)
<1>1. /\ f \in Nat /\ f # 0 /\ f + MaxUpdates + FutureIds < MaxId - 4
      /\ FutureIds \in Nat /\ MaxUpdates \in Nat /\ MaxId \in Nat
  BY GapAssumption, IdAssumption, DeliveryAssumption
<1>2. f + 1 <= f + (n + 1)
  BY <1>1
<1> QED
  BY <1>1, <1>2 DEF Low, High

(* A queue that has lost updates, and nothing else. *)
Trimmed(q, q2) ==
  q2.tail = q.tail /\ \A e \in Range(q2.events) : e.id \in Ids(q.events) /\ (e.data # NoData => e \in Range(q.events))

(* What get, forget and run_gc do to a queue. *)
LEMMA CutTrims ==
  ASSUME NEW q, NEW n, IsQueue(q, n), NEW q2, q2.tail = q.tail, Cut(q.events, q2.events)
  PROVE  Trimmed(q, q2)
<1>1. q.events \in Seq(EventType)
  BY QueueIs
<1>2. \A e \in Range(q2.events) : e \in Range(q.events) \/ (e.data = NoData /\ e.id \in Ids(q.events))
  BY DEF Cut, IsLast
<1> QED
  BY <1>1, <1>2, IdsAre DEF Trimmed

(* An identifier is not lower or higher for it. *)
LEMMA ClassTrimmed ==
  ASSUME NEW q, NEW n, IsQueue(q, n), NEW q2, Trimmed(q, q2), ClassOK(q, n)
  PROVE  ClassOK(q2, n)
<1>1. q.events \in Seq(EventType)
  BY QueueIs
<1>2. \A i : i \in Ids(q.events) <=> \E e \in Range(q.events) : e.id = i
  BY <1>1, IdsAre
<1> QED
  BY <1>2 DEF Trimmed, ClassOK

(* An offset that was passed still is. *)
LEMMA PassedTrimmed ==
  ASSUME NEW q, NEW n, NEW q2, Trimmed(q, q2), NEW b, NEW seen, Passed(b, q, n, seen), NEW seen2,
         \A e \in Range(q2.events) : (e.data # NoData /\ e \in seen) => e \in seen2
  PROVE  Passed(b, q2, n, seen2)
BY DEF Passed, Trimmed, Covered

(* More updates may follow. *)
LEMMA MoreLow ==
  ASSUME NEW tail \in Nat, NEW n \in Nat, NEW m \in Nat, n <= m, Low(tail, n)
  PROVE  Low(tail, m)
<1>1. PICK f \in FreshIds : tail <= f + n
  BY DEF Low
<1>2. f \in Nat
  BY IdAssumption
<1>3. tail <= f + m
  BY <1>1, <1>2
<1> QED
  BY <1>3 DEF Low

(* The same for the class and for the offsets. *)
LEMMA MorePassed ==
  ASSUME NEW q, NEW n \in Nat, NEW m \in Nat, n <= m, IsQueue(q, n)
  PROVE  /\ ClassOK(q, n) => ClassOK(q, m)
         /\ \A b, seen : Passed(b, q, n, seen) => Passed(b, q, m, seen)
<1>1. q.tail \in Nat
  BY QueueIs
<1>2. Low(q.tail, n) => Low(q.tail, m)
  BY <1>1, MoreLow
<1> QED
  BY <1>2 DEF ClassOK, Passed

(* push: the identifiers go on, or start again below the gap. *)
Pushed(q, p, id, n) ==
  /\ IsQueue(p, n + 1) /\ p.tail = id + 1
  /\ \A d : d \in Range(p.events) <=>
       \/ ~UsedUp(q) /\ d \in Range(q.events) /\ d.data # NoData
       \/ d = Event(id, n + 1)
  /\ \/ id = q.tail /\ q.tail # 0 /\ ~UsedUp(q)
     \/ id \in FreshIds /\ (q.tail = 0 \/ UsedUp(q))

(* What push does to a queue. *)
LEMMA PushedIs ==
  ASSUME NEW q, NEW n \in Nat, IsQueue(q, n), Len(q.events) < MaxQueueEvents, NEW fresh \in FreshIds,
         NEW p, p = push(q, n + 1, fresh)
  PROVE  Pushed(q, p, NewId(q, fresh), n) /\ Succeeds(q.events, p.events)
<1>1. /\ IsQueue(p, n + 1) /\ p.tail = NewId(q, fresh) + 1 /\ Succeeds(q.events, p.events)
      /\ \A d : d \in Range(p.events) <=>
           \/ ~UsedUp(q) /\ d \in Range(q.events) /\ d.data # NoData
           \/ d = Event(NewId(q, fresh), n + 1)
  BY PushIs
<1>2. \/ NewId(q, fresh) = q.tail /\ q.tail # 0 /\ ~UsedUp(q)
      \/ NewId(q, fresh) \in FreshIds /\ (q.tail = 0 \/ UsedUp(q))
  BY DEF NewId
<1> QED
  BY <1>1, <1>2 DEF Pushed

(* The new tail is below the gap, or the old one was not. *)
LEMMA PushedTail ==
  ASSUME NEW n \in Nat, n < MaxUpdates, NEW q, IsQueue(q, n), ClassOK(q, n), NEW p, NEW id, Pushed(q, p, id, n)
  PROVE  /\ q.tail \in Nat /\ id \in Nat /\ p.tail = id + 1
         /\ \/ ~High(p.tail) /\ Low(p.tail, n + 1)
            \/ High(q.tail) /\ High(p.tail) /\ id = q.tail /\ ~UsedUp(q)
         /\ UsedUp(q) => High(q.tail) /\ Low(p.tail, n + 1)
<1>1. q.tail \in Nat /\ p.tail = id + 1 /\ MaxId \in Nat
  BY QueueIs, IdAssumption DEF Pushed
<1>2. CASE id \in FreshIds /\ (q.tail = 0 \/ UsedUp(q))
  <2>1. Low(p.tail, n + 1) /\ ~High(p.tail) /\ id \in Nat
    BY <1>1, <1>2, Fresh
  <2>2. UsedUp(q) => High(q.tail)
    BY <1>1 DEF UsedUp, High
  <2> QED
    BY <1>1, <2>1, <2>2
<1>3. CASE id = q.tail /\ q.tail # 0 /\ ~UsedUp(q)
  <2>1. CASE Low(q.tail, n)
    <3>1. PICK f \in FreshIds : q.tail <= f + n
      BY <2>1 DEF Low
    <3>2. f \in Nat
      BY IdAssumption
    <3>3. p.tail <= f + (n + 1)
      BY <1>1, <1>3, <3>1, <3>2
    <3>4. Low(p.tail, n + 1) /\ p.tail \in Nat /\ n + 1 \in Nat /\ n + 1 <= MaxUpdates
      BY <1>1, <1>3, <3>3, DeliveryAssumption DEF Low
    <3>5. ~High(p.tail)
      BY <3>4, GapIs
    <3> QED
      BY <1>1, <1>3, <3>4, <3>5
  <2>2. CASE High(q.tail)
    BY <1>1, <1>3, <2>2 DEF High
  <2> QED
    BY <1>3, <2>1, <2>2 DEF ClassOK
<1> QED
  BY <1>2, <1>3 DEF Pushed

(* push gives out identifiers above the last one, or below the gap. *)
LEMMA ClassPushed ==
  ASSUME NEW n \in Nat, n < MaxUpdates, NEW q, IsQueue(q, n), ClassOK(q, n), NEW p, NEW id, Pushed(q, p, id, n)
  PROVE  ClassOK(p, n + 1)
<1>1. /\ q.tail \in Nat /\ p.tail = id + 1
      /\ \/ ~High(p.tail) /\ Low(p.tail, n + 1)
         \/ High(q.tail) /\ High(p.tail) /\ id = q.tail
  BY PushedTail
<1>2. CASE ~High(p.tail) /\ Low(p.tail, n + 1)
  BY <1>2 DEF ClassOK
<1>3. CASE High(q.tail) /\ High(p.tail) /\ id = q.tail
  <2>1. ASSUME NEW e \in Range(p.events) PROVE e.id >= MaxId - 4
    <3>1. CASE e \in Range(q.events)
      BY <1>3, <3>1 DEF ClassOK
    <3>2. CASE e = Event(id, n + 1)
      <4>1. e.id = id /\ MaxId \in Nat
        BY <3>2, EventIs, IdAssumption
      <4> QED
        BY <1>1, <1>3, <4>1 DEF High
    <3> QED
      BY <3>1, <3>2 DEF Pushed
  <2> QED
    BY <1>3, <2>1 DEF ClassOK
<1> QED
  BY <1>1, <1>2, <1>3

(* An offset that was passed still is after a push. *)
LEMMA PassedPushed ==
  ASSUME NEW n \in Nat, n < MaxUpdates, NEW q, IsQueue(q, n), ClassOK(q, n), NEW p, NEW id, Pushed(q, p, id, n),
         NEW b \in Nat, NEW seen, Passed(b, q, n, seen)
  PROVE  Passed(b, p, n + 1, seen)
<1>1. /\ q.tail \in Nat /\ p.tail = id + 1 /\ id \in Nat
      /\ \/ ~High(p.tail) /\ Low(p.tail, n + 1)
         \/ High(q.tail) /\ High(p.tail) /\ id = q.tail /\ ~UsedUp(q)
      /\ UsedUp(q) => High(q.tail) /\ Low(p.tail, n + 1)
  BY PushedTail
<1>2. CASE b = 0
  BY <1>2 DEF Passed
<1>3. CASE b >= MaxId - 4 /\ Low(q.tail, n)
  <2>1. n <= MaxUpdates
    BY DeliveryAssumption
  <2>2. ~High(q.tail)
    BY <1>1, <1>3, <2>1, GapIs
  <2> QED
    BY <1>1, <1>3, <2>2 DEF Passed
<1>4. CASE b # 0 /\ b <= q.tail /\ (High(q.tail) => b >= MaxId - 4) /\ Covered(q, b, seen)
  <2>1. CASE UsedUp(q)
    BY <1>1, <1>4, <2>1 DEF Passed
  <2>2. CASE ~UsedUp(q)
    <3>1. id = q.tail
      BY <1>1, <1>4, <2>2 DEF Pushed
    <3>2. b <= p.tail /\ (High(p.tail) => b >= MaxId - 4)
      BY <1>1, <1>4, <3>1
    <3>3. Covered(p, b, seen)
      <4>1. ASSUME NEW e \in Range(p.events), e.data # NoData, e.id < b PROVE e \in seen
        <5>1. e \in Range(q.events) \/ e = Event(id, n + 1)
          BY DEF Pushed
        <5>2. ~(e = Event(id, n + 1))
          BY <1>1, <1>4, <3>1, <4>1, EventIs
        <5> QED
          BY <1>4, <4>1, <5>1, <5>2 DEF Covered
      <4> QED
        BY <4>1 DEF Covered
    <3> QED
      BY <3>2, <3>3 DEF Passed
  <2> QED
    BY <2>1, <2>2
<1> QED
  BY <1>2, <1>3, <1>4 DEF Passed

(* An offset that get accepts is not from before the identifiers were used *)
(* up: everything before it has been seen.                                 *)
LEMMA PassedBelow ==
  ASSUME NEW n \in Nat, n <= MaxUpdates, NEW q, IsQueue(q, n), NEW b \in Nat \ {0}, NEW seen,
         Passed(b, q, n, seen), GetOK(q, b)
  PROVE  Covered(q, b, seen)
<1>1. q.tail \in Nat /\ MaxId \in Nat /\ FutureIds \in Nat
  BY QueueIs, IdAssumption
<1>2. ~(b >= MaxId - 4 /\ Low(q.tail, n))
  BY <1>1, GapIs DEF GetOK
<1> QED
  BY <1>2 DEF Passed

(* Nothing is before the head of the queue. *)
LEMMA PassedHead ==
  ASSUME NEW n \in Nat, NEW q, IsQueue(q, n), ClassOK(q, n), NEW seen
  PROVE  Passed(get_queue_head(q), q, n, seen) /\ Covered(q, get_queue_head(q), seen)
<1>1. PICK b : b = get_queue_head(q)
  OBVIOUS
<1>2. /\ b \in Nat /\ b <= q.tail /\ q.tail \in Nat /\ MaxId \in Nat
      /\ \A e \in Range(q.events) : b <= e.id /\ e.id \in Nat
      /\ q.tail # 0 => \E e \in Range(q.events) : b = e.id
      /\ q.tail = 0 => b = 0
  BY <1>1, QueueHead, QueueIs, IdAssumption
<1>3. Covered(q, b, seen)
  BY <1>2 DEF Covered
<1>4. q.tail # 0 => (High(q.tail) => b >= MaxId - 4)
  BY <1>2 DEF ClassOK
<1> QED
  BY <1>1, <1>2, <1>3, <1>4 DEF Passed

(* The offset after an event of the queue. *)
LEMMA PassedAfter ==
  ASSUME NEW n \in Nat, NEW q, IsQueue(q, n), ClassOK(q, n), NEW seen, NEW e \in Range(q.events),
         \A d \in Range(q.events) : (d.data # NoData /\ d.id <= e.id) => d \in seen
  PROVE  Passed(e.id + 1, q, n, seen) /\ e.id + 1 \in 0..(MaxId - 1)
<1>1. /\ e.id \in 1..(MaxId - 2) /\ e.id + 1 <= q.tail /\ MaxId \in Nat
      /\ \A d \in Range(q.events) : d.id \in Nat
  BY QueueIs, IdAssumption
<1>2. Covered(q, e.id + 1, seen)
  BY <1>1 DEF Covered
<1>3. High(q.tail) => e.id + 1 >= MaxId - 4
  BY <1>1 DEF ClassOK
<1> QED
  BY <1>1, <1>2, <1>3 DEF Passed

(* The events of a queue determine its tail. *)
LEMMA TailSame ==
  ASSUME NEW n, NEW m, NEW q, NEW r, IsQueue(q, n), IsQueue(r, m), q.events = r.events
  PROVE  q.tail = r.tail
<1>1. Ends(q.events, q.tail) /\ Ends(q.events, r.tail) /\ q.events \in Seq(EventType)
  BY QueueIs DEF IsQueue
<1>2. CASE q.events = <<>>
  BY <1>1, <1>2 DEF Ends
<1>3. CASE q.events # <<>>
  <2>1. PICK d \in Range(q.events) : q.tail = d.id + 1 /\ IsLast(q.events, d)
    BY <1>1, <1>3 DEF Ends
  <2>2. PICK e \in Range(q.events) : r.tail = e.id + 1 /\ IsLast(q.events, e)
    BY <1>1, <1>3 DEF Ends
  <2>3. d.id \in Nat /\ e.id \in Nat /\ d.id <= e.id /\ e.id <= d.id
    BY <2>1, <2>2, QueueIs DEF IsLast
  <2> QED
    BY <2>1, <2>2, <2>3
<1> QED
  BY <1>2, <1>3

(* Nothing is expected of two queues with the same events and tail that is *)
(* not expected of one.                                                    *)
LEMMA TrimmedSame ==
  ASSUME NEW n, NEW q, IsQueue(q, n), NEW r, r.events = q.events, r.tail = q.tail
  PROVE  Trimmed(q, r)
<1>1. q.events \in Seq(EventType)
  BY QueueIs
<1> QED
  BY <1>1, IdsAre DEF Trimmed


-------------------------------------------------------------------------------
(* The sender of the webhook and the queue it loads from. *)

(* The identifier was given out before. *)
Known(i, q, n) ==
  \/ i < q.tail /\ (High(q.tail) => i >= MaxId - 4)
  \/ i >= MaxId - 4 /\ Low(q.tail, n)

(* Every queued update up to a loaded one is loaded, under its identifier. *)
Tracks(loaded, q, n) ==
  /\ \A i \in DOMAIN loaded : Known(i, q, n)
  /\ \A i \in DOMAIN loaded : \A e \in Range(q.events) :
       (e.data # NoData /\ e.data <= loaded[i].data) => e.id \in DOMAIN loaded
  /\ \A e \in Range(q.events) :
       (e.data # NoData /\ e.id \in DOMAIN loaded) => loaded[e.id].data = e.data

ByChat(ch, loaded) ==
  \A i \in DOMAIN loaded :
    loaded[i].chain = IF ch[loaded[i].data] # 0 THEN ch[loaded[i].data] ELSE MaxChat + i

LoadedEvents(loaded) == {e \in EventType : e.id \in DOMAIN loaded}

InStep(ch, h, q, n) ==
  /\ Tracks(h.loaded, q, n) /\ ByChat(ch, h.loaded) /\ InChainOrder(h.loaded, h.chains)
  /\ Passed(h.offset, q, n, LoadedEvents(h.loaded))

(* The sender has just started: nothing is loaded. *)
LEMMA InStepNew ==
  ASSUME NEW ch, NEW q, NEW n
  PROVE  InStep(ch, NewHook, q, n)
<1>1. /\ NewHook.loaded = <<>> /\ NewHook.chains = <<>> /\ NewHook.offset = 0
      /\ DOMAIN NewHook.loaded = {} /\ DOMAIN NewHook.chains = {}
  BY DEF NewHook
<1> QED
  BY <1>1 DEF InStep, Tracks, ByChat, InChainOrder, Passed

(* Updates leave the queue. *)
LEMMA InStepTrimmed ==
  ASSUME NEW ch, NEW h, NEW n, NEW q, NEW q2, Trimmed(q, q2), InStep(ch, h, q, n)
  PROVE  InStep(ch, h, q2, n)
<1>1. Tracks(h.loaded, q2, n)
  BY DEF InStep, Tracks, Trimmed, Known
<1>2. Passed(h.offset, q2, n, LoadedEvents(h.loaded))
  BY PassedTrimmed DEF InStep
<1> QED
  BY <1>1, <1>2 DEF InStep

(* What else the sender does. *)
LEMMA InStepSame ==
  ASSUME NEW ch, NEW h, NEW g, NEW n, NEW q, InStep(ch, h, q, n), g.offset = h.offset,
         g.chains = h.chains, SameLoaded(h.loaded, g.loaded), ChainsOK(h.loaded, h.chains)
  PROVE  InStep(ch, g, q, n)
<1>1. Tracks(g.loaded, q, n)
  BY DEF InStep, Tracks, SameLoaded
<1>2. ByChat(ch, g.loaded)
  BY DEF InStep, ByChat, SameLoaded
<1>3. InChainOrder(g.loaded, g.chains)
  <2>1. \A c \in DOMAIN h.chains : \A i \in 1..Len(h.chains[c]) : h.chains[c][i] \in DOMAIN h.loaded
    BY RangeIs DEF ChainsOK
  <2> QED
    BY <2>1 DEF InStep, InChainOrder, SameLoaded
<1>4. LoadedEvents(g.loaded) = LoadedEvents(h.loaded)
  BY DEF LoadedEvents, SameLoaded
<1> QED
  BY <1>1, <1>2, <1>3, <1>4 DEF InStep

(* More updates may follow. *)
LEMMA InStepMore ==
  ASSUME NEW ch, NEW h, NEW n \in Nat, NEW m \in Nat, n <= m, NEW q, IsQueue(q, n), InStep(ch, h, q, n)
  PROVE  InStep(ch, h, q, m)
<1>1. q.tail \in Nat
  BY QueueIs
<1>2. Low(q.tail, n) => Low(q.tail, m)
  BY <1>1, MoreLow
<1>3. Tracks(h.loaded, q, m)
  BY <1>2 DEF InStep, Tracks, Known
<1>4. Passed(h.offset, q, m, LoadedEvents(h.loaded))
  BY MorePassed DEF InStep
<1> QED
  BY <1>3, <1>4 DEF InStep

(* push: a new identifier is not that of an update that is loaded. *)
LEMMA KnownPushed ==
  ASSUME NEW n \in Nat, n < MaxUpdates, NEW q, IsQueue(q, n), ClassOK(q, n), NEW p, NEW id, Pushed(q, p, id, n),
         NEW i \in Nat, Known(i, q, n)
  PROVE  Known(i, p, n + 1) /\ i # id
<1>1. /\ q.tail \in Nat /\ p.tail = id + 1 /\ id \in Nat /\ MaxId \in Nat
      /\ \/ ~High(p.tail) /\ Low(p.tail, n + 1)
         \/ High(q.tail) /\ High(p.tail) /\ id = q.tail /\ ~UsedUp(q)
      /\ UsedUp(q) => High(q.tail) /\ Low(p.tail, n + 1)
  BY PushedTail, IdAssumption
<1>2. n <= MaxUpdates /\ n + 1 \in Nat /\ n + 1 <= MaxUpdates /\ p.tail \in Nat
  BY <1>1, DeliveryAssumption
<1>3. Low(q.tail, n) => ~High(q.tail)
  BY <1>1, <1>2, GapIs
<1>4. Low(p.tail, n + 1) => p.tail < MaxId - 4
  BY <1>1, <1>2, GapIs
<1>5. CASE i >= MaxId - 4 /\ Low(q.tail, n)
  <2>1. Low(p.tail, n + 1)
    BY <1>1, <1>3, <1>5
  <2> QED
    BY <1>1, <1>4, <1>5, <2>1 DEF Known
<1>6. CASE i < q.tail /\ (High(q.tail) => i >= MaxId - 4)
  <2>1. CASE UsedUp(q)
    BY <1>1, <1>4, <1>6, <2>1 DEF Known
  <2>2. CASE ~UsedUp(q)
    <3>1. id = q.tail
      BY <1>1, <1>6, <2>2 DEF Pushed
    <3> QED
      BY <1>1, <1>6, <3>1 DEF Known
  <2> QED
    BY <2>1, <2>2
<1> QED
  BY <1>5, <1>6 DEF Known

(* A push leaves what is loaded as it was, and its update is not loaded. *)
LEMMA InStepPushed ==
  ASSUME NEW n \in Nat, n < MaxUpdates, NEW q, IsQueue(q, n), ClassOK(q, n), NEW p, NEW id, Pushed(q, p, id, n),
         NEW ch, NEW h, HookOK(h, n), InStep(ch, h, q, n)
  PROVE  InStep(ch, h, p, n + 1)
<1>1. \A i \in DOMAIN h.loaded : i \in Nat /\ h.loaded[i].data \in 1..n
  BY IdAssumption DEF HookOK, LoadedOK, LoadedType
<1>2. \A i \in DOMAIN h.loaded : Known(i, p, n + 1) /\ i # id
  BY <1>1, KnownPushed DEF InStep, Tracks
<1>3. \A e \in Range(p.events) : e \in Range(q.events) \/ (e.id = id /\ e.data = n + 1)
  BY EventIs DEF Pushed
<1>4. ASSUME NEW i \in DOMAIN h.loaded, NEW e \in Range(p.events), e.data # NoData, e.data <= h.loaded[i].data
      PROVE  e.id \in DOMAIN h.loaded
  BY <1>1, <1>3, <1>4 DEF InStep, Tracks
<1>5. ASSUME NEW e \in Range(p.events), e.data # NoData, e.id \in DOMAIN h.loaded
      PROVE  h.loaded[e.id].data = e.data
  BY <1>2, <1>3, <1>5 DEF InStep, Tracks
<1>6. Tracks(h.loaded, p, n + 1)
  BY <1>2, <1>4, <1>5 DEF Tracks
<1>7. h.offset \in Nat
  BY IdAssumption DEF HookOK
<1>8. Passed(h.offset, p, n + 1, LoadedEvents(h.loaded))
  BY <1>7, PassedPushed DEF InStep
<1> QED
  BY <1>6, <1>8 DEF InStep

(* drop_event and forget: the update that is no longer loaded is no longer *)
(* queued.                                                                 *)
LEMMA InStepDropped ==
  ASSUME NEW n \in Nat, NEW q, NEW q2, Trimmed(q, q2), NEW ch, NEW h, HookOK(h, n), InStep(ch, h, q, n),
         NEW c \in DOMAIN h.chains, NEW g, Drops(h, c, g), Popping(q.events, q2.events, {Head(h.chains[c])})
  PROVE  InStep(ch, g, q2, n)
<1>1. PICK id : id = Head(h.chains[c])
  OBVIOUS
<1>2. /\ DOMAIN g.loaded = DOMAIN h.loaded \ {id} /\ g.offset = h.offset
      /\ \A i \in DOMAIN g.loaded : g.loaded[i] = h.loaded[i]
  BY <1>1 DEF Drops, Headless
<1>3. \A e \in Range(q2.events) : e.data # NoData => e \in Range(q.events) /\ e.id # id
  BY <1>1 DEF Popping
<1>4. Tracks(g.loaded, q2, n)
  <2>1. \A i \in DOMAIN g.loaded : Known(i, q2, n)
    BY <1>2 DEF InStep, Tracks, Trimmed, Known
  <2>2. ASSUME NEW i \in DOMAIN g.loaded, NEW e \in Range(q2.events), e.data # NoData, e.data <= g.loaded[i].data
        PROVE  e.id \in DOMAIN g.loaded
    BY <1>2, <1>3, <2>2 DEF InStep, Tracks
  <2>3. ASSUME NEW e \in Range(q2.events), e.data # NoData, e.id \in DOMAIN g.loaded
        PROVE  g.loaded[e.id].data = e.data
    BY <1>2, <1>3, <2>3 DEF InStep, Tracks
  <2> QED
    BY <2>1, <2>2, <2>3 DEF Tracks
<1>5. ByChat(ch, g.loaded)
  BY <1>2 DEF InStep, ByChat
<1>6. InChainOrder(g.loaded, g.chains)
  <2>1. ASSUME NEW d \in DOMAIN g.chains, NEW i \in 1..Len(g.chains[d]), NEW j \in 1..Len(g.chains[d]), i < j
        PROVE  g.loaded[g.chains[d][i]].data < g.loaded[g.chains[d][j]].data
    <3>1. d \in DOMAIN h.chains /\ ChainsOK(h.loaded, h.chains) /\ h.chains[d] \in Seq(DOMAIN h.loaded)
          /\ h.chains[d] # <<>> /\ Nodup(h.chains[d])
      BY DEF HookOK, ChainsOK, Drops, Headless
    <3>2. \A x \in 1..Len(h.chains[d]) : h.chains[d][x] \in DOMAIN h.loaded /\ h.chains[d][x] \in Range(h.chains[d])
      BY <3>1, RangeIs
    <3>3. CASE d # c
      <4>1. g.chains[d] = h.chains[d]
        BY <3>1, <3>3 DEF Drops, Headless
      <4>2. /\ LoadedOK(h.loaded, n) /\ h.loaded[id].chain = c
            /\ \A x \in Range(h.chains[d]) : h.loaded[x].chain = d
        BY <1>1, <3>1, Heads DEF HookOK, ChainsOK
      <4>3. \A x \in 1..Len(h.chains[d]) : h.chains[d][x] \in DOMAIN g.loaded
        BY <1>2, <3>2, <3>3, <4>2
      <4>4. h.loaded[h.chains[d][i]].data < h.loaded[h.chains[d][j]].data
        BY <2>1, <3>1, <4>1 DEF InStep, InChainOrder
      <4> QED
        BY <1>2, <4>1, <4>3, <4>4
    <3>4. CASE d = c
      <4>1. g.chains[d] = Tail(h.chains[d]) /\ Tail(h.chains[d]) \in Seq(DOMAIN h.loaded)
            /\ Len(h.chains[d]) \in Nat /\ Len(Tail(h.chains[d])) = Len(h.chains[d]) - 1
        BY <3>1, <3>4, TailIs, RangeIs DEF Drops, Headless
      <4>2. /\ g.chains[d][i] = h.chains[d][i + 1] /\ g.chains[d][j] = h.chains[d][j + 1]
            /\ i + 1 \in 1..Len(h.chains[d]) /\ j + 1 \in 1..Len(h.chains[d]) /\ i + 1 < j + 1
        BY <2>1, <3>1, <4>1, TailIs
      <4>3. h.chains[d][1] = id /\ 1 \in 1..Len(h.chains[d])
        BY <1>1, <3>1, <3>4, HeadIs
      <4>4. g.chains[d][i] # id /\ g.chains[d][j] # id
        BY <3>1, <4>2, <4>3 DEF Nodup
      <4>5. g.chains[d][i] \in DOMAIN g.loaded /\ g.chains[d][j] \in DOMAIN g.loaded
        BY <1>2, <3>2, <4>2, <4>4
      <4>6. h.loaded[h.chains[d][i + 1]].data < h.loaded[h.chains[d][j + 1]].data
        BY <3>1, <4>2 DEF InStep, InChainOrder
      <4> QED
        BY <1>2, <4>2, <4>5, <4>6
    <3> QED
      BY <3>3, <3>4
  <2> QED
    BY <2>1 DEF InChainOrder
<1>7. Passed(g.offset, q2, n, LoadedEvents(g.loaded))
  <2>1. \A e \in Range(q2.events) : (e.data # NoData /\ e \in LoadedEvents(h.loaded)) => e \in LoadedEvents(g.loaded)
    BY <1>2, <1>3 DEF LoadedEvents
  <2>2. Passed(h.offset, q, n, LoadedEvents(h.loaded))
    BY DEF InStep
  <2> QED
    BY <1>2, <2>1, <2>2, PassedTrimmed
<1> QED
  BY <1>4, <1>5, <1>6, <1>7 DEF InStep


(* Updates are queued in the order of their identifiers. *)
LEMMA InIdOrder ==
  ASSUME NEW s, IsLog(s), NEW d \in Range(s), NEW e \in Range(s), d.data # NoData, d.data <= e.data
  PROVE  d.id <= e.id
<1>1. s \in Seq(EventType) /\ Sorted(s) /\ Ordered(s)
  BY DEF IsLog
<1>2. PICK i \in 1..Len(s) : d = s[i]
  BY <1>1, RangeIs
<1>3. PICK j \in 1..Len(s) : e = s[j]
  BY <1>1, RangeIs
<1>4. d.id \in Nat /\ e.id \in Nat /\ d.data \in Nat /\ e.data \in Nat /\ Len(s) \in Nat
  BY <1>1, LogIs, RangeIs, EventIs
<1>5. CASE j < i
  BY <1>1, <1>2, <1>3, <1>4, <1>5 DEF Ordered
<1>6. CASE i < j
  BY <1>1, <1>2, <1>3, <1>4, <1>6 DEF Sorted
<1>7. CASE i = j
  BY <1>2, <1>3, <1>4, <1>7
<1> QED
  BY <1>4, <1>5, <1>6, <1>7

(* Where load_updates starts to read: everything before is loaded. *)
LEMMA StartsAfter ==
  ASSUME NEW n \in Nat, n <= MaxUpdates, NEW q, IsQueue(q, n), ClassOK(q, n), NEW seen,
         NEW h, h.offset \in Nat, Passed(h.offset, q, n, seen)
  PROVE  Passed(StartAt(h, q), q, n, seen) /\ Covered(q, StartAt(h, q), seen)
<1>1. CASE StartAt(h, q) = get_queue_head(q)
  BY <1>1, PassedHead
<1>2. CASE h.offset # 0 /\ GetOK(q, h.offset) /\ StartAt(h, q) = h.offset
  BY <1>2, PassedBelow
<1> QED
  BY <1>1, <1>2 DEF StartAt

(* load_updates. *)
LEMMA InStepLoaded ==
  ASSUME NEW n \in Nat, n <= MaxUpdates, NEW q, IsQueue(q, n), ClassOK(q, n),
         NEW h, HookOK(h, n), InStep(chat, h, q, n), NEW g, NEW q2, IsQueue(q2, n), q2.tail = q.tail,
         Cut(q.events, q2.events), NEW new, Fetched(h, q, g, q2, StartAt(h, q), new)
  PROVE  InStep(chat, g, q2, n)
<1>0. PICK from : from = StartAt(h, q)
  OBVIOUS
<1>1. Passed(from, q, n, LoadedEvents(h.loaded)) /\ Covered(q, from, LoadedEvents(h.loaded))
  <2>1. h.offset \in Nat /\ Passed(h.offset, q, n, LoadedEvents(h.loaded))
    BY IdAssumption DEF HookOK, InStep
  <2> QED
    BY <1>0, <2>1, StartsAfter
<1>2. Trimmed(q, q2)
  BY CutTrims
<1>3. ClassOK(q2, n)
  BY <1>2, ClassTrimmed
<1>4. /\ \A e \in Range(new) : e \in Range(q.events) /\ e \in Range(q2.events) /\ e.id >= from /\ e.data # NoData
      /\ \A e \in Range(new) : \A d \in Range(q2.events) :
           (d.data # NoData /\ d.id >= from /\ d.id <= e.id) => d.id \in DOMAIN g.loaded
      /\ Beyond(from, new, g.offset)
      /\ Grows(h.loaded, new, g.loaded)
  BY <1>0 DEF Fetched
<1>5. /\ IsLog(q.events) /\ q.tail \in Nat /\ MaxId \in Nat
      /\ \A e \in Range(q.events) : e \in EventType /\ e.id \in Nat /\ e.id < q.tail /\ e.data \in Nat
      /\ \A d, e \in Range(q.events) : d.id = e.id => d = e
  BY QueueIs, LogIs, IdAssumption
<1>6. \A e \in Range(q2.events) : e.data # NoData => e \in Range(q.events)
  BY <1>2 DEF Trimmed
<1>7. /\ \A i : i \in DOMAIN g.loaded <=> i \in DOMAIN h.loaded \/ \E e \in Range(new) : e.id = i
      /\ \A i \in DOMAIN h.loaded : g.loaded[i] = h.loaded[i]
      /\ \A e \in Range(new) : /\ e.id \notin DOMAIN h.loaded
                               /\ g.loaded[e.id].data = e.data /\ g.loaded[e.id].chain = ChainOf(e)
  <2>1. \A e : NewlyLoaded(e).data = e.data /\ NewlyLoaded(e).chain = ChainOf(e)
    BY DEF NewlyLoaded
  <2>2. \A i : i \in DOMAIN g.loaded <=> i \in DOMAIN h.loaded \/ \E e \in Range(new) : e.id = i
    BY <1>4 DEF Grows
  <2>3. \A i \in DOMAIN h.loaded : g.loaded[i] = h.loaded[i]
    BY <1>4 DEF Grows
  <2>4. \A e \in Range(new) : e.id \notin DOMAIN h.loaded /\ g.loaded[e.id] = NewlyLoaded(e)
    BY <1>4 DEF Grows
  <2>5. ASSUME NEW e \in Range(new)
        PROVE  /\ e.id \notin DOMAIN h.loaded
               /\ g.loaded[e.id].data = e.data /\ g.loaded[e.id].chain = ChainOf(e)
    BY <2>1, <2>4
  <2> QED
    BY <2>2, <2>3, <2>5
<1>8. ASSUME NEW e \in Range(new), NEW d \in Range(q2.events), d.data # NoData, d.id <= e.id
      PROVE  d.id \in DOMAIN g.loaded
  <2>1. CASE d.id >= from
    BY <1>4, <1>8, <2>1
  <2>2. CASE ~(d.id >= from)
    <3>1. d \in Range(q.events) /\ d.id < from
      <4>1. from \in Nat
        BY <1>0, QueueHead, IdAssumption DEF StartAt, HookOK
      <4> QED
        BY <1>5, <1>6, <1>8, <2>2, <4>1
    <3>2. d \in LoadedEvents(h.loaded)
      BY <1>1, <1>8, <3>1 DEF Covered
    <3> QED
      BY <1>7, <3>2 DEF LoadedEvents
  <2> QED
    BY <2>1, <2>2
<1>9. Tracks(g.loaded, q2, n)
  <2>1. ASSUME NEW i \in DOMAIN g.loaded PROVE Known(i, q2, n)
    <3>1. CASE i \in DOMAIN h.loaded
      BY <1>2, <3>1 DEF InStep, Tracks, Known, Trimmed
    <3>2. CASE \E e \in Range(new) : e.id = i
      BY <1>2, <1>4, <1>5, <3>2 DEF Known, ClassOK, Trimmed
    <3> QED
      BY <1>7, <3>1, <3>2
  <2>2. ASSUME NEW i \in DOMAIN g.loaded, NEW e \in Range(q2.events), e.data # NoData, e.data <= g.loaded[i].data
        PROVE  e.id \in DOMAIN g.loaded
    <3>1. CASE i \in DOMAIN h.loaded
      <4>1. e \in Range(q.events) /\ e.data <= h.loaded[i].data
        BY <1>6, <1>7, <2>2, <3>1
      <4>2. e.id \in DOMAIN h.loaded
        BY <2>2, <3>1, <4>1 DEF InStep, Tracks
      <4> QED
        BY <1>7, <4>2
    <3>2. CASE \E f \in Range(new) : f.id = i
      <4>1. PICK f \in Range(new) : f.id = i
        BY <3>2
      <4>2. f \in Range(q.events) /\ e \in Range(q.events) /\ e.data <= f.data
        BY <1>4, <1>6, <1>7, <2>2, <4>1
      <4>3. e.id <= f.id
        BY <1>5, <2>2, <4>2, InIdOrder
      <4> QED
        BY <1>8, <2>2, <4>3
    <3> QED
      BY <1>7, <3>1, <3>2
  <2>3. ASSUME NEW e \in Range(q2.events), e.data # NoData, e.id \in DOMAIN g.loaded
        PROVE  g.loaded[e.id].data = e.data
    <3>1. CASE e.id \in DOMAIN h.loaded
      BY <1>6, <1>7, <2>3, <3>1 DEF InStep, Tracks
    <3>2. CASE \E f \in Range(new) : f.id = e.id
      BY <1>4, <1>5, <1>6, <1>7, <2>3, <3>2
    <3> QED
      BY <1>7, <2>3, <3>1, <3>2
  <2> QED
    BY <2>1, <2>2, <2>3 DEF Tracks
<1>10. ByChat(chat, g.loaded)
  <2>1. ASSUME NEW i \in DOMAIN g.loaded
        PROVE  g.loaded[i].chain = IF chat[g.loaded[i].data] # 0 THEN chat[g.loaded[i].data] ELSE MaxChat + i
    <3>1. CASE i \in DOMAIN h.loaded
      BY <1>7, <3>1 DEF InStep, ByChat
    <3>2. CASE \E e \in Range(new) : e.id = i
      BY <1>7, <3>2 DEF ChainOf
    <3> QED
      BY <1>7, <3>1, <3>2
  <2> QED
    BY <2>1 DEF ByChat
<1>11. InChainOrder(g.loaded, g.chains)
  <2>1. ASSUME NEW i \in DOMAIN h.loaded, NEW e \in Range(new) PROVE h.loaded[i].data < e.data
    <3>1. e \in Range(q.events) /\ e.data # NoData /\ e.id \notin DOMAIN h.loaded
      BY <1>4, <1>7
    <3>2. ~(e.data <= h.loaded[i].data)
      BY <3>1 DEF InStep, Tracks
    <3>3. e.data \in Nat /\ h.loaded[i].data \in Nat
      BY <1>5, <3>1 DEF HookOK, LoadedOK, LoadedType
    <3> QED
      BY <3>2, <3>3
  <2>2. Newer(h.loaded, new)
    BY <2>1 DEF Newer
  <2> QED
    BY <2>2 DEF InStep, Fetched
<1>12. Passed(g.offset, q2, n, LoadedEvents(g.loaded))
  <2>1. CASE new = <<>> /\ g.offset = from
    <3>1. \A e \in Range(q2.events) : (e.data # NoData /\ e \in LoadedEvents(h.loaded)) => e \in LoadedEvents(g.loaded)
      BY <1>7 DEF LoadedEvents
    <3> QED
      BY <1>1, <1>2, <2>1, <3>1, PassedTrimmed
  <2>2. CASE \E e \in Range(new) : g.offset = e.id + 1 /\ \A d \in Range(new) : d.id <= e.id
    <3>1. PICK e \in Range(new) : g.offset = e.id + 1
      BY <2>2
    <3>2. \A d \in Range(q2.events) : (d.data # NoData /\ d.id <= e.id) => d \in LoadedEvents(g.loaded)
      BY <1>5, <1>6, <1>8 DEF LoadedEvents
    <3>3. e \in Range(q2.events)
      BY <1>4
    <3> QED
      BY <1>3, <3>1, <3>2, <3>3, PassedAfter
  <2> QED
    BY <1>4, <2>1, <2>2 DEF Beyond
<1> QED
  BY <1>9, <1>10, <1>11, <1>12 DEF InStep

-------------------------------------------------------------------------------
(* getUpdates. *)

(* A long poll with its members. *)
IsPoll(p) ==
  p = [on |-> p.on, offset |-> p.offset, limit |-> p.limit, woken |-> p.woken,
       hard |-> p.hard, slot |-> p.slot, waited |-> p.waited, kept |-> p.kept]

(* What is left of it: long_poll_hard_timeout_ is within the timeout of    *)
(* the query and, once an update has come, within LONG_POLL_MAX_DELAY of   *)
(* it, and the slot does not run beyond it.                                *)
OnTime(p) ==
  /\ IsPoll(p)
  /\ p.on \in BOOLEAN /\ p.woken \in BOOLEAN
  /\ p.hard \in Nat /\ p.slot \in Nat /\ p.waited \in Nat /\ p.kept \in Nat
  /\ p.slot <= p.hard
  /\ p.waited + p.hard <= PollTimeout
  /\ IF p.woken THEN p.kept + p.hard <= MaxDelay ELSE p.kept = 0

(* No long poll. *)
LEMMA NoPollOnTime == OnTime(NoPoll)
  BY DeliveryAssumption DEF OnTime, IsPoll, NoPoll

(* A long poll that begins. *)
LEMMA NewPollOnTime ==
  ASSUME NEW offset, NEW limit
  PROVE  OnTime([on |-> TRUE, offset |-> offset, limit |-> limit, woken |-> FALSE,
                 hard |-> PollTimeout, slot |-> PollTimeout, waited |-> 0, kept |-> 0])
  BY DeliveryAssumption DEF OnTime, IsPoll

(* An update makes the poll end sooner, never later. *)
LEMMA WakeUpOnTime ==
  ASSUME NEW p, OnTime(p)
  PROVE  OnTime(long_poll_wakeup(p))
<1>1. CASE ~p.on
  BY <1>1 DEF long_poll_wakeup
<1>2. CASE p.on
  <2>1. WaitAfter \in Nat /\ MaxDelay \in Nat
    BY DeliveryAssumption
  <2>2. PICK hard : hard = IF p.woken THEN p.hard ELSE Sooner(MaxDelay, p.hard)
    OBVIOUS
  <2>3. PICK slot : slot = Sooner(WaitAfter, hard)
    OBVIOUS
  <2>4. /\ hard \in Nat /\ hard <= p.hard
        /\ ~p.woken => hard <= MaxDelay
        /\ p.woken => hard = p.hard
    BY <2>1, <2>2 DEF Sooner, OnTime
  <2>5. slot \in Nat /\ slot <= hard
    BY <2>1, <2>3, <2>4 DEF Sooner
  <2>6. long_poll_wakeup(p) =
          [on |-> p.on, offset |-> p.offset, limit |-> p.limit, woken |-> TRUE,
           hard |-> hard, slot |-> slot, waited |-> p.waited, kept |-> p.kept]
    <3>1. long_poll_wakeup(p) = [p EXCEPT !.woken = TRUE, !.hard = hard, !.slot = slot]
      BY <1>2, <2>2, <2>3 DEF long_poll_wakeup
    <3> QED
      BY <3>1 DEF OnTime, IsPoll
  <2> QED
    BY <2>1, <2>4, <2>5, <2>6, DeliveryAssumption DEF OnTime, IsPoll
<1> QED
  BY <1>1, <1>2 DEF OnTime

(* Counting down on one side and up on the other. *)
LEMMA OneLess ==
  ASSUME NEW h \in Nat \ {0}, NEW w \in Nat, NEW bound \in Nat, w + h <= bound
  PROVE  h - 1 \in Nat /\ w + 1 \in Nat /\ (w + 1) + (h - 1) <= bound
  OBVIOUS

(* A tick is not taken when the slot has run out, so that something is     *)
(* left to count down.                                                     *)
Ticked(p) == [p EXCEPT !.hard = Elapsed(@), !.slot = Elapsed(@), !.waited = @ + 1,
                       !.kept = IF p.woken THEN @ + 1 ELSE 0]

(* A tick. *)
LEMMA TickOnTime ==
  ASSUME NEW p, OnTime(p), p.on, p.slot # 0
  PROVE  OnTime(Ticked(p))
<1>0. PICK n : n = Ticked(p)
  OBVIOUS
<1>1. PICK kept : kept = IF p.woken THEN p.kept + 1 ELSE 0
  OBVIOUS
<1>2. n = [on |-> p.on, offset |-> p.offset, limit |-> p.limit, woken |-> p.woken,
           hard |-> p.hard - 1, slot |-> p.slot - 1, waited |-> p.waited + 1, kept |-> kept]
  <2>1. p.hard > 0 /\ p.slot > 0
    BY DEF OnTime
  <2>2. Elapsed(p.hard) = p.hard - 1 /\ Elapsed(p.slot) = p.slot - 1
    BY <2>1 DEF Elapsed
  <2> QED
    BY <1>0, <1>1, <2>2 DEF OnTime, IsPoll, Ticked
<1>3. /\ IsPoll(n) /\ n.on = p.on /\ n.woken = p.woken /\ n.kept = kept
      /\ n.hard = p.hard - 1 /\ n.slot = p.slot - 1 /\ n.waited = p.waited + 1
  BY <1>2 DEF IsPoll
<1>4. /\ p.hard \in Nat \ {0} /\ p.slot \in Nat \ {0} /\ p.waited \in Nat /\ p.kept \in Nat
      /\ p.slot <= p.hard /\ p.waited + p.hard <= PollTimeout
      /\ p.on \in BOOLEAN /\ p.woken \in BOOLEAN
      /\ IF p.woken THEN p.kept + p.hard <= MaxDelay ELSE p.kept = 0
      /\ MaxDelay \in Nat /\ PollTimeout \in Nat
  BY DeliveryAssumption DEF OnTime
<1>5. /\ n.hard \in Nat /\ n.slot \in Nat /\ n.slot <= n.hard
      /\ n.waited \in Nat /\ n.waited + n.hard <= PollTimeout
  BY <1>3, <1>4, OneLess
<1>6. /\ n.kept \in Nat
      /\ IF n.woken THEN n.kept + n.hard <= MaxDelay ELSE n.kept = 0
  <2>1. CASE p.woken
    BY <1>1, <1>3, <1>4, <2>1, OneLess
  <2>2. CASE ~p.woken
    BY <1>1, <1>3, <2>2
  <2> QED
    BY <2>1, <2>2
<1>7. n.on \in BOOLEAN /\ n.woken \in BOOLEAN
  BY <1>3, <1>4
<1>8. OnTime(n)
  BY <1>3, <1>5, <1>6, <1>7 DEF OnTime
<1> QED
  BY <1>0, <1>8

(* Every step of the specification. *)
LEMMA StepOnTime == OnTime(poll) /\ [Next]_vars => OnTime(poll)'
<1> SUFFICES ASSUME OnTime(poll), [Next]_vars PROVE OnTime(poll')
  BY DEF OnTime, IsPoll
<1>1. CASE AddUpdate
  <2>1. poll' = poll \/ poll' = long_poll_wakeup(poll)
    BY <1>1 DEF AddUpdate
  <2> QED
    BY <2>1, WakeUpOnTime
<1>2. CASE Switch \/ Crash
  BY <1>2, NoPollOnTime DEF Switch, Crash
<1>3. CASE Tick
  <2>1. CASE ~poll.on
    BY <1>3, <2>1 DEF Tick
  <2>2. CASE poll.on
    <3>1. poll.slot # 0
      BY <1>3, <2>2 DEF Tick
    <3>2. poll' = Ticked(poll)
      BY <1>3, <2>2 DEF Tick, Ticked
    <3> QED
      BY <2>2, <3>1, <3>2, TickOnTime
  <2> QED
    BY <2>1, <2>2
<1>4. CASE Poll
  <2>1. ASSUME NEW offset, NEW limit, NEW timeout \in {0, PollTimeout},
               GetUpdates(offset, limit, timeout)
        PROVE  OnTime(poll')
    <3>1. do_get_updates(offset, limit, timeout)
      BY <2>1 DEF GetUpdates
    <3>2. \/ poll' = poll
          \/ /\ timeout # 0
             /\ poll' = [on |-> TRUE, offset |-> StoredOffset(offset), limit |-> limit,
                         woken |-> FALSE, hard |-> timeout, slot |-> timeout,
                         waited |-> 0, kept |-> 0]
      BY <3>1 DEF do_get_updates
    <3> QED
      BY <3>2, NewPollOnTime
  <2>2. CASE LongPollTimeout
    BY <2>2, NoPollOnTime DEF LongPollTimeout
  <2> QED
    BY <1>4, <2>1, <2>2 DEF Poll
<1>5. CASE CollectGarbage \/ Flush \/ Hook \/ UNCHANGED vars
  <2>1. poll' = poll
    BY <1>5 DEF CollectGarbage, Flush, Hook, vars, HookUpdate, HookTimer, HandleOk, HandleError,
                HandleHangup, HookStep
  <2> QED
    BY <2>1
<1> QED
  BY <1>1, <1>2, <1>3, <1>4, <1>5 DEF Next

(* A long poll ends when its timeout is over, and within                   *)
(* LONG_POLL_MAX_DELAY of the first update, however many more arrive:      *)
(* long_poll_wakeup never sets the slot beyond long_poll_hard_timeout_.    *)
THEOREM PollAlwaysOnTime == Spec => []PollOnTime
<1>1. Init => OnTime(poll)
  BY NoPollOnTime DEF Init
<1>2. OnTime(poll) => PollOnTime
  BY DeliveryAssumption DEF OnTime, PollOnTime
<1> QED
  BY <1>1, <1>2, StepOnTime, PTL DEF Spec


-------------------------------------------------------------------------------
(* What holds of the queue, its log and the sender whatever happens, a     *)
(* restart with records missing included.                                  *)
Steady ==
  /\ pushed \in 0..MaxUpdates /\ chat \in [Updates -> 0..MaxChat]
  /\ IsQueue(tqueue, pushed) /\ Logged(disk, unflushed, tqueue.events, pushed)
  /\ bot \in 0..(MaxId - 1)
  /\ OnTime(poll) /\ poll.offset \in 0..(MaxId - 1) /\ poll.limit \in Nat
  /\ mode \in {"poll", "webhook"} /\ crashed \in {"no", "clean", "torn"}
  /\ got \subseteq 1..pushed /\ excused \subseteq 1..pushed
  /\ HookOK(hook, pushed)

(* Only updates that were pushed are queued. *)
LEMMA QueuedIs ==
  ASSUME NEW q, NEW n \in Nat, IsQueue(q, n)
  PROVE  Queued(q) \subseteq 1..n
<1>1. /\ q.events \in Seq(EventType) /\ \A e \in Range(q.events) : e.data \in Nat /\ e.data <= n
  BY QueueIs
<1>2. ASSUME NEW u \in Data(q.events) PROVE u \in 1..n
  <2>1. u # NoData /\ \E e \in Range(q.events) : e.data = u
    BY <1>1, IdsAre
  <2> QED
    BY <1>1, <2>1 DEF NoData
<1> QED
  BY <1>2 DEF Queued

(* A change of the queue, with the records it writes. *)
LEMMA SetQueueSteady ==
  ASSUME Steady, NEW m \in Nat, pushed <= m, NEW q, NEW records, NEW dropped, SetQueue(q, records, dropped),
         IsQueue(q, m), Logged(tqueue.events, records, q.events, m), dropped \subseteq 1..m
  PROVE  IsQueue(tqueue', m) /\ Logged(disk', unflushed', tqueue'.events, m) /\ excused' \subseteq 1..m
<1>1. /\ tqueue' = q /\ disk' = disk /\ unflushed' = unflushed \o records
      /\ excused' = excused \cup dropped \cup ((Queued(tqueue) \ Queued(q)) \cap Expired)
  BY DEF SetQueue
<1>2. pushed \in Nat /\ Logged(disk, unflushed, tqueue.events, pushed)
      /\ excused \subseteq 1..pushed /\ IsQueue(tqueue, pushed)
  BY DEF Steady
<1>3. Logged(disk, unflushed, tqueue.events, m)
  BY <1>2, LoggedMore
<1>4. Logged(disk, unflushed \o records, q.events, m)
  BY <1>3, LoggedConcat
<1>5. Queued(tqueue) \subseteq 1..pushed
  BY <1>2, QueuedIs
<1>6. 1..pushed \subseteq 1..m
  BY <1>2
<1>7. excused' \subseteq 1..m
  BY <1>1, <1>2, <1>5, <1>6
<1> QED
  BY <1>1, <1>4, <1>7

(* loop: updates are loaded, then connections opened, then updates sent. *)
LEMMA LoopIs ==
  ASSUME Steady, NEW h, HookOK(h, pushed), NEW q, IsQueue(q, pushed), NEW dropped, Loop(h, q, dropped)
  PROVE  \E l : /\ l = load_updates(h, q)
                /\ HookOK(hook', pushed) /\ hook'.offset = l.hook.offset
                /\ hook'.loaded = l.hook.loaded /\ hook'.chains = l.hook.chains
                /\ SetQueue(l.queue, Popped(l.queue), dropped)
<1>1. PICK l : /\ l = load_updates(h, q)
               /\ \E n \in 0..Missing(l.hook) :
                    /\ hook' \in {send_updates(g) : g \in {create_new_connections(l.hook, n)}}
                    /\ SetQueue(l.queue, Popped(l.queue), dropped)
  BY DEF Loop
<1>2. PICK n \in 0..Missing(l.hook) :
        /\ hook' \in {send_updates(g) : g \in {create_new_connections(l.hook, n)}}
        /\ SetQueue(l.queue, Popped(l.queue), dropped)
  BY <1>1
<1>3. PICK g : g = create_new_connections(l.hook, n) /\ hook' = send_updates(g)
  BY <1>2
<1>4. pushed \in Nat /\ pushed <= MaxUpdates /\ chat \in [Updates -> 0..MaxChat]
  BY DeliveryAssumption DEF Steady
<1>5. HookOK(l.hook, pushed)
  BY <1>1, <1>4, LoadUpdatesOK
<1>6. PICK h2 : h2 = l.hook
  OBVIOUS
<1>7. HookOK(g, pushed) /\ g.offset = h2.offset /\ g.loaded = h2.loaded /\ g.chains = h2.chains
  BY <1>2, <1>3, <1>4, <1>5, <1>6, OpenOK
<1>8. /\ HookOK(hook', pushed) /\ hook'.offset = g.offset
      /\ hook'.loaded = g.loaded /\ hook'.chains = g.chains
  BY <1>3, <1>4, <1>7, SendOK
<1> QED
  BY <1>1, <1>2, <1>6, <1>7, <1>8

(* loop, after a handler of the webhook. *)
LEMMA LoopSteady ==
  ASSUME Steady, NEW h, HookOK(h, pushed), NEW q, IsQueue(q, pushed), Cut(tqueue.events, q.events),
         NEW dropped, dropped \subseteq 1..pushed, Loop(h, q, dropped)
  PROVE  /\ HookOK(hook', pushed) /\ IsQueue(tqueue', pushed)
         /\ Logged(disk', unflushed', tqueue'.events, pushed) /\ excused' \subseteq 1..pushed
<1>1. PICK l : /\ l = load_updates(h, q)
               /\ HookOK(hook', pushed)
               /\ SetQueue(l.queue, Popped(l.queue), dropped)
  BY LoopIs
<1>2. pushed \in Nat /\ pushed <= MaxUpdates /\ chat \in [Updates -> 0..MaxChat] /\ IsQueue(tqueue, pushed)
  BY DeliveryAssumption DEF Steady
<1>3. IsQueue(l.queue, pushed) /\ Cut(q.events, l.queue.events)
  BY <1>1, <1>2, LoadUpdatesOK
<1>4. /\ GoodLog(tqueue.events, pushed) /\ GoodLog(l.queue.events, pushed)
      /\ IsLog(tqueue.events) /\ IsLog(q.events) /\ IsLog(l.queue.events)
  BY <1>2, <1>3 DEF IsQueue, GoodLog
<1>5. Cut(tqueue.events, l.queue.events)
  BY <1>3, <1>4, CutCut
<1>6. Logged(tqueue.events, Popped(l.queue), l.queue.events, pushed)
  BY <1>4, <1>5, CutWrites DEF Popped
<1>7. pushed <= pushed
  BY <1>2
<1> QED
  BY <1>1, <1>2, <1>3, <1>6, <1>7, SetQueueSteady


(* getUpdates reads from the head of the queue, or from the offset. *)
FromIs(offset, q, from) ==
  \/ from = get_queue_head(q)
  \/ offset > 0 /\ from = offset /\ GetOK(q, offset)

ReadsFrom(offset, q, r) ==
  \/ r.queue = q /\ r.events = <<>>
  \/ \E from \in Nat : /\ FromIs(offset, q, from)
                       /\ PopsFor(q, r.queue, from, TRUE, Expired) /\ Reads(q, r, from, Expired)

(* getUpdates with a negative offset clears the queue first. *)
LEMMA ClearedOK ==
  ASSUME Steady, NEW offset \in Int, offset >= -1, offset < MaxId, NEW c, c = Cleared(offset)
  PROVE  /\ IsQueue(c, pushed) /\ c.tail = tqueue.tail /\ Cut(tqueue.events, c.events)
         /\ offset >= 0 => c = tqueue
         /\ StoredOffset(offset) \in 0..(MaxId - 1)
         /\ StoredOffset(offset) = get_queue_head(c) \/ (offset > 0 /\ StoredOffset(offset) = offset)
<1>1. pushed \in Nat /\ IsQueue(tqueue, pushed) /\ MaxId \in Nat
  BY IdAssumption DEF Steady
<1>2. IsQueue(c, pushed) /\ c.tail = tqueue.tail /\ Cut(tqueue.events, c.events)
  <2>1. CASE offset < 0
    <3>1. c = clear(tqueue, -offset) /\ -offset \in Nat
      BY <2>1 DEF Cleared
    <3>2. PICK keep \in Nat : keep = -offset
      BY <3>1
    <3> QED
      BY <1>1, <3>1, <3>2, ClearIs
  <2>2. CASE ~(offset < 0)
    <3>1. c = tqueue
      BY <2>2 DEF Cleared
    <3>2. IsLog(tqueue.events) /\ Ends(tqueue.events, tqueue.tail)
      BY <1>1, QueueIs DEF IsQueue
    <3> QED
      BY <1>1, <3>1, <3>2, CutSame
  <2> QED
    BY <2>1, <2>2
<1>3. offset >= 0 => c = tqueue
  BY DEF Cleared
<1>4. get_queue_head(c) \in 0..(MaxId - 1)
  BY <1>1, <1>2, QueueHead
<1>5. StoredOffset(offset) = get_queue_head(c) \/ (offset > 0 /\ StoredOffset(offset) = offset)
  BY DEF StoredOffset
<1>6. StoredOffset(offset) \in 0..(MaxId - 1)
  BY <1>1, <1>4, <1>5
<1> QED
  BY <1>2, <1>3, <1>5, <1>6

(* What getUpdates reads. *)
LEMMA ReadOK ==
  ASSUME Steady, NEW offset \in Int, offset >= -1, offset < MaxId, NEW limit \in Nat,
         NEW c, c = Cleared(offset), NEW r, r = Read(offset, limit)
  PROVE  /\ IsQueue(r.queue, pushed) /\ r.queue.tail = tqueue.tail /\ Cut(c.events, r.queue.events)
         /\ ReadsFrom(offset, c, r)
<1>1. /\ IsQueue(c, pushed) /\ c.tail = tqueue.tail
      /\ StoredOffset(offset) \in 0..(MaxId - 1)
      /\ StoredOffset(offset) = get_queue_head(c) \/ (offset > 0 /\ StoredOffset(offset) = offset)
  BY ClearedOK
<1>2. pushed \in Nat /\ MaxId \in Nat
  BY IdAssumption DEF Steady
<1>3. PICK from : from = StoredOffset(offset)
  OBVIOUS
<1>4. CASE from <= 0
  <2>1. r = [queue |-> c, events |-> <<>>]
    BY <1>3, <1>4 DEF Read
  <2>2. IsLog(c.events) /\ Ends(c.events, c.tail)
    BY <1>1, QueueIs DEF IsQueue
  <2> QED
    BY <1>1, <2>1, <2>2, CutSame DEF ReadsFrom
<1>5. CASE ~(from <= 0)
  <2>1. PICK start : start = IF from < MaxId /\ GetOK(c, from) THEN from ELSE get_queue_head(c)
    OBVIOUS
  <2>2. PICK expired : expired = Expired
    OBVIOUS
  <2>3. PICK forget_previous \in BOOLEAN : forget_previous = TRUE
    OBVIOUS
  <2>4. Read(offset, limit) =
          IF from <= 0 THEN [queue |-> c, events |-> <<>>]
          ELSE do_get(c, IF from < MaxId /\ GetOK(c, from) THEN from ELSE get_queue_head(c), TRUE, Expired, limit)
    BY <1>3, Zenon DEF Read
  <2>5. r = do_get(c, start, forget_previous, expired, limit)
    BY <1>5, <2>1, <2>2, <2>3, <2>4, Zenon
  <2>6. get_queue_head(c) \in 0..(MaxId - 1)
    BY <1>1, <1>2, QueueHead
  <2>7. start \in 0..(MaxId - 1)
    BY <1>1, <1>3, <2>1, <2>6
  <2>8. start \in Int /\ start \in Nat
    BY <1>2, <2>7
  <2>9. /\ IsQueue(r.queue, pushed) /\ r.queue.tail = c.tail /\ Cut(c.events, r.queue.events)
        /\ PopsFor(c, r.queue, start, forget_previous, expired)
        /\ Reads(c, r, start, expired)
    BY <1>1, <1>2, <2>5, <2>8, GetIs
  <2>10. FromIs(offset, c, start)
    BY <1>1, <1>3, <2>1 DEF FromIs
  <2>11. PopsFor(c, r.queue, start, TRUE, Expired) /\ Reads(c, r, start, Expired)
    BY <2>2, <2>3, <2>9, Zenon
  <2>12. ReadsFrom(offset, c, r)
    BY <2>8, <2>10, <2>11 DEF ReadsFrom
  <2> QED
    BY <1>1, <2>9, <2>12
<1> QED
  BY <1>4, <1>5

(* What is read is in the queue afterwards. *)
LEMMA ReadEvents ==
  ASSUME NEW offset, NEW q, NEW n \in Nat, IsQueue(q, n), NEW r, IsQueue(r.queue, n), ReadsFrom(offset, q, r)
  PROVE  /\ r.events \in Seq(EventType) /\ Len(r.events) \in Nat
         /\ \A e \in Range(r.events) : /\ e \in Range(r.queue.events) /\ e.data \in 1..n
                                       /\ e.id + 1 \in 0..(MaxId - 1)
<1>1. IsLog(r.events) /\ \A e \in Range(r.events) : e \in Range(r.queue.events) /\ e.data # NoData
  <2>1. CASE r.queue = q /\ r.events = <<>>
    BY <2>1, LogEmpty, NothingInRange
  <2>2. CASE \E from : Reads(q, r, from, Expired)
    BY <2>2 DEF Reads
  <2> QED
    BY <2>1, <2>2 DEF ReadsFrom
<1>2. r.events \in Seq(EventType) /\ Len(r.events) \in Nat
  BY <1>1, LogIs
<1>3. \A e \in Range(r.queue.events) : e.id \in 1..(MaxId - 2) /\ e.data \in Nat /\ e.data <= n
  BY QueueIs
<1>4. ASSUME NEW e \in Range(r.events) PROVE e.data \in 1..n /\ e.id + 1 \in 0..(MaxId - 1)
  BY <1>1, <1>3, IdAssumption DEF NoData
<1> QED
  BY <1>1, <1>2, <1>4

(* What is written for it. *)
LEMMA ReadWrites ==
  ASSUME Steady, NEW offset \in Int, offset >= -1, offset < MaxId, NEW limit \in Nat,
         NEW r, r = Read(offset, limit)
  PROVE  Logged(tqueue.events, ReadRecords(offset, r.queue), r.queue.events, pushed)
<1>1. PICK c : c = Cleared(offset)
  OBVIOUS
<1>2. IsQueue(c, pushed) /\ Cut(tqueue.events, c.events)
  BY <1>1, ClearedOK
<1>3. IsQueue(r.queue, pushed) /\ Cut(c.events, r.queue.events)
  BY <1>1, ReadOK
<1>4. GoodLog(tqueue.events, pushed) /\ GoodLog(c.events, pushed) /\ GoodLog(r.queue.events, pushed)
  BY <1>2, <1>3 DEF Steady, IsQueue
<1>5. Logged(tqueue.events, ClearRecords(tqueue.events, c.events), c.events, pushed)
  BY <1>2, <1>4, ClearWrites
<1>6. Logged(c.events, PopRecords(c.events, r.queue.events), r.queue.events, pushed)
  BY <1>3, <1>4, CutWrites
<1>7. ReadRecords(offset, r.queue) =
        ClearRecords(tqueue.events, c.events) \o PopRecords(c.events, r.queue.events)
  BY <1>1, Zenon DEF ReadRecords
<1>8. PICK r1 : r1 = ClearRecords(tqueue.events, c.events)
  OBVIOUS
<1>9. PICK r2 : r2 = PopRecords(c.events, r.queue.events)
  OBVIOUS
<1>10. Logged(tqueue.events, r1 \o r2, r.queue.events, pushed)
  BY <1>5, <1>6, <1>8, <1>9, LoggedConcat
<1> QED
  BY <1>7, <1>8, <1>9, <1>10

(* The answer to getUpdates. *)
LEMMA AnswerSteady ==
  ASSUME Steady, NEW events \in Seq(EventType),
         \A e \in Range(events) : e.data \in 1..pushed /\ e.id + 1 \in 0..(MaxId - 1), Answer(events)
  PROVE  bot' \in 0..(MaxId - 1) /\ got' \subseteq 1..pushed
<1>1. bot \in 0..(MaxId - 1) /\ got \subseteq 1..pushed
  BY DEF Steady
<1>2. CASE UNCHANGED <<bot, got>>
  BY <1>1, <1>2
<1>3. ASSUME NEW n \in 1..Len(events), bot' = events[n].id + 1, got' = got \cup Data(SubSeq(events, 1, n))
      PROVE  bot' \in 0..(MaxId - 1) /\ got' \subseteq 1..pushed
  <2>1. \A i \in 1..Len(events) : events[i] \in Range(events)
    BY RangeIs
  <2>2. events[n].id + 1 \in 0..(MaxId - 1)
    BY <2>1
  <2>3. Data(SubSeq(events, 1, n)) \subseteq 1..pushed
    <3>1. /\ Len(events) \in Nat /\ Len(SubSeq(events, 1, n)) = n
          /\ \A i \in 1..n : SubSeq(events, 1, n)[i] = events[i] /\ i \in 1..Len(events)
      BY LenProperties
    <3> QED
      BY <2>1, <3>1 DEF Data
  <2> QED
    BY <1>1, <1>3, <2>2, <2>3
<1> QED
  BY <1>2, <1>3 DEF Answer


(* A connection that is not idle carries the first update of a chain that  *)
(* does not wait.                                                          *)
LEMMA CarriesHead ==
  ASSUME NEW h, NEW n \in Nat, HookOK(h, n), NEW k \in DOMAIN h.conns, h.conns[k] # 0
  PROVE  \E c \in DOMAIN h.chains : /\ h.conns[k] = Head(h.chains[c]) /\ c \notin Range(h.due)
                                    /\ h.conns[k] \in DOMAIN h.loaded
                                    /\ h.loaded[h.conns[k]].data \in 1..n
                                    /\ h.loaded[h.conns[k]].chain = c
<1>1. PICK c \in DOMAIN h.chains : h.conns[k] = Head(h.chains[c]) /\ c \notin Range(h.due)
  BY DEF HookOK, ConnsOK
<1>2. LoadedOK(h.loaded, n) /\ ChainsOK(h.loaded, h.chains)
  BY DEF HookOK
<1>3. Head(h.chains[c]) \in DOMAIN h.loaded /\ h.loaded[Head(h.chains[c])].chain = c
  BY <1>2, Heads
<1>4. h.loaded[Head(h.chains[c])].data \in 1..n
  BY <1>2, <1>3 DEF LoadedOK, LoadedType
<1> QED
  BY <1>1, <1>3, <1>4

(* forget of an update that is loaded. *)
LEMMA ForgetIs ==
  ASSUME NEW q, NEW n \in Nat, IsQueue(q, n), NEW id, NEW f, f = forget(q, id)
  PROVE  /\ IsQueue(f, n) /\ f.tail = q.tail /\ Cut(q.events, f.events) /\ Popping(q.events, f.events, {id})
<1>1. PICK ids : ids = {id}
  OBVIOUS
<1>2. f = pop(q, ids)
  BY <1>1 DEF forget
<1>3. /\ IsQueue(f, n) /\ Cut(q.events, f.events) /\ Popping(q.events, f.events, ids)
      /\ f = [tail |-> q.tail, events |-> f.events, gc |-> q.gc]
  BY <1>2, PopIs
<1> QED
  BY <1>1, <1>3

(* The handlers of the webhook. *)
LEMMA HookSteady ==
  ASSUME Steady, Hook
  PROVE  /\ HookOK(hook', pushed) /\ IsQueue(tqueue', pushed)
         /\ Logged(disk', unflushed', tqueue'.events, pushed) /\ excused' \subseteq 1..pushed
         /\ got' \subseteq 1..pushed /\ HookStep
<1>1. /\ pushed \in Nat /\ IsQueue(tqueue, pushed) /\ HookOK(hook, pushed) /\ got \subseteq 1..pushed
      /\ {} \subseteq 1..pushed
  BY DeliveryAssumption DEF Steady
<1>2. Cut(tqueue.events, tqueue.events)
  <2>1. IsLog(tqueue.events) /\ Ends(tqueue.events, tqueue.tail)
    BY <1>1, QueueIs DEF IsQueue
  <2> QED
    BY <2>1, CutSame
<1>3. CASE HookUpdate
  <2>1. PICK h : h = [hook EXCEPT !.told = FALSE, !.empty = FALSE]
    OBVIOUS
  <2>2. HookStep /\ got' = got /\ Loop(h, tqueue, {})
    BY <1>3, <2>1 DEF HookUpdate
  <2>3. HookOK(h, pushed)
    <3>1. IsHook(hook) /\ hook.offset \in 0..(MaxId - 1)
      BY <1>1 DEF HookOK
    <3>2. /\ IsHook(h) /\ h.offset = hook.offset /\ h.loaded = hook.loaded /\ h.chains = hook.chains
          /\ h.due = hook.due /\ h.conns = hook.conns
      BY <2>1, <3>1 DEF IsHook
    <3> QED
      BY <1>1, <3>1, <3>2, OtherOK
  <2> QED
    BY <1>1, <1>2, <2>2, <2>3, LoopSteady
<1>4. CASE HookTimer
  <2>1. HookStep /\ got' = got /\ Loop(hook, tqueue, {})
    BY <1>4 DEF HookTimer
  <2> QED
    BY <1>1, <1>2, <2>1, LoopSteady
<1>5. ASSUME NEW k \in 1..MaxConnections, HandleOk(k)
      PROVE  /\ HookOK(hook', pushed) /\ IsQueue(tqueue', pushed)
             /\ Logged(disk', unflushed', tqueue'.events, pushed) /\ excused' \subseteq 1..pushed
             /\ got' \subseteq 1..pushed /\ HookStep
  <2>1. k \in DOMAIN hook.conns /\ hook.conns[k] # 0 /\ HookStep
    BY <1>5 DEF HandleOk
  <2>2. PICK id : id = hook.conns[k]
    OBVIOUS
  <2>3. PICK keep \in BOOLEAN :
          /\ Loop(After([drop_event(hook, id) EXCEPT !.active = TRUE], k, keep), forget(tqueue, id), {})
          /\ got' = got \cup {hook.loaded[id].data}
    BY <1>5, <2>2 DEF HandleOk
  <2>4. PICK c \in DOMAIN hook.chains : /\ id = Head(hook.chains[c]) /\ c \notin Range(hook.due)
                                        /\ hook.loaded[id].data \in 1..pushed
    BY <1>1, <2>1, <2>2, CarriesHead
  <2>5. PICK d : d = [drop_event(hook, id) EXCEPT !.active = TRUE]
    OBVIOUS
  <2>6. PICK g : g = After(d, k, keep)
    OBVIOUS
  <2>7. HookOK(g, pushed)
    BY <1>1, <2>1, <2>2, <2>4, <2>5, <2>6, DropOK
  <2>8. PICK f : f = forget(tqueue, id)
    OBVIOUS
  <2>9. IsQueue(f, pushed) /\ Cut(tqueue.events, f.events)
    BY <1>1, <2>8, ForgetIs
  <2>10. Loop(g, f, {})
    BY <2>3, <2>5, <2>6, <2>8
  <2>11. got' \subseteq 1..pushed
    BY <1>1, <2>3, <2>4
  <2> QED
    BY <1>1, <2>1, <2>7, <2>9, <2>10, <2>11, LoopSteady
<1>6. ASSUME NEW k \in 1..MaxConnections, HandleError(k)
      PROVE  /\ HookOK(hook', pushed) /\ IsQueue(tqueue', pushed)
             /\ Logged(disk', unflushed', tqueue'.events, pushed) /\ excused' \subseteq 1..pushed
             /\ got' \subseteq 1..pushed /\ HookStep
  <2>1. k \in DOMAIN hook.conns /\ hook.conns[k] # 0 /\ HookStep /\ got' = got
    BY <1>6 DEF HandleError
  <2>2. PICK id : id = hook.conns[k]
    OBVIOUS
  <2>3. PICK keep \in BOOLEAN, retry_after \in RetryAfter :
          \/ Loop(After(drop_event(hook, id), k, keep), forget(tqueue, id), {hook.loaded[id].data})
          \/ Loop(After(Retried(hook, id, retry_after), k, keep), tqueue, {})
    BY <1>6, <2>2 DEF HandleError
  <2>4. PICK c \in DOMAIN hook.chains : /\ id = Head(hook.chains[c]) /\ c \notin Range(hook.due)
                                        /\ hook.loaded[id].data \in 1..pushed
    BY <1>1, <2>1, <2>2, CarriesHead
  <2>5. CASE Loop(After(drop_event(hook, id), k, keep), forget(tqueue, id), {hook.loaded[id].data})
    <3>1. PICK d : d = drop_event(hook, id)
      OBVIOUS
    <3>2. PICK g : g = After(d, k, keep)
      OBVIOUS
    <3>3. HookOK(g, pushed)
      BY <1>1, <2>1, <2>2, <2>4, <3>1, <3>2, DropOK
    <3>4. PICK f : f = forget(tqueue, id)
      OBVIOUS
    <3>5. IsQueue(f, pushed) /\ Cut(tqueue.events, f.events)
      BY <1>1, <3>4, ForgetIs
    <3>6. PICK dropped : dropped = {hook.loaded[id].data}
      OBVIOUS
    <3>7. Loop(g, f, dropped) /\ dropped \subseteq 1..pushed
      BY <2>4, <2>5, <3>1, <3>2, <3>4, <3>6
    <3> QED
      BY <1>1, <2>1, <3>3, <3>5, <3>7, LoopSteady
  <2>6. CASE Loop(After(Retried(hook, id, retry_after), k, keep), tqueue, {})
    <3>1. PICK g : g = After(Retried(hook, Head(hook.chains[c]), retry_after), k, keep)
      OBVIOUS
    <3>2. HookOK(g, pushed)
      BY <1>1, <2>1, <2>2, <2>4, <3>1, RetriedOK
    <3>3. Loop(g, tqueue, {})
      BY <2>4, <2>6, <3>1
    <3> QED
      BY <1>1, <1>2, <2>1, <3>2, <3>3, LoopSteady
  <2> QED
    BY <2>3, <2>5, <2>6
<1>7. ASSUME NEW k \in 1..MaxConnections, HandleHangup(k)
      PROVE  /\ HookOK(hook', pushed) /\ IsQueue(tqueue', pushed)
             /\ Logged(disk', unflushed', tqueue'.events, pushed) /\ excused' \subseteq 1..pushed
             /\ got' \subseteq 1..pushed /\ HookStep
  <2>1. PICK g : g = After(hook, k, FALSE)
    OBVIOUS
  <2>2. k \in DOMAIN hook.conns /\ hook.conns[k] = 0 /\ HookStep /\ got' = got /\ Loop(g, tqueue, {})
    BY <1>7, <2>1 DEF HandleHangup
  <2>3. HookOK(g, pushed)
    BY <1>1, <2>1, <2>2, HangupOK
  <2> QED
    BY <1>1, <1>2, <2>2, <2>3, LoopSteady
<1> QED
  BY <1>3, <1>4, <1>5, <1>6, <1>7 DEF Hook


(* getUpdates and the end of a long poll. *)
LEMMA PollSteady ==
  ASSUME Steady, Poll
  PROVE  /\ IsQueue(tqueue', pushed) /\ Logged(disk', unflushed', tqueue'.events, pushed)
         /\ excused' \subseteq 1..pushed /\ got' \subseteq 1..pushed /\ bot' \in 0..(MaxId - 1)
         /\ poll'.offset \in 0..(MaxId - 1) /\ poll'.limit \in Nat /\ PollStep
<1>1. /\ pushed \in Nat /\ IsQueue(tqueue, pushed) /\ MaxId \in Nat /\ pushed <= pushed
      /\ bot \in 0..(MaxId - 1) /\ got \subseteq 1..pushed /\ {} \subseteq 1..pushed
      /\ poll.offset \in 0..(MaxId - 1) /\ poll.limit \in Nat
  BY DeliveryAssumption, IdAssumption DEF Steady
<1>2. ASSUME NEW offset \in Int, offset >= -1, offset < MaxId, NEW limit \in Nat,
             NEW r, r = Read(offset, limit)
      PROVE  /\ IsQueue(r.queue, pushed) /\ Logged(tqueue.events, ReadRecords(offset, r.queue), r.queue.events, pushed)
             /\ r.events \in Seq(EventType)
             /\ \A e \in Range(r.events) : e.data \in 1..pushed /\ e.id + 1 \in 0..(MaxId - 1)
             /\ StoredOffset(offset) \in 0..(MaxId - 1)
  <2>1. PICK c : c = Cleared(offset)
    OBVIOUS
  <2>2. IsQueue(c, pushed) /\ StoredOffset(offset) \in 0..(MaxId - 1)
    BY <1>2, <2>1, ClearedOK
  <2>3. IsQueue(r.queue, pushed) /\ ReadsFrom(offset, c, r)
    BY <1>2, <2>1, ReadOK
  <2>4. Logged(tqueue.events, ReadRecords(offset, r.queue), r.queue.events, pushed)
    BY <1>2, ReadWrites
  <2>5. /\ r.events \in Seq(EventType)
        /\ \A e \in Range(r.events) : e.data \in 1..pushed /\ e.id + 1 \in 0..(MaxId - 1)
    BY <1>1, <2>2, <2>3, ReadEvents
  <2> QED
    BY <2>2, <2>3, <2>4, <2>5
<1>3. ASSUME NEW offset \in {bot, 0, -1}, NEW limit \in Limits, NEW timeout \in {0, PollTimeout},
             GetUpdates(offset, limit, timeout)
      PROVE  /\ IsQueue(tqueue', pushed) /\ Logged(disk', unflushed', tqueue'.events, pushed)
             /\ excused' \subseteq 1..pushed /\ got' \subseteq 1..pushed /\ bot' \in 0..(MaxId - 1)
             /\ poll'.offset \in 0..(MaxId - 1) /\ poll'.limit \in Nat /\ PollStep
  <2>1. offset \in Int /\ offset >= -1 /\ offset < MaxId /\ limit \in Nat
    <3>1. MaxId > 0
      BY <1>1
    <3> QED
      BY <1>1, <3>1, DeliveryAssumption
  <2>2. PICK r : r = Read(offset, limit)
    OBVIOUS
  <2>3. /\ SetQueue(r.queue, ReadRecords(offset, r.queue), DroppedBy(offset))
        /\ \/ /\ poll' = [on |-> TRUE, offset |-> StoredOffset(offset), limit |-> limit,
                          woken |-> FALSE, hard |-> timeout, slot |-> timeout,
                          waited |-> 0, kept |-> 0]
              /\ UNCHANGED <<bot, got>>
           \/ Answer(r.events) /\ UNCHANGED poll
        /\ PollStep
    BY <1>3, <2>2 DEF GetUpdates, do_get_updates
  <2>4. /\ IsQueue(r.queue, pushed) /\ Logged(tqueue.events, ReadRecords(offset, r.queue), r.queue.events, pushed)
        /\ r.events \in Seq(EventType)
        /\ \A e \in Range(r.events) : e.data \in 1..pushed /\ e.id + 1 \in 0..(MaxId - 1)
        /\ StoredOffset(offset) \in 0..(MaxId - 1)
    BY <1>2, <2>1, <2>2
  <2>5. DroppedBy(offset) \subseteq 1..pushed
    BY <1>1, QueuedIs DEF DroppedBy
  <2>6. IsQueue(tqueue', pushed) /\ Logged(disk', unflushed', tqueue'.events, pushed) /\ excused' \subseteq 1..pushed
    BY <1>1, <2>3, <2>4, <2>5, SetQueueSteady
  <2>7. bot' \in 0..(MaxId - 1) /\ got' \subseteq 1..pushed
    <3>1. CASE UNCHANGED <<bot, got>>
      BY <1>1, <3>1
    <3>2. CASE Answer(r.events)
      BY <2>4, <3>2, AnswerSteady
    <3> QED
      BY <2>3, <3>1, <3>2
  <2>8. poll'.offset \in 0..(MaxId - 1) /\ poll'.limit \in Nat
    BY <1>1, <2>1, <2>3, <2>4
  <2> QED
    BY <2>3, <2>6, <2>7, <2>8
<1>4. CASE LongPollTimeout
  <2>1. /\ poll.offset \in Int /\ poll.offset >= -1 /\ poll.offset < MaxId /\ poll.limit \in Nat
    BY <1>1
  <2>2. PICK r : r = Read(poll.offset, poll.limit)
    OBVIOUS
  <2>3. /\ SetQueue(r.queue, ReadRecords(poll.offset, r.queue), {}) /\ Answer(r.events)
        /\ poll' = NoPoll /\ PollStep
    BY <1>4, <2>2 DEF LongPollTimeout
  <2>4. /\ IsQueue(r.queue, pushed) /\ Logged(tqueue.events, ReadRecords(poll.offset, r.queue), r.queue.events, pushed)
        /\ r.events \in Seq(EventType)
        /\ \A e \in Range(r.events) : e.data \in 1..pushed /\ e.id + 1 \in 0..(MaxId - 1)
    BY <1>2, <2>1, <2>2
  <2>5. IsQueue(tqueue', pushed) /\ Logged(disk', unflushed', tqueue'.events, pushed) /\ excused' \subseteq 1..pushed
    BY <1>1, <2>3, <2>4, SetQueueSteady
  <2>6. bot' \in 0..(MaxId - 1) /\ got' \subseteq 1..pushed
    BY <2>3, <2>4, AnswerSteady
  <2>7. poll'.offset \in 0..(MaxId - 1) /\ poll'.limit \in Nat
    BY <1>1, <2>3 DEF NoPoll
  <2> QED
    BY <2>3, <2>5, <2>6, <2>7
<1> QED
  BY <1>3, <1>4 DEF Poll

(* add_update_impl. *)
LEMMA AddSteady ==
  ASSUME Steady, AddUpdate
  PROVE  /\ pushed' \in 0..MaxUpdates /\ pushed' = pushed + 1
         /\ IsQueue(tqueue', pushed') /\ Logged(disk', unflushed', tqueue'.events, pushed')
         /\ excused' \subseteq 1..pushed' /\ HookOK(hook', pushed')
         /\ poll'.offset \in 0..(MaxId - 1) /\ poll'.limit \in Nat
<1>1. /\ pushed \in Nat /\ pushed < MaxUpdates /\ IsQueue(tqueue, pushed) /\ HookOK(hook, pushed)
      /\ Logged(disk, unflushed, tqueue.events, pushed) /\ excused \subseteq 1..pushed
      /\ OnTime(poll) /\ poll.offset \in 0..(MaxId - 1) /\ poll.limit \in Nat
  BY DeliveryAssumption DEF Steady, AddUpdate
<1>2. PICK n : n = pushed + 1
  OBVIOUS
<1>3. /\ n \in Nat /\ n \in 0..MaxUpdates /\ pushed <= n /\ pushed' = n
      /\ 1..pushed \subseteq 1..n /\ n \in 1..n
  BY <1>1, <1>2, DeliveryAssumption DEF AddUpdate
<1>4. HookOK(hook, n)
  BY <1>1, <1>3, MoreUpdates
<1>5. HookOK(hook', n)
  <2>1. CASE hook' = [hook EXCEPT !.told = TRUE]
    <3>1. PICK g : g = hook'
      OBVIOUS
    <3>2. IsHook(hook) /\ hook.offset \in 0..(MaxId - 1)
      BY <1>1 DEF HookOK
    <3>3. /\ IsHook(g) /\ g.offset = hook.offset /\ g.loaded = hook.loaded /\ g.chains = hook.chains
          /\ g.due = hook.due /\ g.conns = hook.conns
      BY <2>1, <3>1, <3>2 DEF IsHook
    <3>4. HookOK(g, n)
      BY <1>3, <1>4, <3>2, <3>3, OtherOK
    <3> QED
      BY <3>1, <3>4
  <2> QED
    BY <1>4, <2>1 DEF AddUpdate
<1>6. poll'.offset \in 0..(MaxId - 1) /\ poll'.limit \in Nat
  <2>1. CASE poll' = long_poll_wakeup(poll)
    <3>1. long_poll_wakeup(poll).offset = poll.offset /\ long_poll_wakeup(poll).limit = poll.limit
      BY <1>1 DEF long_poll_wakeup, OnTime, IsPoll
    <3> QED
      BY <1>1, <2>1, <3>1
  <2> QED
    BY <1>1, <2>1 DEF AddUpdate
<1>7. IsQueue(tqueue', n) /\ Logged(disk', unflushed', tqueue'.events, n) /\ excused' \subseteq 1..n
  <2>1. CASE UNCHANGED <<tqueue, disk, unflushed>> /\ excused' = excused \cup {pushed + 1}
    <3>1. Logged(disk, unflushed, tqueue.events, n)
      BY <1>1, <1>3, LoggedMore
    <3>2. IsQueue(tqueue, n)
      <4>1. GoodLog(tqueue.events, n)
        BY <3>1, LoggedIs
      <4> QED
        BY <1>1, <1>3, <4>1 DEF IsQueue
    <3> QED
      BY <1>1, <1>2, <1>3, <2>1, <3>1, <3>2
  <2>2. ASSUME Len(tqueue.events) < MaxQueueEvents, NEW fresh \in FreshIds, NEW q, q = push(tqueue, pushed + 1, fresh),
               SetQueue(q, Popped(q), Queued(tqueue) \ Queued(q))
        PROVE  IsQueue(tqueue', n) /\ Logged(disk', unflushed', tqueue'.events, n) /\ excused' \subseteq 1..n
    <3>1. IsQueue(q, n) /\ Succeeds(tqueue.events, q.events)
      BY <1>1, <1>2, <2>2, PushIs
    <3>2. Logged(disk, unflushed, tqueue.events, n)
      BY <1>1, <1>3, LoggedMore
    <3>3. GoodLog(tqueue.events, n) /\ GoodLog(q.events, n)
      BY <3>1, <3>2, LoggedIs DEF IsQueue
    <3>4. Logged(tqueue.events, Popped(q), q.events, n)
      BY <3>1, <3>3, PopWrites DEF Popped
    <3>5. Queued(tqueue) \ Queued(q) \subseteq 1..n
      BY <1>1, <1>3, QueuedIs
    <3> QED
      BY <1>3, <2>2, <3>1, <3>4, <3>5, SetQueueSteady
  <2> QED
    BY <2>1, <2>2 DEF AddUpdate
<1> QED
  BY <1>2, <1>3, <1>5, <1>6, <1>7


(* run_gc. *)
LEMMA CollectSteady ==
  ASSUME Steady, CollectGarbage
  PROVE  IsQueue(tqueue', pushed) /\ Logged(disk', unflushed', tqueue'.events, pushed) /\ excused' \subseteq 1..pushed
<1>1. pushed \in Nat /\ IsQueue(tqueue, pushed) /\ pushed <= pushed /\ {} \subseteq 1..pushed
  BY DeliveryAssumption DEF Steady
<1>2. PICK q : q = run_gc(tqueue, Expired) /\ SetQueue(q, Popped(q), {})
  BY DEF CollectGarbage
<1>3. PICK expired : expired = Expired
  OBVIOUS
<1>4. q = run_gc(tqueue, expired)
  BY <1>2, <1>3, Zenon
<1>5. IsQueue(q, pushed) /\ Cut(tqueue.events, q.events)
  BY <1>1, <1>4, RunGcIs
<1>6. GoodLog(tqueue.events, pushed) /\ GoodLog(q.events, pushed)
  BY <1>1, <1>5 DEF IsQueue
<1>7. Logged(tqueue.events, Popped(q), q.events, pushed)
  BY <1>5, <1>6, CutWrites DEF Popped
<1> QED
  BY <1>1, <1>2, <1>5, <1>7, SetQueueSteady

(* setWebhook and deleteWebhook. *)
LEMMA SwitchSteady ==
  ASSUME Steady, Switch
  PROVE  IsQueue(tqueue', pushed) /\ Logged(disk', unflushed', tqueue'.events, pushed) /\ excused' \subseteq 1..pushed
<1>1. pushed \in Nat /\ IsQueue(tqueue, pushed) /\ pushed <= pushed
  BY DeliveryAssumption DEF Steady
<1>0. PICK drop \in BOOLEAN : \E q :
        /\ q = IF drop THEN clear(tqueue, 0) ELSE tqueue
        /\ SetQueue(q, ClearRecords(tqueue.events, q.events), Queued(tqueue) \ Queued(q))
  BY DEF Switch
<1>2. PICK q :
        /\ q = IF drop THEN clear(tqueue, 0) ELSE tqueue
        /\ SetQueue(q, ClearRecords(tqueue.events, q.events), Queued(tqueue) \ Queued(q))
  BY <1>0
<1>3. IsQueue(q, pushed) /\ Cut(tqueue.events, q.events)
  <2>1. CASE q = tqueue
    <3>1. IsLog(tqueue.events) /\ Ends(tqueue.events, tqueue.tail)
      BY <1>1, QueueIs DEF IsQueue
    <3> QED
      BY <1>1, <2>1, <3>1, CutSame
  <2>2. CASE q = clear(tqueue, 0)
    BY <1>1, <2>2, ClearIs
  <2> QED
    BY <1>2, <2>1, <2>2
<1>4. GoodLog(tqueue.events, pushed) /\ GoodLog(q.events, pushed)
  BY <1>1, <1>3 DEF IsQueue
<1>5. Logged(tqueue.events, ClearRecords(tqueue.events, q.events), q.events, pushed)
  BY <1>3, <1>4, ClearWrites
<1>6. Queued(tqueue) \ Queued(q) \subseteq 1..pushed
  BY <1>1, QueuedIs
<1> QED
  BY <1>1, <1>2, <1>3, <1>5, <1>6, SetQueueSteady

(* The records that reach the disk are those of a log, however many. *)
LEMMA DiskSteady ==
  ASSUME Steady
  PROVE  /\ pushed \in Nat
         /\ \A k \in 0..Len(unflushed) : GoodLog(Written(disk, SubSeq(unflushed, 1, k)), pushed)
         /\ Written(disk, unflushed) = tqueue.events /\ GoodLog(tqueue.events, pushed)
         /\ SubSeq(unflushed, 1, Len(unflushed)) = unflushed /\ Len(unflushed) \in Nat
<1>1. pushed \in Nat /\ Logged(disk, unflushed, tqueue.events, pushed)
  BY DeliveryAssumption DEF Steady
<1>2. GoodLog(tqueue.events, pushed)
  BY <1>1, LoggedIs
<1>3. unflushed \in Seq(RecordType)
  BY <1>1, LoggedIs
<1>4. SubSeq(unflushed, 1, Len(unflushed)) = unflushed /\ Len(unflushed) \in Nat
  BY <1>3, LenProperties, SubSeqFull
<1> QED
  BY <1>1, <1>2, <1>4 DEF Logged

(* A restart. *)
LEMMA CrashSteady ==
  ASSUME Steady, Crash
  PROVE  /\ IsQueue(tqueue', pushed) /\ Logged(disk', unflushed', tqueue'.events, pushed)
         /\ crashed' \in {"clean", "torn"}
         /\ crashed' # "torn" => tqueue'.events = tqueue.events /\ tqueue'.tail = tqueue.tail
<1>1. PICK k \in 0..Len(unflushed) : /\ disk' = Written(disk, SubSeq(unflushed, 1, k))
                                     /\ crashed' = IF k = Len(unflushed) THEN "clean" ELSE "torn"
  BY DEF Crash
<1>2. GoodLog(disk', pushed) /\ pushed \in Nat
  BY <1>1, DiskSteady
<1>3. unflushed' = <<>> /\ tqueue' = Replay(disk')
  BY DEF Crash
<1>4. IsQueue(tqueue', pushed) /\ tqueue'.events = disk'
  BY <1>2, <1>3, ReplayIsExact
<1>5. Logged(disk', <<>>, disk', pushed)
  BY <1>2, LoggedNothing
<1>6. ASSUME crashed' # "torn" PROVE tqueue'.events = tqueue.events /\ tqueue'.tail = tqueue.tail
  <2>1. disk' = tqueue.events
    BY <1>1, <1>6, DiskSteady
  <2>2. IsQueue(tqueue, pushed)
    BY DEF Steady
  <2> QED
    BY <1>4, <2>1, <2>2, TailSame
<1> QED
  BY <1>1, <1>3, <1>4, <1>5, <1>6

(* A tick. *)
LEMMA TickSteady ==
  ASSUME Steady, Tick
  PROVE  /\ HookOK(hook', pushed) /\ Keeps(hook, hook')
         /\ poll'.offset = poll.offset /\ poll'.limit = poll.limit
<1>1. pushed \in Nat /\ HookOK(hook, pushed) /\ OnTime(poll)
  BY DeliveryAssumption DEF Steady
<1>2. PICK g : g = hook'
  OBVIOUS
<1>3. IsHook(hook)
  BY <1>1 DEF HookOK
<1>4. PICK loaded : loaded = TickedLoaded(hook.loaded)
  OBVIOUS
<1>5. g = [hook EXCEPT !.active = FALSE, !.loaded = loaded]
  <2>1. hook' = [hook EXCEPT !.active = FALSE,
                             !.loaded = [id \in DOMAIN hook.loaded |->
                                           [hook.loaded[id] EXCEPT !.wake = Elapsed(hook.loaded[id].wake)]]]
    BY Zenon DEF Tick
  <2> QED
    BY <1>2, <1>4, <2>1, Zenon DEF TickedLoaded
<1>6. /\ IsHook(g) /\ g.offset = hook.offset /\ g.empty = hook.empty /\ g.loaded = loaded
      /\ g.chains = hook.chains /\ g.due = hook.due /\ g.conns = hook.conns
  BY <1>3, <1>5 DEF IsHook
<1>7. HookOK(g, pushed) /\ Keeps(hook, g)
  BY <1>1, <1>4, <1>6, TickOK
<1>8. poll'.offset = poll.offset /\ poll'.limit = poll.limit
  BY <1>1 DEF Tick, OnTime, IsPoll
<1> QED
  BY <1>2, <1>7, <1>8


(* Steady is inductive: every step, a crash at any record included. *)
LEMMA StepSteady == Steady /\ [Next]_vars => Steady'
<1> SUFFICES ASSUME Steady, [Next]_vars PROVE Steady'
  OBVIOUS
<1>1. OnTime(poll)'
  BY StepOnTime DEF Steady
<1>2. pushed \in Nat /\ MaxId \in Nat /\ 0 \in 0..(MaxId - 1)
  BY DeliveryAssumption, IdAssumption DEF Steady
<1>3. HookOK(NewHook, pushed) /\ NoPoll.offset \in 0..(MaxId - 1) /\ NoPoll.limit \in Nat
  BY <1>2, NewHookOK DEF NoPoll
<1>4. CASE AddUpdate
  <2>1. UNCHANGED <<chat, bot, mode, crashed, got>>
    BY <1>4 DEF AddUpdate
  <2>2. /\ pushed' \in 0..MaxUpdates /\ pushed' = pushed + 1
        /\ IsQueue(tqueue', pushed') /\ Logged(disk', unflushed', tqueue'.events, pushed')
        /\ excused' \subseteq 1..pushed' /\ HookOK(hook', pushed')
        /\ poll'.offset \in 0..(MaxId - 1) /\ poll'.limit \in Nat
    BY <1>4, AddSteady
  <2>3. 1..pushed \subseteq 1..pushed'
    BY <1>2, <2>2
  <2>4. got' \subseteq 1..pushed'
    BY <2>1, <2>3 DEF Steady
  <2> QED
    BY <1>1, <2>1, <2>2, <2>4 DEF Steady
<1>5. CASE CollectGarbage
  <2>1. UNCHANGED <<pushed, chat, poll, bot, hook, mode, crashed, got>>
    BY <1>5 DEF CollectGarbage
  <2>2. IsQueue(tqueue', pushed) /\ Logged(disk', unflushed', tqueue'.events, pushed) /\ excused' \subseteq 1..pushed
    BY <1>5, CollectSteady
  <2> QED
    BY <2>1, <2>2 DEF Steady
<1>6. CASE Flush
  <2>1. UNCHANGED <<tqueue, excused, pushed, chat, poll, bot, hook, mode, crashed, got>>
    BY <1>6 DEF Flush
  <2>2. disk' = tqueue.events /\ unflushed' = <<>> /\ GoodLog(tqueue.events, pushed)
    BY <1>6, DiskSteady DEF Flush
  <2>3. Logged(disk', unflushed', tqueue.events, pushed)
    BY <2>2, LoggedNothing
  <2> QED
    BY <2>1, <2>3 DEF Steady
<1>7. CASE Switch
  <2>1. UNCHANGED <<pushed, chat, bot, crashed, got>> /\ poll' = NoPoll /\ hook' = NewHook
        /\ mode' \in {"poll", "webhook"}
    BY <1>7 DEF Switch
  <2>2. IsQueue(tqueue', pushed) /\ Logged(disk', unflushed', tqueue'.events, pushed) /\ excused' \subseteq 1..pushed
    BY <1>7, SwitchSteady
  <2> QED
    BY <1>1, <1>3, <2>1, <2>2 DEF Steady
<1>8. CASE Crash
  <2>1. UNCHANGED <<excused, pushed, chat, bot, mode, got>> /\ poll' = NoPoll /\ hook' = NewHook
    BY <1>8 DEF Crash
  <2>2. /\ IsQueue(tqueue', pushed) /\ Logged(disk', unflushed', tqueue'.events, pushed)
        /\ crashed' \in {"clean", "torn"}
    BY <1>8, CrashSteady
  <2> QED
    BY <1>1, <1>3, <2>1, <2>2 DEF Steady
<1>9. CASE Tick
  <2>1. UNCHANGED <<tqueue, disk, unflushed, excused, pushed, chat, bot, mode, crashed, got>>
    BY <1>9 DEF Tick, queueVars
  <2>2. HookOK(hook', pushed) /\ poll'.offset = poll.offset /\ poll'.limit = poll.limit
    BY <1>9, TickSteady
  <2> QED
    BY <1>1, <2>1, <2>2 DEF Steady
<1>10. CASE Poll
  <2>1. /\ IsQueue(tqueue', pushed) /\ Logged(disk', unflushed', tqueue'.events, pushed)
        /\ excused' \subseteq 1..pushed /\ got' \subseteq 1..pushed /\ bot' \in 0..(MaxId - 1)
        /\ poll'.offset \in 0..(MaxId - 1) /\ poll'.limit \in Nat /\ PollStep
    BY <1>10, PollSteady
  <2>2. UNCHANGED <<pushed, chat, hook, mode, crashed>>
    BY <2>1 DEF PollStep
  <2> QED
    BY <1>1, <2>1, <2>2 DEF Steady
<1>11. CASE Hook
  <2>1. /\ HookOK(hook', pushed) /\ IsQueue(tqueue', pushed)
        /\ Logged(disk', unflushed', tqueue'.events, pushed) /\ excused' \subseteq 1..pushed
        /\ got' \subseteq 1..pushed /\ HookStep
    BY <1>11, HookSteady
  <2>2. UNCHANGED <<pushed, chat, poll, bot, mode, crashed>>
    BY <2>1 DEF HookStep
  <2> QED
    BY <1>1, <2>1, <2>2 DEF Steady
<1>12. CASE UNCHANGED vars
  BY <1>12 DEF Steady, vars, queueVars
<1> QED
  BY <1>4, <1>5, <1>6, <1>7, <1>8, <1>9, <1>10, <1>11, <1>12 DEF Next

(* The log the server finds when it starts. *)
LEMMA InitLog ==
  ASSUME Init
  PROVE  /\ GoodLog(disk, 0)
         /\ \A e \in Range(disk) : e.id = MaxId - 4 /\ e.data = NoData
<1>1. CASE disk = <<>>
  BY <1>1, LogEmpty, NothingInRange DEF GoodLog
<1>2. CASE disk = <<Event(MaxId - 4, NoData)>>
  <2>1. MaxId - 4 \in 1..(MaxId - 2) /\ NoData \in Nat
    <3>1. PICK f \in FreshIds : TRUE
      BY IdAssumption
    <3>2. f \in Nat /\ f # 0 /\ f + MaxUpdates + FutureIds < MaxId - 4 /\ MaxUpdates \in Nat /\ FutureIds \in Nat
          /\ MaxId \in Nat
      BY GapAssumption, IdAssumption, DeliveryAssumption
    <3> QED
      BY <3>2 DEF NoData
  <2>2. PICK e \in EventType : e = Event(MaxId - 4, NoData)
    BY <2>1, EventIs
  <2>3. e.id = MaxId - 4 /\ e.data = NoData
    BY <2>2, EventIs
  <2>4. disk = Append(<<>>, e)
    BY <1>2, <2>2
  <2>5. IsLog(disk) /\ Range(disk) = {e}
    BY <2>4, LogOne
  <2> QED
    BY <2>3, <2>5 DEF GoodLog, NoData
<1> QED
  BY <1>1, <1>2 DEF Init

(* And what start_up makes of it. *)
LEMMA InitSteady == Init => Steady
<1> SUFFICES ASSUME Init PROVE Steady
  OBVIOUS
<1>1. GoodLog(disk, 0)
  BY InitLog
<1>2. IsQueue(tqueue, 0) /\ tqueue.events = disk
  BY <1>1, ReplayIsExact DEF Init
<1>3. Logged(disk, unflushed, tqueue.events, 0)
  BY <1>1, <1>2, LoggedNothing DEF Init
<1>4. chat \in [Updates -> 0..MaxChat]
  <2>1. PICK t \in Traffic : chat = [u \in Updates |-> t[u].chat]
    BY DEF Init
  <2>2. t \in [1..MaxUpdates -> [chat : 0..MaxChat, life : 0..Forever]]
    BY DeliveryAssumption
  <2> QED
    BY <2>1, <2>2 DEF Updates
<1>5. OnTime(poll) /\ poll.offset = 0 /\ poll.limit = 0
  BY NoPollOnTime DEF Init, NoPoll
<1>6. HookOK(hook, 0)
  BY NewHookOK DEF Init
<1>7. 0 \in 0..(MaxId - 1) /\ 0 \in 0..MaxUpdates
  <2>1. PICK f \in FreshIds : TRUE
    BY IdAssumption
  <2> QED
    BY <2>1, IdAssumption, DeliveryAssumption
<1>8. /\ pushed = 0 /\ bot = 0 /\ mode \in {"poll", "webhook"} /\ crashed = "no" /\ got = {} /\ excused = {}
  BY DEF Init
<1> QED
  BY <1>2, <1>3, <1>4, <1>5, <1>6, <1>7, <1>8 DEF Steady

(* Steady implies what the run checks of the queue. *)
LEMMA SteadyConsistent == Steady => Consistent
<1> SUFFICES ASSUME Steady PROVE Consistent
  OBVIOUS
<1>1. IsQueue(tqueue, pushed) /\ pushed \in 0..MaxUpdates /\ MaxUpdates \in Nat /\ MaxId \in Nat
  BY DeliveryAssumption, IdAssumption DEF Steady
<1>2. /\ tqueue.events \in Seq(EventType) /\ tqueue.tail \in 0..(MaxId - 1)
      /\ \A e \in Range(tqueue.events) : /\ e.id \in 1..(MaxId - 2) /\ e.data \in Nat
                                         /\ e.id < tqueue.tail /\ e.data <= pushed
  BY <1>1, QueueIs
<1>3. \A k \in 1..Len(tqueue.events) : tqueue.events[k] \in Range(tqueue.events)
  BY <1>2, RangeIs
<1>4. \A k \in 1..Len(tqueue.events) :
        tqueue.events[k].id \in 1..(tqueue.tail - 1) /\ tqueue.events[k].data \in 0..MaxUpdates
  BY <1>1, <1>2, <1>3
<1>5. tqueue.gc \in 0..MaxUpdates /\ GcScheduled
  BY <1>1 DEF IsQueue, GcScheduled, Queued
<1>6. DOMAIN hook.conns \subseteq 1..MaxConnections
  BY DEF Steady, HookOK, ConnsOK
<1>7. bot \in 0..MaxId
  BY <1>1 DEF Steady
<1> QED
  BY <1>1, <1>2, <1>4, <1>5, <1>6, <1>7 DEF Steady, Consistent, TypeOK

(* The same for the log. *)
LEMMA SteadyRestart == Steady => RestartExact
<1> SUFFICES ASSUME Steady PROVE RestartExact
  OBVIOUS
<1>1. /\ pushed \in Nat
      /\ \A k \in 0..Len(unflushed) : GoodLog(Written(disk, SubSeq(unflushed, 1, k)), pushed)
      /\ Written(disk, unflushed) = tqueue.events /\ GoodLog(tqueue.events, pushed)
  BY DiskSteady
<1>2. ReplayExact
  <2>1. PICK q : q = Replay(Written(disk, unflushed))
    OBVIOUS
  <2>2. IsQueue(q, pushed) /\ q.events = tqueue.events
    BY <1>1, <2>1, ReplayIsExact
  <2>3. q.tail = tqueue.tail
    BY <2>2, TailSame DEF Steady
  <2> QED
    BY <2>1, <2>2, <2>3 DEF ReplayExact
<1>3. ReplayAccepts
  <2>1. ASSUME NEW n \in 0..Len(unflushed), NEW log, log = Written(disk, SubSeq(unflushed, 1, n)),
               NEW k \in 1..Len(log)
        PROVE  PushOK(Replay(SubSeq(log, 1, k - 1)), log[k].id)
    BY <1>1, <2>1, ReplayIsAccepted
  <2> QED
    BY <2>1 DEF ReplayAccepts
<1> QED
  BY <1>2, <1>3 DEF RestartExact

(* The same for the chains. *)
LEMMA SteadyScheduled == Steady => Scheduled
<1> SUFFICES ASSUME Steady PROVE Scheduled
  OBVIOUS
<1>1. /\ pushed \in Nat /\ LoadedOK(hook.loaded, pushed) /\ ChainsOK(hook.loaded, hook.chains)
      /\ DueOK(hook.loaded, hook.chains, hook.due) /\ ConnsOK(hook.chains, hook.due, hook.conns)
  BY DeliveryAssumption DEF Steady, HookOK
<1>2. /\ \A c \in DOMAIN hook.chains : Head(hook.chains[c]) # 0
      /\ \A c, d \in DOMAIN hook.chains : Head(hook.chains[c]) = Head(hook.chains[d]) => c = d
  BY <1>1, Heads
<1>3. hook.due \in Seq(DOMAIN hook.chains) /\ Nodup(hook.due)
  BY <1>1 DEF DueOK
<1>4. ASSUME NEW c \in DOMAIN hook.chains
      PROVE  hook.chains[c] # <<>> /\ Range(hook.chains[c]) \subseteq DOMAIN hook.loaded
  <2>1. hook.chains[c] \in Seq(DOMAIN hook.loaded) /\ hook.chains[c] # <<>>
    BY <1>1 DEF ChainsOK
  <2> QED
    BY <2>1, ElementsIn
<1>5. ASSUME NEW c \in DOMAIN hook.chains
      PROVE  Cardinality(Sent(c)) + Cardinality({k \in 1..Len(hook.due) : hook.due[k] = c}) = 1
  <2>1. PICK waits : waits = {k \in 1..Len(hook.due) : hook.due[k] = c}
    OBVIOUS
  <2>2. CASE c \in Range(hook.due)
    <3>1. ASSUME NEW k \in Sent(c) PROVE FALSE
      <4>1. k \in DOMAIN hook.conns /\ hook.conns[k] = Head(hook.chains[c]) /\ hook.conns[k] # 0
        BY <1>2 DEF Sent
      <4>2. PICK d \in DOMAIN hook.chains : hook.conns[k] = Head(hook.chains[d]) /\ d \notin Range(hook.due)
        BY <1>1, <4>1 DEF ConnsOK
      <4> QED
        BY <1>2, <2>2, <4>1, <4>2
    <3>2. Sent(c) = {}
      BY <3>1
    <3>3. PICK i \in 1..Len(hook.due) : hook.due[i] = c
      BY <1>3, <2>2, RangeIs
    <3>4. waits = {i}
      BY <1>3, <2>1, <3>3 DEF Nodup
    <3>5. Cardinality(waits) = 1
      BY <3>4, FS_Singleton
    <3>6. Cardinality(Sent(c)) = 0
      BY <3>2, FS_EmptySet
    <3> QED
      BY <2>1, <3>5, <3>6
  <2>3. CASE c \notin Range(hook.due)
    <3>1. waits = {}
      BY <1>3, <2>1, <2>3, RangeIs
    <3>2. PICK k \in DOMAIN hook.conns : hook.conns[k] = Head(hook.chains[c])
      BY <1>1, <2>3 DEF ConnsOK
    <3>3. Sent(c) = {k}
      <4>1. ASSUME NEW j \in Sent(c) PROVE j = k
        BY <1>1, <1>2, <3>2 DEF Sent, ConnsOK
      <4> QED
        BY <3>2, <4>1 DEF Sent
    <3>4. Cardinality(Sent(c)) = 1
      BY <3>3, FS_Singleton
    <3>5. Cardinality(waits) = 0
      BY <3>1, FS_EmptySet
    <3> QED
      BY <2>1, <3>4, <3>5
  <2> QED
    BY <2>2, <2>3
<1>6. ASSUME NEW k \in DOMAIN hook.conns, hook.conns[k] # 0
      PROVE  \E c \in DOMAIN hook.chains : k \in Sent(c)
  BY <1>1, <1>6 DEF ConnsOK, Sent
<1> QED
  BY <1>4, <1>5, <1>6 DEF Scheduled

(* The queue is well formed whatever the callers do: its events have       *)
(* identifiers below tail_id, only updates that were pushed are received   *)
(* or excused, the sender keeps to its connections, and run_gc is          *)
(* scheduled as long as an update is queued.                               *)
THEOREM AlwaysConsistent == Spec => []Consistent
  BY InitSteady, StepSteady, SteadyConsistent, PTL DEF Spec

(* After any crash, whatever part of the records was flushed, start_up     *)
(* replays the log into the queue it stands for: no event of it is refused *)
(* by do_push, and none is lost or added.                                  *)
THEOREM RestartAlwaysExact == Spec => []RestartExact
  BY InitSteady, StepSteady, SteadyRestart, PTL DEF Spec

(* WebhookActor never forgets a chain: a chain with a loaded update waits  *)
(* in queues_ or has its first update on a connection, never both and      *)
(* never twice, so that nothing is stuck and nothing is sent twice at a    *)
(* time.                                                                   *)
THEOREM ChainsAlwaysScheduled == Spec => []Scheduled
  BY InitSteady, StepSteady, SteadyScheduled, PTL DEF Spec

-------------------------------------------------------------------------------
(* What holds as long as no record was lost in a restart. *)

(* The events of the updates that are done with. *)
SeenBy(done) == {e \in EventType : e.data \in done}

Sound ==
  /\ ClassOK(tqueue, pushed)
  /\ Passed(bot, tqueue, pushed, SeenBy(got \cup excused))
  /\ Passed(poll.offset, tqueue, pushed, SeenBy(got \cup excused))
  /\ InStep(chat, hook, tqueue, pushed)
  /\ 1..pushed \subseteq Queued(tqueue) \cup got \cup excused
  /\ \A v \in got : \A u \in 1..(v - 1) : chat[u] = chat[v] /\ chat[u] # 0 => u \in got \cup excused

(* Whatever leaves the queue is done with. *)
LEMMA StillSound ==
  ASSUME Steady, Sound, Trimmed(tqueue, tqueue'), got \subseteq got', excused \subseteq excused',
         Queued(tqueue) \ Queued(tqueue') \subseteq got' \cup excused'
  PROVE  /\ ClassOK(tqueue', pushed)
         /\ \A b : Passed(b, tqueue, pushed, SeenBy(got \cup excused)) =>
                   Passed(b, tqueue', pushed, SeenBy(got' \cup excused'))
         /\ 1..pushed \subseteq Queued(tqueue') \cup got' \cup excused'
         /\ \A v \in got : \A u \in 1..(v - 1) : chat[u] = chat[v] /\ chat[u] # 0 => u \in got' \cup excused'
<1>1. IsQueue(tqueue, pushed)
  BY DEF Steady
<1>2. PICK q2 : q2 = tqueue'
  OBVIOUS
<1>3. ClassOK(q2, pushed)
  BY <1>1, <1>2, ClassTrimmed DEF Sound
<1>4. ASSUME NEW b, Passed(b, tqueue, pushed, SeenBy(got \cup excused))
      PROVE  Passed(b, q2, pushed, SeenBy(got' \cup excused'))
  <2>1. PICK seen : seen = SeenBy(got \cup excused)
    OBVIOUS
  <2>2. PICK seen2 : seen2 = SeenBy(got' \cup excused')
    OBVIOUS
  <2>3. \A e \in Range(q2.events) : (e.data # NoData /\ e \in seen) => e \in seen2
    BY <2>1, <2>2 DEF SeenBy
  <2>4. Passed(b, tqueue, pushed, seen) /\ Trimmed(tqueue, q2)
    BY <1>2, <1>4, <2>1
  <2>5. Passed(b, q2, pushed, seen2)
    BY <2>3, <2>4, PassedTrimmed
  <2> QED
    BY <2>2, <2>5
<1>5. 1..pushed \subseteq Queued(tqueue') \cup got' \cup excused'
  BY DEF Sound
<1>6. \A v \in got : \A u \in 1..(v - 1) : chat[u] = chat[v] /\ chat[u] # 0 => u \in got' \cup excused'
  BY DEF Sound
<1> QED
  BY <1>2, <1>3, <1>4, <1>5, <1>6

(* The updates that a change of the queue excuses. *)
LEMMA SetQueueDrops ==
  ASSUME NEW q, NEW records, NEW dropped, SetQueue(q, records, dropped)
  PROVE  /\ tqueue' = q /\ excused \subseteq excused' /\ dropped \subseteq excused'
         /\ (Queued(tqueue) \ Queued(q)) \cap Expired \subseteq excused'
BY DEF SetQueue

(* The events that get and run_gc remove. *)
LEMMA GoneIs ==
  ASSUME NEW q, NEW n, IsQueue(q, n), NEW r, IsQueue(r, n), NEW from, NEW forget_previous, NEW expired,
         PopsFor(q, r, from, forget_previous, expired), NEW u \in Queued(q) \ Queued(r)
  PROVE  \/ u \in expired
         \/ forget_previous /\ \E e \in Range(q.events) : e.data = u /\ u # NoData /\ e.id < from
<1>1. PICK ids : /\ Popping(q.events, r.events, ids)
                 /\ \A e \in Range(q.events) :
                      (e.id \in ids /\ e.data # NoData) =>
                        (forget_previous /\ e.id < from) \/ (e.id >= from /\ e.data \in expired)
  BY DEF PopsFor
<1>2. IsLog(q.events) /\ IsLog(r.events) /\ u \in Data(q.events) \ Data(r.events)
  BY QueueIs DEF Queued
<1>3. PICK e \in Range(q.events) : e.data = u /\ u # NoData /\ e.id \in ids
  BY <1>1, <1>2, PoppingData
<1> QED
  BY <1>1, <1>3

(* A queue that was cut holds no update that it did not hold before. *)
LEMMA QueuedTrimmed ==
  ASSUME NEW q, NEW n, IsQueue(q, n), NEW q2, IsQueue(q2, n), Trimmed(q, q2)
  PROVE  Queued(q2) \subseteq Queued(q)
<1>1. q.events \in Seq(EventType) /\ q2.events \in Seq(EventType)
  BY QueueIs
<1>2. ASSUME NEW u \in Data(q2.events) PROVE u \in Data(q.events)
  BY <1>1, IdsAre DEF Trimmed
<1> QED
  BY <1>2 DEF Queued

(* Twice trimmed. *)
LEMMA TrimmedTwice ==
  ASSUME NEW q, NEW n, IsQueue(q, n), NEW r, IsQueue(r, n), NEW s, Trimmed(q, r), Trimmed(r, s)
  PROVE  Trimmed(q, s)
<1>1. q.events \in Seq(EventType) /\ r.events \in Seq(EventType)
  BY QueueIs
<1>2. /\ \A i : i \in Ids(q.events) <=> \E e \in Range(q.events) : e.id = i
      /\ \A i : i \in Ids(r.events) <=> \E e \in Range(r.events) : e.id = i
  BY <1>1, IdsAre
<1>3. ASSUME NEW e \in Range(s.events)
      PROVE  e.id \in Ids(q.events) /\ (e.data # NoData => e \in Range(q.events))
  BY <1>2 DEF Trimmed
<1> QED
  BY <1>3 DEF Trimmed

(* The last event stays. *)
LEMMA CutTail ==
  ASSUME NEW q, NEW n, IsQueue(q, n), NEW r, IsQueue(r, n), Cut(q.events, r.events)
  PROVE  r.tail = q.tail
<1>1. /\ q.events \in Seq(EventType) /\ r.events \in Seq(EventType)
      /\ q.tail = 0 <=> Range(q.events) = {}
      /\ r.tail = 0 <=> Range(r.events) = {}
      /\ q.tail = 0 <=> q.events = <<>>
      /\ r.tail = 0 <=> r.events = <<>>
      /\ \A e \in Range(q.events) : e.id \in Nat
      /\ \A e \in Range(r.events) : e.id \in Nat
  <2>1. ASSUME NEW p, IsQueue(p, n)
        PROVE  /\ p.events \in Seq(EventType)
               /\ p.tail = 0 <=> Range(p.events) = {}
               /\ p.tail = 0 <=> p.events = <<>>
               /\ \A e \in Range(p.events) : e.id \in Nat
    <3>1. p.events \in Seq(EventType) /\ \A e \in Range(p.events) : e.id \in 1..(MaxId - 2)
      BY <2>1, QueueIs
    <3>2. p.tail = 0 <=> Range(p.events) = {}
      BY <2>1, QueueIs
    <3>3. p.tail = 0 <=> p.events = <<>>
      BY <2>1, QueueIs
    <3> QED
      BY <3>1, <3>2, <3>3
  <2> QED
    BY <2>1
<1>2. \A i : i \in Ids(q.events) <=> \E e \in Range(q.events) : e.id = i
  BY <1>1, IdsAre
<1>3. \A e \in Range(r.events) : e.id \in Ids(q.events)
  BY <1>2 DEF Cut, IsLast
<1>4. CASE Range(q.events) = {}
  BY <1>1, <1>2, <1>3, <1>4
<1>5. CASE Range(q.events) # {}
  <2>1. PICK e \in Range(r.events) : IsLast(q.events, e)
    BY <1>5 DEF Cut
  <2>2. PICK d \in Range(r.events) : r.tail = d.id + 1 /\ IsLast(r.events, d)
    BY <1>1, <2>1 DEF IsQueue, Ends
  <2>3. PICK f \in Range(q.events) : q.tail = f.id + 1 /\ IsLast(q.events, f)
    BY <1>1, <1>5 DEF IsQueue, Ends
  <2>4. e.id <= d.id /\ d.id <= f.id /\ f.id <= e.id
    BY <1>2, <1>3, <2>1, <2>2, <2>3 DEF IsLast
  <2> QED
    BY <1>1, <2>2, <2>3, <2>4
<1> QED
  BY <1>4, <1>5

(* loop, after what the handler has done. *)
LEMMA LoopSound ==
  ASSUME Steady, NEW h, HookOK(h, pushed), NEW q, IsQueue(q, pushed), Trimmed(tqueue, q), ClassOK(q, pushed),
         InStep(chat, h, q, pushed), NEW dropped, Loop(h, q, dropped)
  PROVE  /\ InStep(chat, hook', tqueue', pushed) /\ Trimmed(tqueue, tqueue')
         /\ excused \subseteq excused' /\ dropped \subseteq excused'
         /\ Queued(tqueue) \ Queued(tqueue') \subseteq (Queued(tqueue) \ Queued(q)) \cup excused'
<1>1. PICK l : /\ l = load_updates(h, q)
               /\ HookOK(hook', pushed) /\ hook'.offset = l.hook.offset
               /\ hook'.loaded = l.hook.loaded /\ hook'.chains = l.hook.chains
               /\ SetQueue(l.queue, Popped(l.queue), dropped)
  BY LoopIs
<1>2. pushed \in Nat /\ pushed <= MaxUpdates /\ chat \in [Updates -> 0..MaxChat] /\ IsQueue(tqueue, pushed)
  BY DeliveryAssumption DEF Steady
<1>3. /\ HookOK(l.hook, pushed) /\ IsQueue(l.queue, pushed) /\ l.queue.tail = q.tail
      /\ Cut(q.events, l.queue.events)
      /\ \/ /\ l.hook.loaded = h.loaded /\ l.hook.chains = h.chains
            /\ l.hook.offset = h.offset /\ l.queue = q
         \/ \E new : Fetched(h, q, l.hook, l.queue, StartAt(h, q), new)
  <2>1. l = load_updates(h, q)
    BY <1>1
  <2>2. HookOK(l.hook, pushed) /\ IsQueue(l.queue, pushed) /\ Cut(q.events, l.queue.events)
    BY <1>2, <2>1, LoadUpdatesOK
  <2>4. l.queue.tail = q.tail
    BY <2>2, CutTail
  <2>3. \/ /\ l.hook.loaded = h.loaded /\ l.hook.chains = h.chains
           /\ l.hook.offset = h.offset /\ l.queue = q
        \/ \E new : Fetched(h, q, l.hook, l.queue, StartAt(h, q), new)
    BY <1>2, <2>1, LoadUpdatesOK, Zenon
  <2> QED
    BY <2>2, <2>3, <2>4
<1>4. PICK g : g = l.hook
  OBVIOUS
<1>5. PICK q2 : q2 = l.queue
  OBVIOUS
<1>6. HookOK(g, pushed) /\ IsQueue(q2, pushed) /\ q2.tail = q.tail /\ Cut(q.events, q2.events)
  BY <1>3, <1>4, <1>5
<1>7. Trimmed(q, q2)
  BY <1>6, CutTrims
<1>8. InStep(chat, g, q2, pushed)
  <2>1. CASE g.loaded = h.loaded /\ g.chains = h.chains /\ g.offset = h.offset /\ q2 = q
    BY <2>1 DEF InStep
  <2>2. CASE \E new : Fetched(h, q, g, q2, StartAt(h, q), new)
    BY <1>2, <1>6, <2>2, InStepLoaded
  <2> QED
    BY <1>3, <1>4, <1>5, <2>1, <2>2
<1>9. InStep(chat, hook', q2, pushed)
  BY <1>1, <1>4, <1>8 DEF InStep
<1>10. /\ tqueue' = q2 /\ excused \subseteq excused' /\ dropped \subseteq excused'
       /\ (Queued(tqueue) \ Queued(q2)) \cap Expired \subseteq excused'
  BY <1>1, <1>5, SetQueueDrops
<1>11. Trimmed(tqueue, q2)
  BY <1>2, <1>7, TrimmedTwice
<1>12. ASSUME NEW u \in Queued(q) \ Queued(q2) PROVE u \in Expired
  <2>1. CASE q2 = q
    BY <1>12, <2>1
  <2>2. CASE \E new : Fetched(h, q, g, q2, StartAt(h, q), new)
    <3>1. PopsFor(q, q2, StartAt(h, q), FALSE, Expired)
      BY <2>2 DEF Fetched
    <3> QED
      BY <1>6, <1>12, <3>1, GoneIs
  <2> QED
    BY <1>3, <1>4, <1>5, <2>1, <2>2
<1>13. ASSUME NEW u \in Queued(tqueue) \ Queued(q2) PROVE u \in (Queued(tqueue) \ Queued(q)) \cup excused'
  BY <1>10, <1>12
<1> QED
  BY <1>9, <1>10, <1>11, <1>13

(* The updates of the chat before the one that is sent are done with. *)
LEMMA HeadInOrder ==
  ASSUME Steady, Sound, NEW k \in DOMAIN hook.conns, hook.conns[k] # 0, NEW v, v = hook.loaded[hook.conns[k]].data,
         NEW u \in 1..(v - 1), chat[u] = chat[v], chat[u] # 0
  PROVE  u \in got \cup excused
<1>1. /\ pushed \in Nat /\ IsQueue(tqueue, pushed) /\ HookOK(hook, pushed)
      /\ LoadedOK(hook.loaded, pushed) /\ ChainsOK(hook.loaded, hook.chains)
  BY DeliveryAssumption DEF Steady, HookOK
<1>2. PICK id : id = hook.conns[k]
  OBVIOUS
<1>3. PICK c \in DOMAIN hook.chains : /\ id = Head(hook.chains[c]) /\ id \in DOMAIN hook.loaded
                                      /\ hook.loaded[id].data \in 1..pushed /\ hook.loaded[id].chain = c
  BY <1>1, <1>2, CarriesHead
<1>4. u \in 1..pushed /\ u < v /\ u # NoData /\ u \in Nat /\ v \in Nat
  BY <1>1, <1>2, <1>3 DEF NoData
<1>5. ASSUME u \in Queued(tqueue) PROVE FALSE
  <2>1. tqueue.events \in Seq(EventType)
    BY <1>1, QueueIs
  <2>2. PICK e \in Range(tqueue.events) : e.data = u
    BY <1>5, <2>1, IdsAre DEF Queued
  <2>3. e.data # NoData /\ e.data <= hook.loaded[id].data
    BY <1>2, <1>4, <2>2
  <2>4. e.id \in DOMAIN hook.loaded
    BY <1>3, <2>3 DEF Sound, InStep, Tracks
  <2>5. hook.loaded[e.id].data = u
    BY <2>2, <2>3, <2>4 DEF Sound, InStep, Tracks
  <2>6. hook.loaded[e.id].chain = c
    <3>1. hook.loaded[e.id].chain = chat[u]
      BY <2>4, <2>5 DEF Sound, InStep, ByChat
    <3>2. hook.loaded[id].chain = chat[v]
      BY <1>2, <1>3 DEF Sound, InStep, ByChat
    <3> QED
      BY <1>3, <3>1, <3>2
  <2>7. hook.chains[c] \in Seq(DOMAIN hook.loaded) /\ hook.chains[c] # <<>> /\ e.id \in Range(hook.chains[c])
    BY <1>1, <2>4, <2>6 DEF ChainsOK
  <2>8. PICK j \in 1..Len(hook.chains[c]) : hook.chains[c][j] = e.id
    BY <2>7, RangeIs
  <2>9. id = hook.chains[c][1] /\ 1 \in 1..Len(hook.chains[c]) /\ Len(hook.chains[c]) \in Nat
    BY <1>3, <2>7, HeadIs
  <2>10. j # 1
    BY <1>2, <1>4, <2>5, <2>8, <2>9
  <2>11. 1 < j
    BY <2>9, <2>10
  <2>12. hook.loaded[hook.chains[c][1]].data < hook.loaded[hook.chains[c][j]].data
    BY <2>9, <2>11 DEF Sound, InStep, InChainOrder
  <2> QED
    BY <1>2, <1>4, <2>5, <2>8, <2>9, <2>12
<1> QED
  BY <1>4, <1>5 DEF Sound

(* The update that is dropped is the one that is forgotten. *)
LEMMA ForgetSound ==
  ASSUME Steady, Sound, NEW id \in DOMAIN hook.loaded, NEW f, f = forget(tqueue, id)
  PROVE  /\ IsQueue(f, pushed) /\ Trimmed(tqueue, f) /\ ClassOK(f, pushed)
         /\ Popping(tqueue.events, f.events, {id})
         /\ Queued(tqueue) \ Queued(f) \subseteq {hook.loaded[id].data}
<1>1. pushed \in Nat /\ IsQueue(tqueue, pushed)
  BY DeliveryAssumption DEF Steady
<1>2. /\ IsQueue(f, pushed) /\ f.tail = tqueue.tail /\ Cut(tqueue.events, f.events)
      /\ Popping(tqueue.events, f.events, {id})
  BY <1>1, ForgetIs
<1>3. Trimmed(tqueue, f)
  BY <1>1, <1>2, CutTrims
<1>4. ClassOK(f, pushed)
  BY <1>1, <1>3, ClassTrimmed DEF Sound
<1>5. ASSUME NEW u \in Queued(tqueue) \ Queued(f) PROVE u = hook.loaded[id].data
  <2>1. IsLog(tqueue.events) /\ IsLog(f.events) /\ u \in Data(tqueue.events) \ Data(f.events)
    BY <1>1, <1>2, QueueIs DEF Queued
  <2>2. PICK ids : ids = {id}
    OBVIOUS
  <2>3. Popping(tqueue.events, f.events, ids)
    BY <1>2, <2>2
  <2>4. PICK e \in Range(tqueue.events) : e.data = u /\ u # NoData /\ e.id \in ids
    BY <2>1, <2>3, PoppingData
  <2> QED
    BY <2>2, <2>4 DEF Sound, InStep, Tracks
<1> QED
  BY <1>2, <1>3, <1>4, <1>5

(* What a handler of the webhook does. *)
Handled ==
  /\ InStep(chat, hook', tqueue', pushed) /\ Trimmed(tqueue, tqueue')
  /\ got \subseteq got' /\ excused \subseteq excused'
  /\ Queued(tqueue) \ Queued(tqueue') \subseteq got' \cup excused'
  /\ \A v \in got' \ got : \A u \in 1..(v - 1) : chat[u] = chat[v] /\ chat[u] # 0 => u \in got \cup excused

(* A handler that leaves the queue alone. *)
LEMMA HandleQuiet ==
  ASSUME Steady, Sound, got' = got, NEW h, HookOK(h, pushed), InStep(chat, h, tqueue, pushed), Loop(h, tqueue, {})
  PROVE  Handled
<1>1. IsQueue(tqueue, pushed) /\ ClassOK(tqueue, pushed)
  BY DEF Steady, Sound
<1>2. Trimmed(tqueue, tqueue)
  BY <1>1, TrimmedSame
<1>3. PICK q : q = tqueue
  OBVIOUS
<1>4. IsQueue(q, pushed) /\ Trimmed(tqueue, q) /\ ClassOK(q, pushed) /\ InStep(chat, h, q, pushed) /\ Loop(h, q, {})
  BY <1>1, <1>2, <1>3
<1>5. /\ InStep(chat, hook', tqueue', pushed) /\ Trimmed(tqueue, tqueue')
      /\ excused \subseteq excused'
      /\ Queued(tqueue) \ Queued(tqueue') \subseteq (Queued(tqueue) \ Queued(q)) \cup excused'
  BY <1>4, LoopSound
<1> QED
  BY <1>3, <1>5 DEF Handled

(* A handler that is done with an update. *)
LEMMA HandleDrop ==
  ASSUME Steady, Sound, NEW k \in DOMAIN hook.conns, hook.conns[k] # 0, NEW keep \in BOOLEAN, NEW d, NEW dropped,
         \/ d = drop_event(hook, hook.conns[k])
         \/ d = [drop_event(hook, hook.conns[k]) EXCEPT !.active = TRUE],
         Loop(After(d, k, keep), forget(tqueue, hook.conns[k]), dropped),
         \/ got' = got \cup {hook.loaded[hook.conns[k]].data}
         \/ got' = got /\ dropped = {hook.loaded[hook.conns[k]].data}
  PROVE  Handled
<1>1. /\ pushed \in Nat /\ IsQueue(tqueue, pushed) /\ HookOK(hook, pushed)
  BY DeliveryAssumption DEF Steady
<1>2. PICK id : id = hook.conns[k]
  OBVIOUS
<1>3. PICK c \in DOMAIN hook.chains : /\ id = Head(hook.chains[c]) /\ c \notin Range(hook.due)
                                      /\ id \in DOMAIN hook.loaded
  BY <1>1, <1>2, CarriesHead
<1>4. PICK g : g = After(d, k, keep)
  OBVIOUS
<1>5. HookOK(g, pushed) /\ Drops(hook, c, g)
  BY <1>1, <1>2, <1>3, <1>4, DropOK
<1>6. PICK f : f = forget(tqueue, id)
  OBVIOUS
<1>7. /\ IsQueue(f, pushed) /\ Trimmed(tqueue, f) /\ ClassOK(f, pushed)
      /\ Popping(tqueue.events, f.events, {id})
      /\ Queued(tqueue) \ Queued(f) \subseteq {hook.loaded[id].data}
  BY <1>3, <1>6, ForgetSound
<1>8. InStep(chat, g, f, pushed)
  <2>1. InStep(chat, hook, tqueue, pushed) /\ Popping(tqueue.events, f.events, {Head(hook.chains[c])})
    BY <1>3, <1>7 DEF Sound
  <2> QED
    BY <1>1, <1>5, <1>7, <2>1, InStepDropped
<1>9. Loop(g, f, dropped)
  BY <1>2, <1>4, <1>6
<1>10. /\ InStep(chat, hook', tqueue', pushed) /\ Trimmed(tqueue, tqueue')
       /\ excused \subseteq excused' /\ dropped \subseteq excused'
       /\ Queued(tqueue) \ Queued(tqueue') \subseteq (Queued(tqueue) \ Queued(f)) \cup excused'
  BY <1>5, <1>7, <1>8, <1>9, LoopSound
<1>11. got \subseteq got' /\ hook.loaded[id].data \in got' \cup excused' /\ got' \subseteq got \cup {hook.loaded[id].data}
  BY <1>2, <1>10
<1>12. \A v \in got' \ got : \A u \in 1..(v - 1) : chat[u] = chat[v] /\ chat[u] # 0 => u \in got \cup excused
  <2>1. ASSUME NEW v \in got' \ got, NEW u \in 1..(v - 1), chat[u] = chat[v], chat[u] # 0
        PROVE  u \in got \cup excused
    <3>1. v = hook.loaded[hook.conns[k]].data
      BY <1>2, <1>11
    <3> QED
      BY <2>1, <3>1, HeadInOrder
  <2> QED
    BY <2>1
<1> QED
  BY <1>7, <1>10, <1>11, <1>12 DEF Handled

(* All handlers of the webhook. *)
LEMMA HookSound ==
  ASSUME Steady, Sound, Hook
  PROVE  Handled
<1>1. /\ pushed \in Nat /\ HookOK(hook, pushed) /\ InStep(chat, hook, tqueue, pushed)
      /\ ChainsOK(hook.loaded, hook.chains) /\ SameLoaded(hook.loaded, hook.loaded)
  BY DeliveryAssumption DEF Steady, Sound, HookOK, SameLoaded
<1>2. ASSUME NEW g, Keeps(hook, g) PROVE InStep(chat, g, tqueue, pushed)
  <2>1. g.offset = hook.offset /\ g.chains = hook.chains /\ SameLoaded(hook.loaded, g.loaded)
    BY <1>2 DEF Keeps
  <2> QED
    BY <1>1, <2>1, InStepSame
<1>3. CASE HookUpdate
  <2>1. PICK h : h = [hook EXCEPT !.told = FALSE, !.empty = FALSE]
    OBVIOUS
  <2>2. got' = got /\ Loop(h, tqueue, {})
    BY <1>3, <2>1 DEF HookUpdate
  <2>3. /\ IsHook(h) /\ h.offset = hook.offset /\ h.loaded = hook.loaded /\ h.chains = hook.chains
        /\ h.due = hook.due /\ h.conns = hook.conns
    BY <1>1, <2>1 DEF HookOK, IsHook
  <2>4. HookOK(h, pushed)
    <3>1. h.offset \in 0..(MaxId - 1)
      BY <1>1, <2>3 DEF HookOK
    <3> QED
      BY <1>1, <2>3, <3>1, OtherOK
  <2>5. InStep(chat, h, tqueue, pushed)
    BY <1>1, <2>3 DEF InStep
  <2> QED
    BY <2>2, <2>4, <2>5, HandleQuiet
<1>4. CASE HookTimer
  <2>1. got' = got /\ Loop(hook, tqueue, {})
    BY <1>4 DEF HookTimer
  <2> QED
    BY <1>1, <2>1, HandleQuiet
<1>5. ASSUME NEW k \in 1..MaxConnections, HandleOk(k) PROVE Handled
  <2>1. k \in DOMAIN hook.conns /\ hook.conns[k] # 0
    BY <1>5 DEF HandleOk
  <2>2. PICK keep \in BOOLEAN :
          /\ Loop(After([drop_event(hook, hook.conns[k]) EXCEPT !.active = TRUE], k, keep),
                  forget(tqueue, hook.conns[k]), {})
          /\ got' = got \cup {hook.loaded[hook.conns[k]].data}
    BY <1>5 DEF HandleOk
  <2>3. PICK d : d = [drop_event(hook, hook.conns[k]) EXCEPT !.active = TRUE]
    OBVIOUS
  <2>4. Loop(After(d, k, keep), forget(tqueue, hook.conns[k]), {})
    BY <2>2, <2>3
  <2> QED
    BY <2>1, <2>2, <2>3, <2>4, HandleDrop
<1>6. ASSUME NEW k \in 1..MaxConnections, HandleError(k) PROVE Handled
  <2>1. k \in DOMAIN hook.conns /\ hook.conns[k] # 0 /\ got' = got
    BY <1>6 DEF HandleError
  <2>2. PICK id : id = hook.conns[k]
    OBVIOUS
  <2>3. PICK keep \in BOOLEAN, retry_after \in RetryAfter :
          \/ Loop(After(drop_event(hook, id), k, keep), forget(tqueue, id), {hook.loaded[id].data})
          \/ Loop(After(Retried(hook, id, retry_after), k, keep), tqueue, {})
    BY <1>6, <2>2 DEF HandleError
  <2>4. CASE Loop(After(drop_event(hook, id), k, keep), forget(tqueue, id), {hook.loaded[id].data})
    <3>1. PICK d : d = drop_event(hook, hook.conns[k])
      OBVIOUS
    <3>2. PICK dropped : dropped = {hook.loaded[hook.conns[k]].data}
      OBVIOUS
    <3>3. Loop(After(d, k, keep), forget(tqueue, hook.conns[k]), dropped)
      BY <2>2, <2>4, <3>1, <3>2
    <3> QED
      BY <2>1, <3>1, <3>2, <3>3, HandleDrop
  <2>5. CASE Loop(After(Retried(hook, id, retry_after), k, keep), tqueue, {})
    <3>1. PICK c \in DOMAIN hook.chains : id = Head(hook.chains[c]) /\ c \notin Range(hook.due)
      BY <1>1, <2>1, <2>2, CarriesHead
    <3>2. PICK g : g = After(Retried(hook, Head(hook.chains[c]), retry_after), k, keep)
      OBVIOUS
    <3>3. HookOK(g, pushed) /\ Keeps(hook, g)
      BY <1>1, <2>1, <2>2, <3>1, <3>2, RetriedOK
    <3>4. Loop(g, tqueue, {})
      BY <2>5, <3>1, <3>2
    <3> QED
      BY <1>2, <2>1, <3>3, <3>4, HandleQuiet
  <2> QED
    BY <2>3, <2>4, <2>5
<1>7. ASSUME NEW k \in 1..MaxConnections, HandleHangup(k) PROVE Handled
  <2>1. PICK g : g = After(hook, k, FALSE)
    OBVIOUS
  <2>2. k \in DOMAIN hook.conns /\ hook.conns[k] = 0 /\ got' = got /\ Loop(g, tqueue, {})
    BY <1>7, <2>1 DEF HandleHangup
  <2>3. HookOK(g, pushed) /\ Keeps(hook, g)
    BY <1>1, <2>1, <2>2, HangupOK
  <2> QED
    BY <1>2, <2>2, <2>3, HandleQuiet
<1> QED
  BY <1>3, <1>4, <1>5, <1>6, <1>7 DEF Hook


(* getUpdates: what is forgotten was received, and the offset that is kept *)
(* for a long poll leaves nothing behind.                                  *)
LEMMA ReadSound ==
  ASSUME Steady, Sound, NEW offset \in Int, offset >= -1, offset < MaxId, NEW limit \in Nat,
         offset > 0 => Passed(offset, tqueue, pushed, SeenBy(got \cup excused)),
         NEW c, c = Cleared(offset), NEW r, r = Read(offset, limit), NEW records, NEW dropped,
         SetQueue(r.queue, records, dropped), Queued(tqueue) \ Queued(c) \subseteq dropped, got \subseteq got'
  PROVE  /\ Trimmed(tqueue, tqueue') /\ excused \subseteq excused'
         /\ Queued(tqueue) \ Queued(tqueue') \subseteq got' \cup excused'
         /\ Passed(StoredOffset(offset), tqueue', pushed, SeenBy(got' \cup excused'))
<1>1. pushed \in Nat /\ pushed <= MaxUpdates /\ IsQueue(tqueue, pushed)
  BY DeliveryAssumption DEF Steady
<1>2. /\ IsQueue(c, pushed) /\ c.tail = tqueue.tail /\ Cut(tqueue.events, c.events)
      /\ StoredOffset(offset) = get_queue_head(c) \/ (offset > 0 /\ StoredOffset(offset) = offset)
  BY ClearedOK
<1>3. PICK q2 : q2 = r.queue
  OBVIOUS
<1>4. IsQueue(q2, pushed) /\ q2.tail = tqueue.tail /\ Cut(c.events, q2.events) /\ ReadsFrom(offset, c, r)
  BY <1>3, ReadOK
<1>5. Trimmed(tqueue, c)
  BY <1>1, <1>2, CutTrims
<1>6. Trimmed(c, q2)
  BY <1>2, <1>4, CutTrims
<1>7. Trimmed(tqueue, q2)
  BY <1>1, <1>2, <1>5, <1>6, TrimmedTwice
<1>8. /\ tqueue' = q2 /\ excused \subseteq excused' /\ dropped \subseteq excused'
      /\ (Queued(tqueue) \ Queued(q2)) \cap Expired \subseteq excused'
  BY <1>3, SetQueueDrops
<1>9. ClassOK(c, pushed)
  BY <1>1, <1>5, ClassTrimmed DEF Sound
<1>10. PICK seen : seen = SeenBy(got \cup excused)
  OBVIOUS
<1>11. offset > 0 => Passed(offset, c, pushed, seen)
  <2>1. ASSUME offset > 0 PROVE Passed(offset, c, pushed, seen)
    <3>1. Passed(offset, tqueue, pushed, seen)
      BY <1>10, <2>1
    <3> QED
      BY <1>5, <3>1, PassedTrimmed
  <2> QED
    BY <2>1
<1>12. Passed(StoredOffset(offset), q2, pushed, SeenBy(got' \cup excused'))
  <2>1. Passed(StoredOffset(offset), c, pushed, seen)
    BY <1>1, <1>2, <1>9, <1>11, PassedHead
  <2>2. PICK b : b = StoredOffset(offset)
    OBVIOUS
  <2>3. PICK seen2 : seen2 = SeenBy(got' \cup excused')
    OBVIOUS
  <2>4. \A e \in Range(q2.events) : (e.data # NoData /\ e \in seen) => e \in seen2
    BY <1>8, <1>10, <2>3 DEF SeenBy
  <2>5. Passed(b, q2, pushed, seen2)
    BY <1>6, <2>1, <2>2, <2>4, PassedTrimmed
  <2> QED
    BY <2>2, <2>3, <2>5
<1>13. ASSUME NEW u \in Queued(c) \ Queued(q2) PROVE u \in Expired \cup got \cup excused
  <2>1. CASE q2 = c
    BY <1>13, <2>1
  <2>2. ASSUME NEW from \in Nat, FromIs(offset, c, from), PopsFor(c, r.queue, from, TRUE, Expired)
        PROVE  u \in Expired \cup got \cup excused
    <3>1. PICK expired : expired = Expired
      OBVIOUS
    <3>2. PICK forget_previous \in BOOLEAN : forget_previous = TRUE
      OBVIOUS
    <3>3. PopsFor(c, q2, from, forget_previous, expired)
      BY <1>3, <2>2, <3>1, <3>2, Zenon
    <3>4. \/ u \in expired
          \/ \E e \in Range(c.events) : e.data = u /\ u # NoData /\ e.id < from
      BY <1>2, <1>4, <1>13, <3>3, GoneIs
    <3>5. ASSUME NEW e \in Range(c.events), e.data = u, u # NoData, e.id < from PROVE u \in got \cup excused
      <4>1. Covered(c, from, seen)
        <5>1. CASE from = get_queue_head(c)
          BY <1>1, <1>2, <1>9, <5>1, PassedHead
        <5>2. CASE offset > 0 /\ from = offset /\ GetOK(c, offset)
          <6>1. from \in Nat \ {0} /\ Passed(from, c, pushed, seen) /\ GetOK(c, from)
            BY <1>11, <5>2
          <6> QED
            BY <1>1, <1>2, <6>1, PassedBelow
        <5> QED
          BY <2>2, <5>1, <5>2 DEF FromIs
      <4>2. e \in seen
        BY <3>5, <4>1 DEF Covered
      <4> QED
        BY <1>10, <3>5, <4>2 DEF SeenBy
    <3> QED
      BY <3>1, <3>4, <3>5
  <2> QED
    BY <1>3, <1>4, <2>1, <2>2 DEF ReadsFrom
<1>14. Queued(tqueue) \ Queued(q2) \subseteq got' \cup excused'
  BY <1>8, <1>13
<1> QED
  BY <1>7, <1>8, <1>12, <1>14

(* The answer: the bot asks next for what follows it. *)
LEMMA AnswerSound ==
  ASSUME NEW n \in Nat, NEW offset, NEW q, IsQueue(q, n), NEW r, IsQueue(r.queue, n), ClassOK(r.queue, n),
         ReadsFrom(offset, q, r), Answer(r.events), NEW done, got' \subseteq done,
         1..n \subseteq Queued(r.queue) \cup done
  PROVE  /\ bot' = bot \/ Passed(bot', r.queue, n, SeenBy(done))
         /\ got \subseteq got'
         /\ \A v \in got' \ got : \A u \in 1..(v - 1) : u \in done
<1>1. CASE UNCHANGED <<bot, got>>
  BY <1>1
<1>2. ASSUME NEW m \in 1..Len(r.events), bot' = r.events[m].id + 1,
             got' = got \cup Data(SubSeq(r.events, 1, m))
      PROVE  /\ Passed(bot', r.queue, n, SeenBy(done))
             /\ got \subseteq got'
             /\ \A v \in got' \ got : \A u \in 1..(v - 1) : u \in done
  <2>1. /\ r.events \in Seq(EventType) /\ Len(r.events) \in Nat
        /\ \A e \in Range(r.events) : e \in Range(r.queue.events) /\ e.data \in 1..n
    BY ReadEvents
  <2>2. r.events # <<>>
    BY <2>1
  <2>3. PICK from \in Nat : PopsFor(q, r.queue, from, TRUE, Expired) /\ Reads(q, r, from, Expired)
    BY <2>2 DEF ReadsFrom
  <2>4. PICK q2 : q2 = r.queue
    OBVIOUS
  <2>5. \A i \in 1..Len(r.events) : r.events[i] \in Range(r.events)
    BY <2>1, RangeIs
  <2>6. /\ IsLog(q2.events) /\ q2.events \in Seq(EventType)
        /\ \A e \in Range(q2.events) : e \in EventType /\ e.id \in Nat /\ e.data \in Nat
    BY <2>4, QueueIs, EventIs, IdAssumption
  <2>7. ASSUME NEW e \in Range(q2.events), e.data # NoData PROVE e.id >= from
    <3>1. PICK ids : /\ Popping(q.events, q2.events, ids)
                     /\ \A d \in Range(q.events) : d.id < from => d.id \in ids
      BY <2>3, <2>4 DEF PopsFor
    <3>2. e \in Range(q.events) /\ e.id \notin ids
      BY <2>7, <3>1 DEF Popping
    <3> QED
      BY <2>6, <3>1, <3>2
  <2>8. /\ Len(SubSeq(r.events, 1, m)) = m
        /\ \A i \in 1..m : SubSeq(r.events, 1, m)[i] = r.events[i] /\ i \in 1..Len(r.events)
    BY <2>1, LenProperties
  <2>9. ASSUME NEW k \in 1..m, NEW e \in Range(q2.events), e.data # NoData, e.id <= r.events[k].id
        PROVE  e.data \in got'
    <3>1. k \in 1..Len(r.events)
      BY <2>8
    <3>2. PICK i \in 1..k : e = r.events[i]
      BY <2>3, <2>4, <2>7, <2>9, <3>1 DEF Reads
    <3>3. i \in 1..m
      BY <2>1, <3>2
    <3> QED
      BY <1>2, <2>8, <2>9, <3>2, <3>3 DEF Data
  <2>10. Passed(bot', r.queue, n, SeenBy(done))
    <3>1. PICK e \in Range(q2.events) : e = r.events[m]
      BY <2>1, <2>4, <2>5
    <3>2. \A d \in Range(q2.events) : (d.data # NoData /\ d.id <= e.id) => d \in SeenBy(done)
      <4>1. m \in 1..m
        BY <2>1
      <4> QED
        BY <2>6, <2>9, <3>1, <4>1 DEF SeenBy
    <3>3. Passed(e.id + 1, q2, n, SeenBy(done))
      BY <2>4, <3>2, PassedAfter
    <3> QED
      BY <1>2, <2>4, <3>1, <3>3
  <2>11. ASSUME NEW v \in got' \ got, NEW u \in 1..(v - 1) PROVE u \in done
    <3>1. PICK k \in 1..m : v = r.events[k].data
      BY <1>2, <2>8, <2>11 DEF Data
    <3>2. PICK f \in Range(q2.events) : f = r.events[k] /\ f.data = v /\ v \in 1..n
      BY <2>1, <2>4, <2>5, <2>8, <3>1
    <3>3. u \in 1..n /\ u <= v /\ u # NoData
      BY <3>2 DEF NoData
    <3>4. ASSUME u \in Queued(q2) PROVE u \in done
      <4>1. PICK e \in Range(q2.events) : e.data = u
        BY <2>6, <3>4, IdsAre DEF Queued
      <4>2. e.id <= f.id
        BY <2>6, <3>2, <3>3, <4>1, InIdOrder
      <4> QED
        BY <2>9, <3>2, <3>3, <4>1, <4>2
    <3> QED
      BY <2>4, <3>3, <3>4
  <2> QED
    BY <1>2, <2>10, <2>11
<1> QED
  BY <1>1, <1>2 DEF Answer


(* More updates may be done with. *)
LEMMA PassedMore ==
  ASSUME NEW b, NEW q, NEW n, NEW done, NEW done2, Passed(b, q, n, SeenBy(done)), done \subseteq done2
  PROVE  Passed(b, q, n, SeenBy(done2))
BY DEF Passed, Covered, SeenBy

(* getUpdates, and the end of a long poll. *)
LEMMA AnsweredSound ==
  ASSUME Steady, Sound, NEW offset \in Int, offset >= -1, offset < MaxId, NEW limit \in Nat,
         offset > 0 => Passed(offset, tqueue, pushed, SeenBy(got \cup excused)),
         NEW c, c = Cleared(offset), NEW r, r = Read(offset, limit), NEW records, NEW dropped,
         SetQueue(r.queue, records, dropped), Queued(tqueue) \ Queued(c) \subseteq dropped,
         Answer(r.events) \/ UNCHANGED <<bot, got>>, UNCHANGED <<pushed, chat, hook>>,
         poll'.offset = 0 \/ poll'.offset = poll.offset \/ poll'.offset = StoredOffset(offset)
  PROVE  Sound'
<1>1. got \subseteq got'
  BY DEF Answer
<1>2. /\ Trimmed(tqueue, tqueue') /\ excused \subseteq excused'
      /\ Queued(tqueue) \ Queued(tqueue') \subseteq got' \cup excused'
      /\ Passed(StoredOffset(offset), tqueue', pushed, SeenBy(got' \cup excused'))
  BY <1>1, ReadSound
<1>3. /\ ClassOK(tqueue', pushed)
      /\ \A b : Passed(b, tqueue, pushed, SeenBy(got \cup excused)) =>
                Passed(b, tqueue', pushed, SeenBy(got' \cup excused'))
      /\ 1..pushed \subseteq Queued(tqueue') \cup got' \cup excused'
      /\ \A v \in got : \A u \in 1..(v - 1) : chat[u] = chat[v] /\ chat[u] # 0 => u \in got' \cup excused'
  BY <1>1, <1>2, StillSound
<1>4. Passed(poll'.offset, tqueue', pushed, SeenBy(got' \cup excused'))
  <2>1. CASE poll'.offset = 0
    BY <2>1 DEF Passed
  <2>2. CASE poll'.offset = poll.offset
    BY <1>3, <2>2 DEF Sound
  <2>3. CASE poll'.offset = StoredOffset(offset)
    BY <1>2, <2>3
  <2> QED
    BY <2>1, <2>2, <2>3
<1>5. Passed(bot, tqueue', pushed, SeenBy(got' \cup excused'))
  BY <1>3 DEF Sound
<1>6. /\ Passed(bot', tqueue', pushed, SeenBy(got' \cup excused'))
      /\ \A v \in got' : \A u \in 1..(v - 1) : chat[u] = chat[v] /\ chat[u] # 0 => u \in got' \cup excused'
  <2>1. CASE UNCHANGED <<bot, got>>
    BY <1>3, <1>5, <2>1
  <2>2. CASE Answer(r.events)
    <3>1. IsQueue(c, pushed) /\ pushed \in Nat
      BY ClearedOK, DeliveryAssumption DEF Steady
    <3>2. IsQueue(r.queue, pushed) /\ ReadsFrom(offset, c, r)
      BY ReadOK
    <3>3. tqueue' = r.queue
      BY SetQueueDrops
    <3>4. PICK done : done = got' \cup excused'
      OBVIOUS
    <3>5. ClassOK(r.queue, pushed) /\ got' \subseteq done /\ 1..pushed \subseteq Queued(r.queue) \cup done
      BY <1>3, <3>3, <3>4
    <3>6. /\ bot' = bot \/ Passed(bot', r.queue, pushed, SeenBy(done))
          /\ \A v \in got' \ got : \A u \in 1..(v - 1) : u \in done
      BY <2>2, <3>1, <3>2, <3>5, AnswerSound
    <3>7. Passed(bot', tqueue', pushed, SeenBy(got' \cup excused'))
      BY <1>5, <3>3, <3>4, <3>6
    <3>8. ASSUME NEW v \in got', NEW u \in 1..(v - 1), chat[u] = chat[v], chat[u] # 0
          PROVE  u \in got' \cup excused'
      BY <1>3, <3>4, <3>6, <3>8
    <3> QED
      BY <3>7, <3>8
  <2> QED
    BY <2>1, <2>2
<1>7. InStep(chat, hook, tqueue', pushed)
  <2>1. PICK q2 : q2 = tqueue'
    OBVIOUS
  <2>2. InStep(chat, hook, q2, pushed)
    BY <1>2, <2>1, InStepTrimmed DEF Sound
  <2> QED
    BY <2>1, <2>2
<1> QED
  BY <1>3, <1>4, <1>6, <1>7 DEF Sound

(* getUpdates, the end of a long poll and its loss. *)
LEMMA PollSound ==
  ASSUME Steady, Sound, Poll
  PROVE  Sound'
<1>1. /\ bot \in 0..(MaxId - 1) /\ poll.offset \in 0..(MaxId - 1) /\ poll.limit \in Nat /\ MaxId \in Nat
      /\ Limits \subseteq Nat
  BY IdAssumption, DeliveryAssumption DEF Steady
<1>2. ASSUME NEW offset \in {bot, 0, -1}, NEW limit \in Limits, NEW timeout \in {0, PollTimeout},
             GetUpdates(offset, limit, timeout)
      PROVE  Sound'
  <2>1. offset \in Int /\ offset >= -1 /\ offset < MaxId /\ limit \in Nat
    <3>1. MaxId > 0
      BY <1>1
    <3> QED
      BY <1>1, <3>1
  <2>2. offset > 0 => Passed(offset, tqueue, pushed, SeenBy(got \cup excused))
    <3>1. offset > 0 => offset = bot
      OBVIOUS
    <3> QED
      BY <3>1 DEF Sound
  <2>3. PICK r : r = Read(offset, limit)
    OBVIOUS
  <2>4. PICK c : c = Cleared(offset)
    OBVIOUS
  <2>5. /\ SetQueue(r.queue, ReadRecords(offset, r.queue), DroppedBy(offset))
        /\ \/ /\ poll' = [on |-> TRUE, offset |-> StoredOffset(offset), limit |-> limit,
                          woken |-> FALSE, hard |-> timeout, slot |-> timeout,
                          waited |-> 0, kept |-> 0]
              /\ UNCHANGED <<bot, got>>
           \/ Answer(r.events) /\ UNCHANGED poll
        /\ UNCHANGED <<pushed, chat, hook>>
    BY <1>2, <2>3 DEF GetUpdates, do_get_updates, PollStep
  <2>6. PICK dropped : dropped = DroppedBy(offset)
    OBVIOUS
  <2>7. PICK records : records = ReadRecords(offset, r.queue)
    OBVIOUS
  <2>8. SetQueue(r.queue, records, dropped) /\ Queued(tqueue) \ Queued(c) \subseteq dropped
    BY <2>4, <2>5, <2>6, <2>7 DEF DroppedBy
  <2>9. /\ Answer(r.events) \/ UNCHANGED <<bot, got>>
        /\ poll'.offset = poll.offset \/ poll'.offset = StoredOffset(offset)
    BY <2>5
  <2> QED
    BY <2>1, <2>2, <2>3, <2>4, <2>5, <2>8, <2>9, AnsweredSound
<1>3. CASE LongPollTimeout
  <2>1. PICK offset : offset = poll.offset
    OBVIOUS
  <2>2. PICK limit : limit = poll.limit
    OBVIOUS
  <2>3. offset \in Int /\ offset >= -1 /\ offset < MaxId /\ limit \in Nat /\ offset >= 0
    BY <1>1, <2>1, <2>2
  <2>4. Passed(offset, tqueue, pushed, SeenBy(got \cup excused))
    BY <2>1 DEF Sound
  <2>5. PICK r : r = Read(offset, limit)
    OBVIOUS
  <2>6. PICK c : c = Cleared(offset)
    OBVIOUS
  <2>7. c = tqueue
    BY <2>3, <2>6, ClearedOK
  <2>8. PICK records : records = ReadRecords(offset, r.queue)
    OBVIOUS
  <2>9. SetQueue(r.queue, records, {}) /\ Answer(r.events) /\ poll' = NoPoll /\ UNCHANGED <<pushed, chat, hook>>
    BY <1>3, <2>1, <2>2, <2>5, <2>8 DEF LongPollTimeout, PollStep
  <2>10. Queued(tqueue) \ Queued(c) \subseteq {} /\ poll'.offset = 0
    BY <2>7, <2>9 DEF NoPoll
  <2> QED
    BY <2>3, <2>4, <2>5, <2>6, <2>9, <2>10, AnsweredSound
<1> QED
  BY <1>2, <1>3 DEF Poll

(* add_update_impl. *)
LEMMA AddSound ==
  ASSUME Steady, Sound, AddUpdate
  PROVE  Sound'
<1>1. /\ pushed \in Nat /\ pushed < MaxUpdates /\ IsQueue(tqueue, pushed) /\ HookOK(hook, pushed)
      /\ OnTime(poll) /\ bot \in Nat /\ poll.offset \in Nat
  BY DeliveryAssumption, IdAssumption DEF Steady, AddUpdate
<1>2. PICK n : n = pushed + 1
  OBVIOUS
<1>3. /\ n \in Nat /\ pushed <= n /\ UNCHANGED <<chat, bot, got>> /\ pushed' = n
      /\ 1..n = 1..pushed \cup {n}
  BY <1>1, <1>2 DEF AddUpdate
<1>4. poll'.offset = poll.offset
  <2>1. CASE poll' = long_poll_wakeup(poll)
    <3>1. long_poll_wakeup(poll).offset = poll.offset
      BY <1>1 DEF long_poll_wakeup, OnTime, IsPoll
    <3> QED
      BY <2>1, <3>1
  <2> QED
    BY <2>1 DEF AddUpdate
<1>5. hook'.loaded = hook.loaded /\ hook'.chains = hook.chains /\ hook'.offset = hook.offset
  <2>1. CASE hook' = [hook EXCEPT !.told = TRUE]
    BY <1>1, <2>1 DEF HookOK, IsHook
  <2> QED
    BY <2>1 DEF AddUpdate
<1>6. PICK done : done = got \cup excused
  OBVIOUS
<1>7. PICK done2 : done2 = got' \cup excused'
  OBVIOUS
<1>8. /\ ClassOK(tqueue, pushed) /\ Passed(bot, tqueue, pushed, SeenBy(done))
      /\ Passed(poll.offset, tqueue, pushed, SeenBy(done)) /\ InStep(chat, hook, tqueue, pushed)
      /\ 1..pushed \subseteq Queued(tqueue) \cup done
      /\ \A v \in got : \A u \in 1..(v - 1) : chat[u] = chat[v] /\ chat[u] # 0 => u \in done
  BY <1>6 DEF Sound
<1>9. /\ done \subseteq done2 /\ ClassOK(tqueue', n) /\ Passed(bot, tqueue', n, SeenBy(done))
      /\ Passed(poll.offset, tqueue', n, SeenBy(done)) /\ InStep(chat, hook, tqueue', n)
      /\ 1..n \subseteq Queued(tqueue') \cup done2
  <2>1. CASE UNCHANGED tqueue /\ excused' = excused \cup {pushed + 1}
    <3>1. done \subseteq done2 /\ n \in done2
      BY <1>2, <1>3, <1>6, <1>7, <2>1
    <3>2. /\ ClassOK(tqueue, n) /\ Passed(bot, tqueue, n, SeenBy(done))
          /\ Passed(poll.offset, tqueue, n, SeenBy(done))
      BY <1>1, <1>3, <1>8, MorePassed
    <3>3. InStep(chat, hook, tqueue, n)
      BY <1>1, <1>3, <1>8, InStepMore
    <3> QED
      BY <1>3, <1>8, <2>1, <3>1, <3>2, <3>3
  <2>2. ASSUME Len(tqueue.events) < MaxQueueEvents, NEW fresh \in FreshIds, NEW q, q = push(tqueue, pushed + 1, fresh),
               SetQueue(q, Popped(q), Queued(tqueue) \ Queued(q))
        PROVE  /\ done \subseteq done2 /\ ClassOK(tqueue', n) /\ Passed(bot, tqueue', n, SeenBy(done))
               /\ Passed(poll.offset, tqueue', n, SeenBy(done)) /\ InStep(chat, hook, tqueue', n)
               /\ 1..n \subseteq Queued(tqueue') \cup done2
    <3>1. PICK id : id = NewId(tqueue, fresh)
      OBVIOUS
    <3>2. Pushed(tqueue, q, id, pushed)
      BY <1>1, <2>2, <3>1, PushedIs
    <3>3. ClassOK(q, n)
      BY <1>1, <1>2, <1>8, <3>2, ClassPushed
    <3>4. Passed(bot, q, n, SeenBy(done)) /\ Passed(poll.offset, q, n, SeenBy(done))
      BY <1>1, <1>2, <1>8, <3>2, PassedPushed
    <3>5. InStep(chat, hook, q, n)
      BY <1>1, <1>2, <1>8, <3>2, InStepPushed
    <3>6. /\ tqueue' = q /\ excused \subseteq excused' /\ Queued(tqueue) \ Queued(q) \subseteq excused'
      BY <2>2, SetQueueDrops
    <3>7. done \subseteq done2
      BY <1>3, <1>6, <1>7, <3>6
    <3>8. n \in Queued(q)
      <4>1. q.events \in Seq(EventType)
        <5>1. IsQueue(q, n)
          BY <1>2, <3>2 DEF Pushed
        <5> QED
          BY <5>1, QueueIs
      <4>2. PICK e : e = Event(id, pushed + 1)
        OBVIOUS
      <4>3. e \in Range(q.events) /\ e.data = n
        BY <1>2, <3>2, <4>2, EventIs DEF Pushed
      <4>4. n # NoData
        BY <1>1, <1>2 DEF NoData
      <4> QED
        BY <4>1, <4>3, <4>4, IdsAre DEF Queued
    <3>9. 1..n \subseteq Queued(q) \cup done2
      BY <1>3, <1>7, <1>8, <3>6, <3>7, <3>8
    <3> QED
      BY <3>3, <3>4, <3>5, <3>6, <3>7, <3>9
  <2> QED
    BY <2>1, <2>2 DEF AddUpdate
<1>10. Passed(bot, tqueue', n, SeenBy(done2)) /\ Passed(poll.offset, tqueue', n, SeenBy(done2))
  BY <1>9, PassedMore
<1>11. InStep(chat, hook', tqueue', n)
  BY <1>5, <1>9 DEF InStep
<1>12. \A v \in got : \A u \in 1..(v - 1) : chat[u] = chat[v] /\ chat[u] # 0 => u \in done2
  BY <1>8, <1>9
<1> QED
  BY <1>3, <1>4, <1>7, <1>9, <1>10, <1>11, <1>12 DEF Sound


(* A step that only takes updates from the queue. *)
LEMMA TrimSound ==
  ASSUME Steady, Sound, Trimmed(tqueue, tqueue'), UNCHANGED <<got, bot, pushed, chat>>, excused \subseteq excused',
         Queued(tqueue) \ Queued(tqueue') \subseteq excused',
         poll'.offset = 0 \/ poll'.offset = poll.offset, hook' = NewHook \/ Keeps(hook, hook')
  PROVE  Sound'
<1>1. got \subseteq got' /\ Queued(tqueue) \ Queued(tqueue') \subseteq got' \cup excused'
  OBVIOUS
<1>2. /\ ClassOK(tqueue', pushed)
      /\ \A b : Passed(b, tqueue, pushed, SeenBy(got \cup excused)) =>
                Passed(b, tqueue', pushed, SeenBy(got' \cup excused'))
      /\ 1..pushed \subseteq Queued(tqueue') \cup got' \cup excused'
      /\ \A v \in got : \A u \in 1..(v - 1) : chat[u] = chat[v] /\ chat[u] # 0 => u \in got' \cup excused'
  BY <1>1, StillSound
<1>3. Passed(bot, tqueue', pushed, SeenBy(got' \cup excused'))
  BY <1>2 DEF Sound
<1>4. Passed(poll'.offset, tqueue', pushed, SeenBy(got' \cup excused'))
  <2>1. CASE poll'.offset = 0
    BY <2>1 DEF Passed
  <2>2. CASE poll'.offset = poll.offset
    BY <1>2, <2>2 DEF Sound
  <2> QED
    BY <2>1, <2>2
<1>5. InStep(chat, hook', tqueue', pushed)
  <2>1. PICK q2 : q2 = tqueue'
    OBVIOUS
  <2>2. PICK g : g = hook'
    OBVIOUS
  <2>3. CASE g = NewHook
    BY <2>1, <2>2, <2>3, InStepNew
  <2>4. CASE Keeps(hook, g)
    <3>1. InStep(chat, hook, q2, pushed)
      BY <2>1, InStepTrimmed DEF Sound
    <3>2. /\ g.offset = hook.offset /\ g.chains = hook.chains /\ SameLoaded(hook.loaded, g.loaded)
          /\ ChainsOK(hook.loaded, hook.chains)
      BY <2>4 DEF Keeps, Steady, HookOK
    <3>3. InStep(chat, g, q2, pushed)
      BY <3>1, <3>2, InStepSame
    <3> QED
      BY <2>1, <2>2, <3>3
  <2> QED
    BY <2>2, <2>3, <2>4
<1> QED
  BY <1>2, <1>3, <1>4, <1>5 DEF Sound

(* A step that leaves the sender alone. *)
LEMMA KeepsSame ==
  ASSUME hook' = hook
  PROVE  Keeps(hook, hook')
BY DEF Keeps, SameLoaded

(* run_gc. *)
LEMMA CollectSound ==
  ASSUME Steady, Sound, CollectGarbage
  PROVE  Sound'
<1>1. pushed \in Nat /\ IsQueue(tqueue, pushed)
  BY DeliveryAssumption DEF Steady
<1>2. PICK q : q = run_gc(tqueue, Expired) /\ SetQueue(q, Popped(q), {})
  BY DEF CollectGarbage
<1>3. PICK expired : expired = Expired
  OBVIOUS
<1>4. q = run_gc(tqueue, expired)
  BY <1>2, <1>3, Zenon
<1>5. /\ IsQueue(q, pushed) /\ q.tail = tqueue.tail /\ Cut(tqueue.events, q.events)
      /\ PopsFor(tqueue, q, 0, FALSE, expired)
  BY <1>1, <1>4, RunGcIs
<1>6. Trimmed(tqueue, q)
  BY <1>1, <1>5, CutTrims
<1>7. /\ tqueue' = q /\ excused \subseteq excused'
      /\ (Queued(tqueue) \ Queued(q)) \cap Expired \subseteq excused'
  BY <1>2, SetQueueDrops
<1>8. ASSUME NEW u \in Queued(tqueue) \ Queued(q) PROVE u \in Expired
  BY <1>1, <1>3, <1>5, <1>8, GoneIs
<1>9. Queued(tqueue) \ Queued(tqueue') \subseteq excused'
  BY <1>7, <1>8
<1>10. UNCHANGED <<got, bot, pushed, chat, poll, hook>>
  BY DEF CollectGarbage
<1> QED
  BY <1>6, <1>7, <1>9, <1>10, KeepsSame, TrimSound

(* setWebhook and deleteWebhook. *)
LEMMA SwitchSound ==
  ASSUME Steady, Sound, Switch
  PROVE  Sound'
<1>1. pushed \in Nat /\ IsQueue(tqueue, pushed)
  BY DeliveryAssumption DEF Steady
<1>0. PICK drop \in BOOLEAN : \E q :
        /\ q = IF drop THEN clear(tqueue, 0) ELSE tqueue
        /\ SetQueue(q, ClearRecords(tqueue.events, q.events), Queued(tqueue) \ Queued(q))
  BY DEF Switch
<1>2. PICK q :
        /\ q = IF drop THEN clear(tqueue, 0) ELSE tqueue
        /\ SetQueue(q, ClearRecords(tqueue.events, q.events), Queued(tqueue) \ Queued(q))
  BY <1>0
<1>3. Trimmed(tqueue, q)
  <2>1. CASE q = tqueue
    BY <1>1, <2>1, TrimmedSame
  <2>2. CASE q = clear(tqueue, 0)
    <3>1. q.tail = tqueue.tail /\ Cut(tqueue.events, q.events)
      BY <1>1, <2>2, ClearIs
    <3> QED
      BY <1>1, <3>1, CutTrims
  <2> QED
    BY <1>2, <2>1, <2>2
<1>4. tqueue' = q /\ excused \subseteq excused' /\ Queued(tqueue) \ Queued(q) \subseteq excused'
  BY <1>2, SetQueueDrops
<1>5. UNCHANGED <<got, bot, pushed, chat>> /\ poll'.offset = 0 /\ hook' = NewHook
  BY DEF Switch, NoPoll
<1> QED
  BY <1>3, <1>4, <1>5, TrimSound

(* A restart in which every record was flushed. *)
LEMMA CrashSound ==
  ASSUME Steady, Sound, Crash, crashed' # "torn"
  PROVE  Sound'
<1>1. tqueue'.events = tqueue.events /\ tqueue'.tail = tqueue.tail
  BY CrashSteady
<1>2. IsQueue(tqueue, pushed)
  BY DEF Steady
<1>3. Trimmed(tqueue, tqueue')
  BY <1>1, <1>2, TrimmedSame
<1>4. Queued(tqueue) \ Queued(tqueue') \subseteq excused'
  BY <1>1 DEF Queued
<1>5. UNCHANGED <<got, bot, pushed, chat, excused>> /\ poll'.offset = 0 /\ hook' = NewHook
  BY DEF Crash, NoPoll
<1>6. excused \subseteq excused'
  BY <1>5
<1> QED
  BY <1>3, <1>4, <1>5, <1>6, TrimSound

(* Every step that loses no records. *)
LEMMA StepSound ==
  ASSUME Steady, crashed # "torn" => Sound, [Next]_vars, crashed' # "torn"
  PROVE  Sound'
<1>1. Sound
  <2>1. crashed # "torn"
    BY DEF Next, vars, queueVars, AddUpdate, CollectGarbage, Flush, Switch, Crash, Tick, Poll, GetUpdates,
           LongPollTimeout, PollStep, Hook, HookUpdate, HookTimer, HandleOk, HandleError, HandleHangup, HookStep
  <2> QED
    BY <2>1
<1>2. Trimmed(tqueue, tqueue)
  BY TrimmedSame DEF Steady
<1>3. CASE AddUpdate
  BY <1>1, <1>3, AddSound
<1>4. CASE CollectGarbage
  BY <1>1, <1>4, CollectSound
<1>5. CASE Flush
  BY <1>1, <1>5 DEF Flush, Sound
<1>6. CASE Switch
  BY <1>1, <1>6, SwitchSound
<1>7. CASE Crash
  BY <1>1, <1>7, CrashSound
<1>8. CASE Tick
  <2>1. UNCHANGED <<tqueue, excused, got, bot, pushed, chat>>
    BY <1>8 DEF Tick, queueVars
  <2>2. Keeps(hook, hook') /\ poll'.offset = poll.offset
    BY <1>8, TickSteady
  <2>3. Trimmed(tqueue, tqueue') /\ excused \subseteq excused' /\ Queued(tqueue) \ Queued(tqueue') \subseteq excused'
    BY <1>2, <2>1
  <2> QED
    BY <1>1, <2>1, <2>2, <2>3, TrimSound
<1>9. CASE Poll
  BY <1>1, <1>9, PollSound
<1>10. CASE Hook
  <2>1. Handled
    BY <1>1, <1>10, HookSound
  <2>2. HookStep
    BY <1>10, HookSteady
  <2>3. UNCHANGED <<pushed, chat, poll, bot>>
    BY <2>2 DEF HookStep
  <2>4. /\ ClassOK(tqueue', pushed)
        /\ \A b : Passed(b, tqueue, pushed, SeenBy(got \cup excused)) =>
                  Passed(b, tqueue', pushed, SeenBy(got' \cup excused'))
        /\ 1..pushed \subseteq Queued(tqueue') \cup got' \cup excused'
        /\ \A v \in got : \A u \in 1..(v - 1) : chat[u] = chat[v] /\ chat[u] # 0 => u \in got' \cup excused'
    BY <1>1, <2>1, StillSound DEF Handled
  <2>5. ASSUME NEW v \in got', NEW u \in 1..(v - 1), chat[u] = chat[v], chat[u] # 0
        PROVE  u \in got' \cup excused'
    BY <2>1, <2>4, <2>5 DEF Handled
  <2>6. /\ Passed(bot, tqueue', pushed, SeenBy(got' \cup excused'))
        /\ Passed(poll.offset, tqueue', pushed, SeenBy(got' \cup excused'))
    BY <1>1, <2>4 DEF Sound
  <2>7. InStep(chat, hook', tqueue', pushed)
    BY <2>1 DEF Handled
  <2> QED
    BY <2>3, <2>4, <2>5, <2>6, <2>7 DEF Sound
<1>11. CASE UNCHANGED vars
  BY <1>1, <1>11 DEF vars, queueVars, Sound
<1> QED
  BY <1>3, <1>4, <1>5, <1>6, <1>7, <1>8, <1>9, <1>10, <1>11 DEF Next

(* The server starts. *)
LEMMA InitSound == Init => Sound
<1> SUFFICES ASSUME Init PROVE Sound
  OBVIOUS
<1>1. GoodLog(disk, 0) /\ \A e \in Range(disk) : e.id = MaxId - 4 /\ e.data = NoData
  BY InitLog
<1>2. IsQueue(tqueue, 0) /\ tqueue.events = disk
  BY <1>1, ReplayIsExact DEF Init
<1>3. ClassOK(tqueue, 0)
  <2>1. MaxId \in Nat
    BY IdAssumption
  <2>2. CASE tqueue.events = <<>>
    <3>1. tqueue.tail = 0 /\ Range(tqueue.events) = {}
      BY <1>2, <2>2, QueueIs
    <3> QED
      BY <3>1 DEF ClassOK
  <2>3. CASE tqueue.events # <<>>
    <3>1. PICK e \in Range(tqueue.events) : tqueue.tail = e.id + 1
      BY <1>2, <2>3 DEF IsQueue, Ends
    <3>2. High(tqueue.tail) /\ \A d \in Range(tqueue.events) : d.id >= MaxId - 4
      BY <1>1, <1>2, <2>1, <3>1 DEF High
    <3> QED
      BY <3>2 DEF ClassOK
  <2> QED
    BY <2>2, <2>3
<1>4. pushed = 0 /\ bot = 0 /\ poll.offset = 0 /\ got = {} /\ hook = NewHook /\ 1..pushed = {}
  BY DEF Init, NoPoll
<1>5. InStep(chat, hook, tqueue, pushed)
  BY <1>4, InStepNew
<1> QED
  BY <1>3, <1>4, <1>5 DEF Sound, Passed

(* The inductive invariant. *)
Inductive == Steady /\ (crashed # "torn" => Sound)

(* Inductive is inductive. *)
LEMMA StepInductive == Inductive /\ [Next]_vars => Inductive'
  BY StepSteady, StepSound DEF Inductive

(* No update is lost by getUpdates, by the webhook or by a change between  *)
(* them: unless a restart has lost records, whatever push was given is in  *)
(* the queue, was received, has expired, or was dropped by decision.       *)
THEOREM NothingIsLost == Spec => []Accounted
<1>1. Inductive => Accounted
  BY DEF Inductive, Sound, Accounted
<1>2. Init => Inductive
  BY InitSteady, InitSound DEF Inductive
<1> QED
  BY <1>1, <1>2, StepInductive, PTL DEF Spec

(* Updates of a chat reach the bot in the order they were pushed, with any *)
(* number of connections and retries: once one is received, those before   *)
(* it in the chat have been received too or are excused.                   *)
THEOREM AlwaysInOrder == Spec => []InOrder
<1>1. Inductive => InOrder
  BY DEF Inductive, Sound, InOrder
<1>2. Init => Inductive
  BY InitSteady, InitSound DEF Inductive
<1> QED
  BY <1>1, <1>2, StepInductive, PTL DEF Spec

===============================================================================
