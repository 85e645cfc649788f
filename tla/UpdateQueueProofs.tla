-------------------------- MODULE UpdateQueueProofs --------------------------
(***************************************************************************)
(* Proofs about the queue of updates: what its operations do to the events *)
(* and to the log, for queues and logs of any length.                      *)
(***************************************************************************)
EXTENDS UpdateQueue, SequenceTheorems, FiniteSetTheorems, TLAPS

-------------------------------------------------------------------------------
(* Induction over the naturals, stated of a set.  The least number outside *)
(* the set exists because < is well founded.                               *)

LessThan == {p \in Nat \X Nat : p[1] < p[2]}

(* The order of the naturals is well founded. *)
LEMMA LessThanWellFounded == IsWellFoundedOn(LessThan, Nat)
<1>1. OpToRel(<, Nat) = LessThan
  BY Zenon DEF OpToRel, LessThan
<1> QED
  BY <1>1, NatLessThanWellFounded, Zenon

(* A set of naturals that is not empty has a least element. *)
LEMMA LeastNatural ==
  ASSUME NEW T, T \subseteq Nat, T # {}
  PROVE  \E n \in T : \A m \in T : n <= m
<1>1. PICK n \in T : \A m \in T : ~(<<m, n>> \in LessThan)
  BY LessThanWellFounded, WFMin
<1>2. ASSUME NEW m \in T, m < n PROVE <<m, n>> \in LessThan
  BY <1>2 DEF LessThan
<1>3. \A m \in T : ~(m < n)
  BY <1>1, <1>2
<1>4. n \in Nat /\ \A m \in T : m \in Nat
  OBVIOUS
<1> QED
  BY <1>3, <1>4

(* A set with 0, and with n + 1 whenever it has n, has every natural. *)
LEMMA Induction ==
  ASSUME NEW G, 0 \in G, \A n \in Nat : n \in G => n + 1 \in G
  PROVE  \A n \in Nat : n \in G
<1> SUFFICES ASSUME NEW x \in Nat, x \notin G PROVE FALSE
  OBVIOUS
<1>1. PICK n \in Nat \ G : \A m \in Nat \ G : n <= m
  BY LeastNatural
<1>2. n - 1 \in Nat /\ n - 1 \notin Nat \ G
  BY <1>1
<1> QED
  BY <1>1, <1>2

-------------------------------------------------------------------------------
(* Select, Written and Replay are folds.  Their recursive functions exist, *)
(* and agree on a common prefix, so that each is determined by what it     *)
(* does to the empty sequence and to one more element.                     *)

(* A sequence without its last element. *)
LEMMA Prefix ==
  ASSUME NEW S, NEW s \in Seq(S), NEW n \in Nat, Len(s) = n + 1
  PROVE  /\ SubSeq(s, 1, n) \in Seq(S) /\ Len(SubSeq(s, 1, n)) = n
         /\ \A i \in 1..n : SubSeq(s, 1, n)[i] = s[i]
<1>1. \A i \in 1..n : s[i] \in S
  BY ElementOfSeq
<1> QED
  BY <1>1, SubSeqProperties

(* Appending and then dropping the last element changes nothing. *)
LEMMA PrefixAppend ==
  ASSUME NEW S, NEW s \in Seq(S), NEW e \in S
  PROVE  SubSeq(Append(s, e), 1, Len(s)) = s
<1>1. /\ Append(s, e) \in Seq(S) /\ Len(Append(s, e)) = Len(s) + 1 /\ Len(s) \in Nat
      /\ \A i \in 1..Len(s) : Append(s, e)[i] = s[i]
  BY AppendProperties, LenProperties
<1>2. /\ SubSeq(Append(s, e), 1, Len(s)) \in Seq(S)
      /\ Len(SubSeq(Append(s, e), 1, Len(s))) = Len(s)
      /\ \A i \in 1..Len(s) : SubSeq(Append(s, e), 1, Len(s))[i] = Append(s, e)[i]
  BY <1>1, Prefix
<1> QED
  BY <1>1, <1>2, SeqEqual

SelectSteps(f, s, A) ==
  f = [n \in 0..Len(s) |-> IF n = 0 THEN <<>> ELSE (IF s[n] \in A THEN Append(f[n - 1], s[n]) ELSE f[n - 1])]

(* The steps of Select, one by one. *)
LEMMA SelectStepsAre ==
  ASSUME NEW S, NEW s \in Seq(S), NEW f, NEW A, SelectSteps(f, s, A)
  PROVE  /\ f[0] = <<>>
         /\ \A n \in 1..Len(s) : f[n] = (IF s[n] \in A THEN Append(f[n - 1], s[n]) ELSE f[n - 1])
<1>1. Len(s) \in Nat
  BY LenProperties
<1>2. 0 \in 0..Len(s) /\ \A n \in 1..Len(s) : n \in 0..Len(s) /\ n # 0
  BY <1>1
<1> QED
  BY <1>2 DEF SelectSteps

(* The function behind Select can be extended by one element. *)
LEMMA SelectLonger ==
  ASSUME NEW S, NEW s \in Seq(S), NEW n \in Nat, Len(s) = n + 1, NEW g, NEW A,
         SelectSteps(g, SubSeq(s, 1, n), A)
  PROVE  \E f : SelectSteps(f, s, A)
<1> DEFINE last == (IF s[n + 1] \in A THEN Append(g[n], s[n + 1]) ELSE g[n])
           f == [i \in 0..(n + 1) |-> IF i <= n THEN g[i] ELSE last]
<1>1. /\ SubSeq(s, 1, n) \in Seq(S) /\ Len(SubSeq(s, 1, n)) = n
      /\ \A i \in 1..n : SubSeq(s, 1, n)[i] = s[i]
  BY Prefix
<1>2. /\ g[0] = <<>>
      /\ \A i \in 1..n : g[i] = (IF SubSeq(s, 1, n)[i] \in A THEN Append(g[i - 1], SubSeq(s, 1, n)[i]) ELSE g[i - 1])
  <2>1. PICK t \in Seq(S) : t = SubSeq(s, 1, n)
    BY <1>1
  <2>2. Len(t) = n /\ SelectSteps(g, t, A)
    BY <1>1, <2>1
  <2>3. g[0] = <<>> /\ \A i \in 1..Len(t) : g[i] = (IF t[i] \in A THEN Append(g[i - 1], t[i]) ELSE g[i - 1])
    BY <2>2, SelectStepsAre
  <2> QED
    BY <2>1, <2>2, <2>3
<1>3. /\ f[0] = <<>> /\ f[n] = g[n] /\ f[n + 1] = last
      /\ \A i \in 1..n : f[i] = g[i] /\ f[i - 1] = g[i - 1]
  BY <1>2
<1>4. ASSUME NEW i \in 0..(n + 1)
      PROVE  f[i] = IF i = 0 THEN <<>> ELSE (IF s[i] \in A THEN Append(f[i - 1], s[i]) ELSE f[i - 1])
  <2>1. CASE i = 0
    BY <1>3, <2>1
  <2>2. CASE i \in 1..n
    BY <1>1, <1>2, <1>3, <2>2
  <2>3. CASE i = n + 1
    BY <1>3, <2>3
  <2> QED
    BY <2>1, <2>2, <2>3
<1>5. f = [i \in 0..(n + 1) |-> IF i = 0 THEN <<>> ELSE (IF s[i] \in A THEN Append(f[i - 1], s[i]) ELSE f[i - 1])]
  BY <1>4
<1> HIDE DEF f
<1> QED
  BY <1>5 DEF SelectSteps

(* The function behind Select exists for every sequence. *)
LEMMA SelectExists ==
  ASSUME NEW S, NEW x \in Seq(S), NEW A
  PROVE  \E f : SelectSteps(f, x, A)
<1> DEFINE G == {n \in Nat : \A s \in Seq(S) : Len(s) = n => \E f : SelectSteps(f, s, A)}
<1>1. 0 \in G
  <2>1. ASSUME NEW s \in Seq(S), Len(s) = 0 PROVE \E f : SelectSteps(f, s, A)
    <3> DEFINE f == [n \in 0..0 |-> <<>>]
    <3>1. f = [n \in 0..0 |-> IF n = 0 THEN <<>> ELSE (IF s[n] \in A THEN Append(f[n - 1], s[n]) ELSE f[n - 1])]
      OBVIOUS
    <3> HIDE DEF f
    <3> QED
      BY <2>1, <3>1 DEF SelectSteps
  <2> QED
    BY <2>1
<1>2. ASSUME NEW n \in Nat, n \in G PROVE n + 1 \in G
  <2>1. ASSUME NEW s \in Seq(S), Len(s) = n + 1 PROVE \E f : SelectSteps(f, s, A)
    <3>1. SubSeq(s, 1, n) \in Seq(S) /\ Len(SubSeq(s, 1, n)) = n
      BY <2>1, Prefix
    <3>2. PICK g : SelectSteps(g, SubSeq(s, 1, n), A)
      BY <1>2, <3>1
    <3> QED
      BY <2>1, <3>2, SelectLonger
  <2> QED
    BY <2>1
<1> HIDE DEF G
<1>3. \A n \in Nat : n \in G
  BY <1>1, <1>2, Induction
<1>4. Len(x) \in G
  BY <1>3, LenProperties
<1> QED
  BY <1>4 DEF G

(* Select is the last value of that function. *)
LEMMA SelectIs ==
  ASSUME NEW S, NEW s \in Seq(S), NEW A
  PROVE  \E f : SelectSteps(f, s, A) /\ Select(s, A) = f[Len(s)]
<1> DEFINE f == CHOOSE f : f = [n \in 0..Len(s) |->
                  IF n = 0 THEN <<>> ELSE (IF s[n] \in A THEN Append(f[n - 1], s[n]) ELSE f[n - 1])]
<1>1. Select(s, A) = f[Len(s)]
  BY DEF Select
<1>2. SelectSteps(f, s, A)
  <2>1. PICK g : SelectSteps(g, s, A)
    BY SelectExists
  <2> QED
    BY <2>1, Zenon DEF SelectSteps
<1> QED
  BY <1>1, <1>2

(* The functions of a sequence and of a longer one agree on the first. *)
LEMMA SelectAgrees ==
  ASSUME NEW S, NEW s \in Seq(S), NEW e \in S, NEW f, NEW g, NEW A,
         SelectSteps(g, s, A), SelectSteps(f, Append(s, e), A)
  PROVE  f[Len(s)] = g[Len(s)] /\ f[Len(s) + 1] = (IF e \in A THEN Append(f[Len(s)], e) ELSE f[Len(s)])
<1>0. /\ Append(s, e) \in Seq(S) /\ Len(Append(s, e)) = Len(s) + 1 /\ Len(s) \in Nat
      /\ \A i \in 1..Len(s) : Append(s, e)[i] = s[i]
      /\ Append(s, e)[Len(s) + 1] = e
  BY AppendProperties, LenProperties
<1>1. /\ f[0] = <<>>
      /\ \A n \in 1..(Len(s) + 1) : f[n] = (IF Append(s, e)[n] \in A THEN Append(f[n - 1], Append(s, e)[n]) ELSE f[n - 1])
  <2>1. PICK t \in Seq(S) : t = Append(s, e)
    BY <1>0
  <2>2. Len(t) = Len(s) + 1 /\ SelectSteps(f, t, A)
    BY <1>0, <2>1
  <2>3. f[0] = <<>> /\ \A i \in 1..Len(t) : f[i] = (IF t[i] \in A THEN Append(f[i - 1], t[i]) ELSE f[i - 1])
    BY <2>2, SelectStepsAre
  <2> QED
    BY <2>1, <2>2, <2>3
<1>2. g[0] = <<>> /\ \A n \in 1..Len(s) : g[n] = (IF s[n] \in A THEN Append(g[n - 1], s[n]) ELSE g[n - 1])
  BY SelectStepsAre
<1> DEFINE G == {n \in Nat : n <= Len(s) => f[n] = g[n]}
<1>3. 0 \in G
  BY <1>1, <1>2
<1>4. ASSUME NEW n \in Nat, n \in G PROVE n + 1 \in G
  <2>1. CASE n + 1 <= Len(s)
    <3>1. f[n] = g[n] /\ n + 1 \in 1..Len(s) /\ (n + 1) - 1 = n
      BY <1>0, <1>4, <2>1
    <3>2. /\ f[n + 1] = (IF s[n + 1] \in A THEN Append(f[n], s[n + 1]) ELSE f[n])
          /\ g[n + 1] = (IF s[n + 1] \in A THEN Append(g[n], s[n + 1]) ELSE g[n])
      BY <1>0, <1>1, <1>2, <3>1
    <3> QED
      BY <3>1, <3>2
  <2>2. CASE ~(n + 1 <= Len(s))
    BY <2>2
  <2> QED
    BY <2>1, <2>2
<1> HIDE DEF G
<1>5. Len(s) \in G
  BY <1>0, <1>3, <1>4, Induction
<1>6. f[Len(s)] = g[Len(s)]
  BY <1>0, <1>5 DEF G
<1>7. f[Len(s) + 1] = (IF e \in A THEN Append(f[Len(s)], e) ELSE f[Len(s)])
  BY <1>0, <1>1
<1> QED
  BY <1>6, <1>7

(* Of the empty sequence nothing is selected. *)
LEMMA SelectEmpty ==
  ASSUME TRUE, NEW A
  PROVE  Select(<<>>, A) = <<>>
<1>1. <<>> \in Seq({}) /\ Len(<<>>) = 0
  BY EmptySeq
<1>2. PICK f : SelectSteps(f, <<>>, A) /\ Select(<<>>, A) = f[0]
  BY <1>1, SelectIs
<1> QED
  BY <1>1, <1>2, SelectStepsAre

(* One more element is selected last, or not at all. *)
LEMMA SelectAppend ==
  ASSUME NEW S, NEW s \in Seq(S), NEW e \in S, NEW A
  PROVE  Select(Append(s, e), A) = (IF e \in A THEN Append(Select(s, A), e) ELSE Select(s, A))
<1>1. Append(s, e) \in Seq(S) /\ Len(Append(s, e)) = Len(s) + 1
  BY AppendProperties
<1>2. PICK g : SelectSteps(g, s, A) /\ Select(s, A) = g[Len(s)]
  BY SelectIs
<1>3. PICK f : SelectSteps(f, Append(s, e), A) /\ Select(Append(s, e), A) = f[Len(s) + 1]
  BY <1>1, SelectIs
<1>4. f[Len(s)] = g[Len(s)] /\ f[Len(s) + 1] = (IF e \in A THEN Append(f[Len(s)], e) ELSE f[Len(s)])
  BY <1>2, <1>3, SelectAgrees
<1> QED
  BY <1>2, <1>3, <1>4

WrittenSteps(f, s, log) ==
  f = [n \in 0..Len(s) |-> IF n = 0 THEN log ELSE ApplyRecord(f[n - 1], s[n])]

(* The steps of Written, one by one. *)
LEMMA WrittenStepsAre ==
  ASSUME NEW S, NEW s \in Seq(S), NEW f, NEW log, WrittenSteps(f, s, log)
  PROVE  /\ f[0] = log
         /\ \A n \in 1..Len(s) : f[n] = ApplyRecord(f[n - 1], s[n])
<1>1. Len(s) \in Nat
  BY LenProperties
<1>2. 0 \in 0..Len(s) /\ \A n \in 1..Len(s) : n \in 0..Len(s) /\ n # 0
  BY <1>1
<1> QED
  BY <1>2 DEF WrittenSteps

(* The function behind Written can be extended by one record. *)
LEMMA WrittenLonger ==
  ASSUME NEW S, NEW s \in Seq(S), NEW n \in Nat, Len(s) = n + 1, NEW g, NEW log,
         WrittenSteps(g, SubSeq(s, 1, n), log)
  PROVE  \E f : WrittenSteps(f, s, log)
<1> DEFINE last == ApplyRecord(g[n], s[n + 1])
           f == [i \in 0..(n + 1) |-> IF i <= n THEN g[i] ELSE last]
<1>1. /\ SubSeq(s, 1, n) \in Seq(S) /\ Len(SubSeq(s, 1, n)) = n
      /\ \A i \in 1..n : SubSeq(s, 1, n)[i] = s[i]
  BY Prefix
<1>2. /\ g[0] = log
      /\ \A i \in 1..n : g[i] = ApplyRecord(g[i - 1], SubSeq(s, 1, n)[i])
  <2>1. PICK t \in Seq(S) : t = SubSeq(s, 1, n)
    BY <1>1
  <2>2. Len(t) = n /\ WrittenSteps(g, t, log)
    BY <1>1, <2>1
  <2>3. g[0] = log /\ \A i \in 1..Len(t) : g[i] = ApplyRecord(g[i - 1], t[i])
    BY <2>2, WrittenStepsAre
  <2> QED
    BY <2>1, <2>2, <2>3
<1>3. /\ f[0] = log /\ f[n] = g[n] /\ f[n + 1] = last
      /\ \A i \in 1..n : f[i] = g[i] /\ f[i - 1] = g[i - 1]
  BY <1>2
<1>4. ASSUME NEW i \in 0..(n + 1)
      PROVE  f[i] = IF i = 0 THEN log ELSE ApplyRecord(f[i - 1], s[i])
  <2>1. CASE i = 0
    BY <1>3, <2>1
  <2>2. CASE i \in 1..n
    BY <1>1, <1>2, <1>3, <2>2
  <2>3. CASE i = n + 1
    BY <1>3, <2>3
  <2> QED
    BY <2>1, <2>2, <2>3
<1>5. f = [i \in 0..(n + 1) |-> IF i = 0 THEN log ELSE ApplyRecord(f[i - 1], s[i])]
  BY <1>4
<1> HIDE DEF f
<1> QED
  BY <1>5 DEF WrittenSteps

(* The function behind Written exists for all records. *)
LEMMA WrittenExists ==
  ASSUME NEW S, NEW x \in Seq(S), NEW log
  PROVE  \E f : WrittenSteps(f, x, log)
<1> DEFINE G == {n \in Nat : \A s \in Seq(S) : Len(s) = n => \E f : WrittenSteps(f, s, log)}
<1>1. 0 \in G
  <2>1. ASSUME NEW s \in Seq(S), Len(s) = 0 PROVE \E f : WrittenSteps(f, s, log)
    <3> DEFINE f == [n \in 0..0 |-> log]
    <3>1. f = [n \in 0..0 |-> IF n = 0 THEN log ELSE ApplyRecord(f[n - 1], s[n])]
      OBVIOUS
    <3> HIDE DEF f
    <3> QED
      BY <2>1, <3>1 DEF WrittenSteps
  <2> QED
    BY <2>1
<1>2. ASSUME NEW n \in Nat, n \in G PROVE n + 1 \in G
  <2>1. ASSUME NEW s \in Seq(S), Len(s) = n + 1 PROVE \E f : WrittenSteps(f, s, log)
    <3>1. SubSeq(s, 1, n) \in Seq(S) /\ Len(SubSeq(s, 1, n)) = n
      BY <2>1, Prefix
    <3>2. PICK g : WrittenSteps(g, SubSeq(s, 1, n), log)
      BY <1>2, <3>1
    <3> QED
      BY <2>1, <3>2, WrittenLonger
  <2> QED
    BY <2>1
<1> HIDE DEF G
<1>3. \A n \in Nat : n \in G
  BY <1>1, <1>2, Induction
<1>4. Len(x) \in G
  BY <1>3, LenProperties
<1> QED
  BY <1>4 DEF G

(* Written is the last value of that function. *)
LEMMA WrittenIs ==
  ASSUME NEW S, NEW s \in Seq(S), NEW log
  PROVE  \E f : WrittenSteps(f, s, log) /\ Written(log, s) = f[Len(s)]
<1> DEFINE f == CHOOSE f : f = [n \in 0..Len(s) |-> IF n = 0 THEN log ELSE ApplyRecord(f[n - 1], s[n])]
<1>1. Written(log, s) = f[Len(s)]
  BY DEF Written
<1>2. WrittenSteps(f, s, log)
  <2>1. PICK g : WrittenSteps(g, s, log)
    BY WrittenExists
  <2> QED
    BY <2>1, Zenon DEF WrittenSteps
<1> QED
  BY <1>1, <1>2

(* The functions of some records and of more of them agree on the first. *)
LEMMA WrittenAgrees ==
  ASSUME NEW S, NEW s \in Seq(S), NEW e \in S, NEW f, NEW g, NEW log,
         WrittenSteps(g, s, log), WrittenSteps(f, Append(s, e), log)
  PROVE  f[Len(s)] = g[Len(s)] /\ f[Len(s) + 1] = ApplyRecord(f[Len(s)], e)
<1>0. /\ Append(s, e) \in Seq(S) /\ Len(Append(s, e)) = Len(s) + 1 /\ Len(s) \in Nat
      /\ \A i \in 1..Len(s) : Append(s, e)[i] = s[i]
      /\ Append(s, e)[Len(s) + 1] = e
  BY AppendProperties, LenProperties
<1>1. /\ f[0] = log
      /\ \A n \in 1..(Len(s) + 1) : f[n] = ApplyRecord(f[n - 1], Append(s, e)[n])
  <2>1. PICK t \in Seq(S) : t = Append(s, e)
    BY <1>0
  <2>2. Len(t) = Len(s) + 1 /\ WrittenSteps(f, t, log)
    BY <1>0, <2>1
  <2>3. f[0] = log /\ \A i \in 1..Len(t) : f[i] = ApplyRecord(f[i - 1], t[i])
    BY <2>2, WrittenStepsAre
  <2> QED
    BY <2>1, <2>2, <2>3
<1>2. g[0] = log /\ \A n \in 1..Len(s) : g[n] = ApplyRecord(g[n - 1], s[n])
  BY WrittenStepsAre
<1> DEFINE G == {n \in Nat : n <= Len(s) => f[n] = g[n]}
<1>3. 0 \in G
  BY <1>1, <1>2
<1>4. ASSUME NEW n \in Nat, n \in G PROVE n + 1 \in G
  <2>1. CASE n + 1 <= Len(s)
    <3>1. f[n] = g[n] /\ n + 1 \in 1..Len(s) /\ (n + 1) - 1 = n
      BY <1>0, <1>4, <2>1
    <3>2. f[n + 1] = ApplyRecord(f[n], s[n + 1]) /\ g[n + 1] = ApplyRecord(g[n], s[n + 1])
      BY <1>0, <1>1, <1>2, <3>1
    <3> QED
      BY <3>1, <3>2
  <2>2. CASE ~(n + 1 <= Len(s))
    BY <2>2
  <2> QED
    BY <2>1, <2>2
<1> HIDE DEF G
<1>5. Len(s) \in G
  BY <1>0, <1>3, <1>4, Induction
<1>6. f[Len(s)] = g[Len(s)]
  BY <1>0, <1>5 DEF G
<1>7. f[Len(s) + 1] = ApplyRecord(f[Len(s)], e)
  BY <1>0, <1>1
<1> QED
  BY <1>6, <1>7

(* Without a record the log stays as it is. *)
LEMMA WrittenEmpty ==
  ASSUME TRUE, NEW log
  PROVE  Written(log, <<>>) = log
<1>1. <<>> \in Seq({}) /\ Len(<<>>) = 0
  BY EmptySeq
<1>2. PICK f : WrittenSteps(f, <<>>, log) /\ Written(log, <<>>) = f[0]
  BY <1>1, WrittenIs
<1> QED
  BY <1>1, <1>2, WrittenStepsAre

(* The records are written one after the other. *)
LEMMA WrittenAppend ==
  ASSUME NEW S, NEW s \in Seq(S), NEW e \in S, NEW log
  PROVE  Written(log, Append(s, e)) = ApplyRecord(Written(log, s), e)
<1>1. Append(s, e) \in Seq(S) /\ Len(Append(s, e)) = Len(s) + 1
  BY AppendProperties
<1>2. PICK g : WrittenSteps(g, s, log) /\ Written(log, s) = g[Len(s)]
  BY WrittenIs
<1>3. PICK f : WrittenSteps(f, Append(s, e), log) /\ Written(log, Append(s, e)) = f[Len(s) + 1]
  BY <1>1, WrittenIs
<1>4. f[Len(s)] = g[Len(s)] /\ f[Len(s) + 1] = ApplyRecord(f[Len(s)], e)
  BY <1>2, <1>3, WrittenAgrees
<1> QED
  BY <1>2, <1>3, <1>4

ReplaySteps(f, s) ==
  f = [n \in 0..Len(s) |-> IF n = 0 THEN NoQueue ELSE do_push(f[n - 1], s[n])]

(* The steps of Replay, one by one. *)
LEMMA ReplayStepsAre ==
  ASSUME NEW S, NEW s \in Seq(S), NEW f, ReplaySteps(f, s)
  PROVE  /\ f[0] = NoQueue
         /\ \A n \in 1..Len(s) : f[n] = do_push(f[n - 1], s[n])
<1>1. Len(s) \in Nat
  BY LenProperties
<1>2. 0 \in 0..Len(s) /\ \A n \in 1..Len(s) : n \in 0..Len(s) /\ n # 0
  BY <1>1
<1> QED
  BY <1>2 DEF ReplaySteps

(* The function behind Replay can be extended by one event. *)
LEMMA ReplayLonger ==
  ASSUME NEW S, NEW s \in Seq(S), NEW n \in Nat, Len(s) = n + 1, NEW g,
         ReplaySteps(g, SubSeq(s, 1, n))
  PROVE  \E f : ReplaySteps(f, s)
<1> DEFINE last == do_push(g[n], s[n + 1])
           f == [i \in 0..(n + 1) |-> IF i <= n THEN g[i] ELSE last]
<1>1. /\ SubSeq(s, 1, n) \in Seq(S) /\ Len(SubSeq(s, 1, n)) = n
      /\ \A i \in 1..n : SubSeq(s, 1, n)[i] = s[i]
  BY Prefix
<1>2. /\ g[0] = NoQueue
      /\ \A i \in 1..n : g[i] = do_push(g[i - 1], SubSeq(s, 1, n)[i])
  BY <1>1, ReplayStepsAre
<1>3. /\ f[0] = NoQueue /\ f[n] = g[n] /\ f[n + 1] = last
      /\ \A i \in 1..n : f[i] = g[i] /\ f[i - 1] = g[i - 1]
  BY <1>2
<1>4. ASSUME NEW i \in 0..(n + 1)
      PROVE  f[i] = IF i = 0 THEN NoQueue ELSE do_push(f[i - 1], s[i])
  <2>1. CASE i = 0
    BY <1>3, <2>1
  <2>2. CASE i \in 1..n
    BY <1>1, <1>2, <1>3, <2>2
  <2>3. CASE i = n + 1
    BY <1>3, <2>3
  <2> QED
    BY <2>1, <2>2, <2>3
<1>5. f = [i \in 0..(n + 1) |-> IF i = 0 THEN NoQueue ELSE do_push(f[i - 1], s[i])]
  BY <1>4
<1> HIDE DEF f
<1> QED
  BY <1>5 DEF ReplaySteps

(* The function behind Replay exists for every log. *)
LEMMA ReplayExists ==
  ASSUME NEW S, NEW x \in Seq(S)
  PROVE  \E f : ReplaySteps(f, x)
<1> DEFINE G == {n \in Nat : \A s \in Seq(S) : Len(s) = n => \E f : ReplaySteps(f, s)}
<1>1. 0 \in G
  <2>1. ASSUME NEW s \in Seq(S), Len(s) = 0 PROVE \E f : ReplaySteps(f, s)
    <3> DEFINE f == [n \in 0..0 |-> NoQueue]
    <3>1. f = [n \in 0..0 |-> IF n = 0 THEN NoQueue ELSE do_push(f[n - 1], s[n])]
      OBVIOUS
    <3> HIDE DEF f
    <3> QED
      BY <2>1, <3>1 DEF ReplaySteps
  <2> QED
    BY <2>1
<1>2. ASSUME NEW n \in Nat, n \in G PROVE n + 1 \in G
  <2>1. ASSUME NEW s \in Seq(S), Len(s) = n + 1 PROVE \E f : ReplaySteps(f, s)
    <3>1. SubSeq(s, 1, n) \in Seq(S) /\ Len(SubSeq(s, 1, n)) = n
      BY <2>1, Prefix
    <3>2. PICK g : ReplaySteps(g, SubSeq(s, 1, n))
      BY <1>2, <3>1
    <3> QED
      BY <2>1, <3>2, ReplayLonger
  <2> QED
    BY <2>1
<1> HIDE DEF G
<1>3. \A n \in Nat : n \in G
  BY <1>1, <1>2, Induction
<1>4. Len(x) \in G
  BY <1>3, LenProperties
<1> QED
  BY <1>4 DEF G

(* Replay is the last value of that function. *)
LEMMA ReplayIs ==
  ASSUME NEW S, NEW s \in Seq(S)
  PROVE  \E f : ReplaySteps(f, s) /\ Replay(s) = f[Len(s)]
<1> DEFINE f == CHOOSE f : f = [n \in 0..Len(s) |-> IF n = 0 THEN NoQueue ELSE do_push(f[n - 1], s[n])]
<1>1. Replay(s) = f[Len(s)]
  BY DEF Replay
<1>2. ReplaySteps(f, s)
  BY ReplayExists DEF ReplaySteps
<1> QED
  BY <1>1, <1>2

(* The functions of a log and of a longer one agree on the first. *)
LEMMA ReplayAgrees ==
  ASSUME NEW S, NEW s \in Seq(S), NEW e \in S, NEW f, NEW g,
         ReplaySteps(g, s), ReplaySteps(f, Append(s, e))
  PROVE  f[Len(s)] = g[Len(s)] /\ f[Len(s) + 1] = do_push(f[Len(s)], e)
<1>0. /\ Append(s, e) \in Seq(S) /\ Len(Append(s, e)) = Len(s) + 1 /\ Len(s) \in Nat
      /\ \A i \in 1..Len(s) : Append(s, e)[i] = s[i]
      /\ Append(s, e)[Len(s) + 1] = e
  BY AppendProperties, LenProperties
<1>1. /\ f[0] = NoQueue
      /\ \A n \in 1..(Len(s) + 1) : f[n] = do_push(f[n - 1], Append(s, e)[n])
  BY <1>0, ReplayStepsAre
<1>2. g[0] = NoQueue /\ \A n \in 1..Len(s) : g[n] = do_push(g[n - 1], s[n])
  BY ReplayStepsAre
<1> DEFINE G == {n \in Nat : n <= Len(s) => f[n] = g[n]}
<1>3. 0 \in G
  BY <1>1, <1>2
<1>4. ASSUME NEW n \in Nat, n \in G PROVE n + 1 \in G
  <2>1. CASE n + 1 <= Len(s)
    <3>1. f[n] = g[n] /\ n + 1 \in 1..Len(s) /\ (n + 1) - 1 = n
      BY <1>0, <1>4, <2>1
    <3>2. f[n + 1] = do_push(f[n], s[n + 1]) /\ g[n + 1] = do_push(g[n], s[n + 1])
      BY <1>0, <1>1, <1>2, <3>1
    <3> QED
      BY <3>1, <3>2
  <2>2. CASE ~(n + 1 <= Len(s))
    BY <2>2
  <2> QED
    BY <2>1, <2>2
<1> HIDE DEF G
<1>5. Len(s) \in G
  BY <1>0, <1>3, <1>4, Induction
<1>6. f[Len(s)] = g[Len(s)]
  BY <1>0, <1>5 DEF G
<1>7. f[Len(s) + 1] = do_push(f[Len(s)], e)
  BY <1>0, <1>1
<1> QED
  BY <1>6, <1>7

(* The empty log is replayed into no queue. *)
LEMMA ReplayEmpty ==
  Replay(<<>>) = NoQueue
<1>1. <<>> \in Seq({}) /\ Len(<<>>) = 0
  BY EmptySeq
<1>2. PICK f : ReplaySteps(f, <<>>) /\ Replay(<<>>) = f[0]
  BY <1>1, ReplayIs
<1> QED
  BY <1>1, <1>2, ReplayStepsAre

(* The events are replayed one after the other. *)
LEMMA ReplayAppend ==
  ASSUME NEW S, NEW s \in Seq(S), NEW e \in S
  PROVE  Replay(Append(s, e)) = do_push(Replay(s), e)
<1>1. Append(s, e) \in Seq(S) /\ Len(Append(s, e)) = Len(s) + 1
  BY AppendProperties
<1>2. PICK g : ReplaySteps(g, s) /\ Replay(s) = g[Len(s)]
  BY ReplayIs
<1>3. PICK f : ReplaySteps(f, Append(s, e)) /\ Replay(Append(s, e)) = f[Len(s) + 1]
  BY <1>1, ReplayIs
<1>4. f[Len(s)] = g[Len(s)] /\ f[Len(s) + 1] = do_push(f[Len(s)], e)
  BY <1>2, <1>3, ReplayAgrees
<1> QED
  BY <1>2, <1>3, <1>4


-------------------------------------------------------------------------------
(* Induction over sequences. *)
LEMMA SeqInduction ==
  ASSUME NEW S, NEW G, <<>> \in G, \A s \in Seq(S), e \in S : s \in G => Append(s, e) \in G
  PROVE  \A s \in Seq(S) : s \in G
<1> DEFINE H == {n \in Nat : \A s \in Seq(S) : Len(s) = n => s \in G}
<1>1. 0 \in H
  BY EmptySeq
<1>2. ASSUME NEW n \in Nat, n \in H PROVE n + 1 \in H
  <2>1. ASSUME NEW s \in Seq(S), Len(s) = n + 1 PROVE s \in G
    <3>1. s # <<>>
      BY <2>1, EmptySeq
    <3>2. PICK t \in Seq(S), e \in S : s = Append(t, e)
      BY <3>1, SequenceEmptyOrAppend
    <3>3. Len(t) = n
      BY <2>1, <3>2, AppendProperties, LenProperties
    <3> QED
      BY <1>2, <3>2, <3>3
  <2> QED
    BY <2>1
<1> HIDE DEF H
<1>3. \A n \in Nat : n \in H
  BY <1>1, <1>2, Induction
<1>4. \A s \in Seq(S) : Len(s) \in H
  BY <1>3, LenProperties
<1> QED
  BY <1>4 DEF H

(* What Select selects: the elements of A, at the positions g, in order. *)
Picks(g, r, s, A) ==
  /\ g \in [1..Len(r) -> 1..Len(s)]
  /\ \A i, j \in 1..Len(r) : i < j => g[i] < g[j]
  /\ \A i \in 1..Len(r) : r[i] = s[g[i]] /\ r[i] \in A
  /\ \A k \in 1..Len(s) : s[k] \in A => \E i \in 1..Len(r) : g[i] = k

(* One more element: picked when it is in A. *)
LEMMA PicksAppend ==
  ASSUME NEW S, NEW s \in Seq(S), NEW e \in S, NEW A, NEW r \in Seq(S), NEW g,
         Picks(g, r, s, A)
  PROVE  IF e \in A THEN \E h : Picks(h, Append(r, e), Append(s, e), A)
                    ELSE Picks(g, r, Append(s, e), A)
<1>0. /\ Len(s) \in Nat /\ Len(r) \in Nat
      /\ Len(Append(s, e)) = Len(s) + 1 /\ Append(s, e)[Len(s) + 1] = e
      /\ \A i \in 1..Len(s) : Append(s, e)[i] = s[i]
      /\ Len(Append(r, e)) = Len(r) + 1 /\ Append(r, e)[Len(r) + 1] = e
      /\ \A i \in 1..Len(r) : Append(r, e)[i] = r[i]
  BY AppendProperties, LenProperties
<1>1. /\ g \in [1..Len(r) -> 1..Len(s)]
      /\ \A i, j \in 1..Len(r) : i < j => g[i] < g[j]
      /\ \A i \in 1..Len(r) : r[i] = s[g[i]] /\ r[i] \in A
      /\ \A k \in 1..Len(s) : s[k] \in A => \E i \in 1..Len(r) : g[i] = k
  BY DEF Picks
<1>2. CASE e \notin A
  <2>1. g \in [1..Len(r) -> 1..Len(Append(s, e))]
    BY <1>0, <1>1
  <2>2. \A i \in 1..Len(r) : r[i] = Append(s, e)[g[i]] /\ r[i] \in A
    BY <1>0, <1>1
  <2>3. \A k \in 1..Len(Append(s, e)) : Append(s, e)[k] \in A => \E i \in 1..Len(r) : g[i] = k
    BY <1>0, <1>1, <1>2
  <2> QED
    BY <1>1, <1>2, <2>1, <2>2, <2>3 DEF Picks
<1>3. CASE e \in A
  <2>0. PICK h : h = [i \in 1..(Len(r) + 1) |-> IF i <= Len(r) THEN g[i] ELSE Len(s) + 1]
    OBVIOUS
  <2>1. /\ \A i \in 1..Len(r) : h[i] = g[i] /\ h[i] \in 1..Len(s)
        /\ h[Len(r) + 1] = Len(s) + 1
    <3>1. \A i \in 1..Len(r) : i \in 1..(Len(r) + 1) /\ i <= Len(r) /\ g[i] \in 1..Len(s)
      BY <1>0, <1>1
    <3>2. Len(r) + 1 \in 1..(Len(r) + 1) /\ ~(Len(r) + 1 <= Len(r))
      BY <1>0
    <3> QED
      BY <2>0, <3>1, <3>2
  <2>2. \A i \in 1..(Len(r) + 1) : i \in 1..Len(r) \/ i = Len(r) + 1
    BY <1>0
  <2>3. ASSUME NEW i \in 1..(Len(r) + 1), NEW j \in 1..(Len(r) + 1), i < j PROVE h[i] < h[j]
    <3>1. i \in 1..Len(r) /\ h[i] = g[i] /\ g[i] \in 1..Len(s)
      BY <1>0, <1>1, <2>1, <2>3
    <3>2. CASE j \in 1..Len(r)
      BY <1>1, <2>1, <2>3, <3>1, <3>2
    <3>3. CASE j = Len(r) + 1
      BY <1>0, <2>1, <3>1, <3>3
    <3> QED
      BY <2>2, <3>2, <3>3
  <2>4. \A i \in 1..(Len(r) + 1) : Append(r, e)[i] = Append(s, e)[h[i]] /\ Append(r, e)[i] \in A
    BY <1>0, <1>1, <1>3, <2>1, <2>2
  <2>5. \A k \in 1..(Len(s) + 1) : Append(s, e)[k] \in A => \E i \in 1..(Len(r) + 1) : h[i] = k
    <3>1. ASSUME NEW k \in 1..Len(s), Append(s, e)[k] \in A PROVE \E i \in 1..(Len(r) + 1) : h[i] = k
      <4>1. PICK i \in 1..Len(r) : g[i] = k
        BY <1>0, <1>1, <3>1
      <4> QED
        BY <1>0, <2>1, <4>1
    <3>2. Len(r) + 1 \in 1..(Len(r) + 1)
      BY <1>0
    <3> QED
      BY <1>0, <2>1, <3>1, <3>2
  <2>6. h \in [1..(Len(r) + 1) -> 1..(Len(s) + 1)]
    <3>1. \A i \in 1..(Len(r) + 1) : h[i] \in 1..(Len(s) + 1)
      BY <1>0, <2>1, <2>2
    <3> QED
      BY <2>0, <3>1
  <2>7. Picks(h, Append(r, e), Append(s, e), A)
    BY <1>0, <2>3, <2>4, <2>5, <2>6 DEF Picks
  <2> QED
    BY <1>3, <2>7
<1> QED
  BY <1>2, <1>3

(* Select picks exactly the elements of A, in their order. *)
LEMMA SelectPicks ==
  ASSUME NEW S, NEW x \in Seq(S), NEW A
  PROVE  Select(x, A) \in Seq(S) /\ \E g : Picks(g, Select(x, A), x, A)
<1> DEFINE G == {s \in Seq(S) : Select(s, A) \in Seq(S) /\ \E g : Picks(g, Select(s, A), s, A)}
<1>1. <<>> \in G
  <2>1. Select(<<>>, A) = <<>> /\ <<>> \in Seq(S) /\ Len(<<>>) = 0
    BY SelectEmpty, EmptySeq
  <2>2. PICK g : g = [i \in 1..0 |-> 0]
    OBVIOUS
  <2>3. Picks(g, <<>>, <<>>, A)
    BY <2>1, <2>2 DEF Picks
  <2> QED
    BY <2>1, <2>3
<1>2. ASSUME NEW s \in Seq(S), NEW e \in S, s \in G PROVE Append(s, e) \in G
  <2>1. PICK r \in Seq(S) : r = Select(s, A)
    BY <1>2
  <2>2. PICK g : Picks(g, r, s, A)
    BY <1>2, <2>1
  <2>3. Select(Append(s, e), A) = IF e \in A THEN Append(r, e) ELSE r
    BY <2>1, SelectAppend
  <2>4. Append(s, e) \in Seq(S) /\ Append(r, e) \in Seq(S)
    BY AppendProperties
  <2>5. IF e \in A THEN \E h : Picks(h, Append(r, e), Append(s, e), A)
                   ELSE Picks(g, r, Append(s, e), A)
    BY <2>2, PicksAppend
  <2> QED
    BY <2>3, <2>4, <2>5
<1> HIDE DEF G
<1>3. x \in G
  BY <1>1, <1>2, SeqInduction
<1> QED
  BY <1>3 DEF G


-------------------------------------------------------------------------------
(* The events of a queue, and of a log from which it can be replayed:      *)
(* identifiers and updates increase, and only the last event may be a      *)
(* marker.                                                                 *)

EventType == [id : 1..(MaxId - 2), data : Nat]

Sorted(s) == \A i, j \in 1..Len(s) : i < j => s[i].id < s[j].id
Solid(s) == \A i, j \in 1..Len(s) : i < j => s[i].data # NoData
Ordered(s) == \A i, j \in 1..Len(s) : i < j /\ s[j].data # NoData => s[i].data < s[j].data

IsLog(s) ==
  /\ s \in Seq(EventType) /\ Len(s) <= MaxQueueEvents
  /\ Sorted(s) /\ Solid(s) /\ Ordered(s)

(* An event is determined by its identifier and its update. *)
LEMMA EventIs ==
  /\ \A e \in EventType : e.id \in 1..(MaxId - 2) /\ e.data \in Nat /\ e = Event(e.id, e.data)
  /\ \A i, d : Event(i, d).id = i /\ Event(i, d).data = d
  /\ \A i \in 1..(MaxId - 2), d \in Nat : Event(i, d) \in EventType
  BY DEF EventType, Event

(* The range of a sequence, by its positions. *)
LEMMA RangeIs ==
  ASSUME NEW S, NEW s \in Seq(S)
  PROVE  /\ Range(s) = {s[i] : i \in 1..Len(s)}
         /\ \A e \in Range(s) : \E i \in 1..Len(s) : e = s[i]
         /\ \A i \in 1..Len(s) : s[i] \in Range(s) /\ s[i] \in S
         /\ Len(s) \in Nat
  BY RangeEquality, LenProperties

(* A sequence of length 0 has no elements. *)
LEMMA NoRange ==
  ASSUME NEW S, NEW s \in Seq(S), Len(s) = 0
  PROVE  Range(s) = {}
<1>1. \A e \in Range(s) : \E i \in 1..Len(s) : e = s[i]
  BY RangeIs
<1> QED
  BY <1>1

(* Nor has the empty sequence. *)
LEMMA NothingInRange == Range(<<>>) = {}
<1>1. PICK S : S = Nat
  OBVIOUS
<1>2. <<>> \in Seq(S) /\ Len(<<>>) = 0
  BY EmptySeq
<1> QED
  BY <1>2, NoRange

(* In a sorted sequence an identifier has one place. *)
LEMMA SortedOnce ==
  ASSUME NEW s \in Seq(EventType), Sorted(s), NEW i \in 1..Len(s), NEW j \in 1..Len(s),
         s[i].id = s[j].id
  PROVE  i = j
<1>1. \A k \in 1..Len(s) : s[k].id \in Int /\ k \in Int
  BY RangeIs, EventIs
<1>2. CASE i < j
  BY <1>1, <1>2 DEF Sorted
<1>3. CASE j < i
  BY <1>1, <1>3 DEF Sorted
<1> QED
  BY <1>1, <1>2, <1>3

(* In a sorted sequence an identifier has one event. *)
LEMMA SortedSame ==
  ASSUME NEW s \in Seq(EventType), Sorted(s), NEW d \in Range(s), NEW e \in Range(s), d.id = e.id
  PROVE  d = e
<1>1. PICK i \in 1..Len(s) : d = s[i]
  BY RangeIs
<1>2. PICK j \in 1..Len(s) : e = s[j]
  BY RangeIs
<1> QED
  BY <1>1, <1>2, SortedOnce

(* There are n numbers from 1 to n. *)
LEMMA FirstNumbers ==
  ASSUME NEW n \in Nat
  PROVE  IsFiniteSet(1..n) /\ Cardinality(1..n) = n
<1>1. 1 \in Int /\ n \in Int
  OBVIOUS
<1>2. /\ IsFiniteSet(1..n)
      /\ Cardinality(1..n) = IF 1 > n THEN 0 ELSE n - 1 + 1
  BY <1>1, FS_Interval, Zenon
<1> QED
  BY <1>2

(* The elements that Select keeps, and that they are not more. *)
LEMMA SelectRange ==
  ASSUME NEW S, NEW s \in Seq(S), NEW A
  PROVE  /\ Select(s, A) \in Seq(S) /\ Len(Select(s, A)) <= Len(s)
         /\ Range(Select(s, A)) = Range(s) \cap A
<1>1. PICK r \in Seq(S) : r = Select(s, A)
  BY SelectPicks
<1>2. PICK g : Picks(g, r, s, A)
  BY <1>1, SelectPicks
<1>3. Len(r) \in Nat /\ Len(s) \in Nat /\ g \in [1..Len(r) -> 1..Len(s)]
  BY <1>2, LenProperties DEF Picks
<1>4. Range(r) \subseteq Range(s) \cap A
  <2>1. ASSUME NEW e \in Range(r) PROVE e \in Range(s) \cap A
    <3>1. PICK i \in 1..Len(r) : e = r[i]
      BY RangeIs
    <3>2. g[i] \in 1..Len(s) /\ r[i] = s[g[i]] /\ r[i] \in A
      BY <1>2, <1>3 DEF Picks
    <3> QED
      BY <3>1, <3>2, RangeIs
  <2> QED
    BY <2>1
<1>5. Range(s) \cap A \subseteq Range(r)
  <2>1. ASSUME NEW e \in Range(s), e \in A PROVE e \in Range(r)
    <3>1. PICK k \in 1..Len(s) : e = s[k]
      BY RangeIs
    <3>2. PICK i \in 1..Len(r) : g[i] = k
      BY <1>2, <2>1, <3>1 DEF Picks
    <3>3. r[i] = e
      BY <1>2, <3>1, <3>2 DEF Picks
    <3> QED
      BY <3>3, RangeIs
  <2> QED
    BY <2>1
<1>6. Len(r) <= Len(s)
  <2>1. g \in Injection(1..Len(r), 1..Len(s))
    <3>1. ASSUME NEW i \in 1..Len(r), NEW j \in 1..Len(r), g[i] = g[j] PROVE i = j
      <4>1. g[i] \in Int /\ g[j] \in Int
        BY <1>3
      <4>2. CASE i < j
        BY <1>2, <3>1, <4>1, <4>2 DEF Picks
      <4>3. CASE j < i
        BY <1>2, <3>1, <4>1, <4>3 DEF Picks
      <4> QED
        BY <1>3, <4>2, <4>3
    <3> QED
      BY <1>3, <3>1 DEF Injection, IsInjective
  <2>2. /\ IsFiniteSet(1..Len(s)) /\ Cardinality(1..Len(s)) = Len(s)
        /\ Cardinality(1..Len(r)) = Len(r)
    BY <1>3, FirstNumbers
  <2> QED
    BY <2>1, <2>2, FS_Injection
<1> QED
  BY <1>1, <1>4, <1>5, <1>6

(* A selection of a log is a log. *)
LEMMA SelectLog ==
  ASSUME NEW s, IsLog(s), NEW A
  PROVE  IsLog(Select(s, A))
<1>0. s \in Seq(EventType) /\ Len(s) <= MaxQueueEvents /\ Sorted(s) /\ Solid(s) /\ Ordered(s)
  BY DEF IsLog
<1>1. PICK r \in Seq(EventType) : r = Select(s, A)
  BY <1>0, SelectPicks
<1>2. PICK g : Picks(g, r, s, A)
  BY <1>0, <1>1, SelectPicks
<1>3. Len(r) <= MaxQueueEvents
  BY <1>0, <1>1, SelectRange, RangeIs, IdAssumption
<1>4. ASSUME NEW i \in 1..Len(r), NEW j \in 1..Len(r), i < j
      PROVE  /\ r[i].id < r[j].id /\ r[i].data # NoData
             /\ r[j].data # NoData => r[i].data < r[j].data
  <2>1. /\ g[i] \in 1..Len(s) /\ g[j] \in 1..Len(s) /\ g[i] < g[j]
        /\ r[i] = s[g[i]] /\ r[j] = s[g[j]]
    BY <1>2, <1>4 DEF Picks
  <2> QED
    BY <1>0, <2>1 DEF Sorted, Solid, Ordered
<1>5. IsLog(r)
  BY <1>3, <1>4 DEF IsLog, Sorted, Solid, Ordered
<1> QED
  BY <1>1, <1>5

(* The elements of a sequence with one more at the end. *)
LEMMA RangeAppend ==
  ASSUME NEW S, NEW s \in Seq(S), NEW e \in S
  PROVE  /\ Append(s, e) \in Seq(S) /\ Len(Append(s, e)) = Len(s) + 1
         /\ Range(Append(s, e)) = Range(s) \cup {e}
<1>1. /\ Append(s, e) \in Seq(S) /\ Len(Append(s, e)) = Len(s) + 1 /\ Len(s) \in Nat
      /\ Append(s, e)[Len(s) + 1] = e
      /\ \A i \in 1..Len(s) : Append(s, e)[i] = s[i]
  BY AppendProperties, LenProperties
<1>2. PICK t \in Seq(S) : t = Append(s, e)
  BY <1>1
<1>3. Range(t) = {t[i] : i \in 1..Len(t)} /\ Range(s) = {s[i] : i \in 1..Len(s)}
  BY RangeIs
<1>4. \A i \in 1..Len(t) : i \in 1..Len(s) \/ i = Len(s) + 1
  BY <1>1, <1>2
<1>5. \A i \in 1..Len(s) : i \in 1..Len(t)
  BY <1>1, <1>2
<1>6. Len(s) + 1 \in 1..Len(t)
  BY <1>1, <1>2
<1>7. Range(t) \subseteq Range(s) \cup {e}
  BY <1>1, <1>2, <1>3, <1>4
<1>8. Range(s) \cup {e} \subseteq Range(t)
  BY <1>1, <1>2, <1>3, <1>5, <1>6
<1> QED
  BY <1>1, <1>2, <1>7, <1>8

(* One event more keeps the log a log just when it comes after the others. *)
Follows(s, e) ==
  \A d \in Range(s) : d.id < e.id /\ d.data # NoData /\ (e.data # NoData => d.data < e.data)

(* In a sorted sequence the last identifier is above all others. *)
LEMMA SortedAppend ==
  ASSUME NEW s \in Seq(EventType), NEW e \in EventType, Sorted(Append(s, e))
  PROVE  Sorted(s) /\ \A d \in Range(s) : d.id < e.id
<1>1. /\ Len(Append(s, e)) = Len(s) + 1 /\ Len(s) \in Nat
      /\ Append(s, e)[Len(s) + 1] = e
      /\ \A i \in 1..Len(s) : Append(s, e)[i] = s[i]
  BY AppendProperties, LenProperties
<1>2. \A i \in 1..Len(s) : i \in 1..Len(Append(s, e)) /\ i < Len(s) + 1
  BY <1>1
<1>3. Len(s) + 1 \in 1..Len(Append(s, e))
  BY <1>1
<1>4. Sorted(s)
  BY <1>1, <1>2 DEF Sorted
<1>5. \A i \in 1..Len(s) : s[i].id < e.id
  BY <1>1, <1>2, <1>3 DEF Sorted
<1> QED
  BY <1>4, <1>5, RangeIs

(* A log can be extended exactly by an event that comes after it. *)
LEMMA LogAppend ==
  ASSUME NEW s \in Seq(EventType), NEW e \in EventType
  PROVE  IsLog(Append(s, e)) <=> IsLog(s) /\ Len(s) < MaxQueueEvents /\ Follows(s, e)
<1>1. /\ Append(s, e) \in Seq(EventType)
      /\ Len(Append(s, e)) = Len(s) + 1 /\ Len(s) \in Nat
      /\ Append(s, e)[Len(s) + 1] = e
      /\ \A i \in 1..Len(s) : Append(s, e)[i] = s[i]
  BY AppendProperties, LenProperties
<1>2. \A i \in 1..Len(s) : i \in 1..Len(Append(s, e)) /\ i < Len(s) + 1
  BY <1>1
<1>3. Len(s) + 1 \in 1..Len(Append(s, e)) /\ MaxQueueEvents \in Nat
  BY <1>1, IdAssumption
<1>4. ASSUME IsLog(Append(s, e)) PROVE IsLog(s) /\ Len(s) < MaxQueueEvents /\ Follows(s, e)
  <2>1. Len(Append(s, e)) <= MaxQueueEvents /\ Sorted(Append(s, e)) /\ Solid(Append(s, e)) /\ Ordered(Append(s, e))
    BY <1>4 DEF IsLog
  <2>2. Len(s) < MaxQueueEvents
    BY <1>1, <1>3, <2>1
  <2>3. Sorted(s) /\ Solid(s) /\ Ordered(s)
    BY <1>1, <1>2, <2>1 DEF Sorted, Solid, Ordered
  <2>4. \A i \in 1..Len(s) : s[i].id < e.id /\ s[i].data # NoData /\ (e.data # NoData => s[i].data < e.data)
    BY <1>1, <1>2, <1>3, <2>1 DEF Sorted, Solid, Ordered
  <2>5. Follows(s, e)
    BY <2>4, RangeIs DEF Follows
  <2> QED
    BY <1>1, <1>3, <2>2, <2>3, <2>5 DEF IsLog
<1>5. ASSUME IsLog(s), Len(s) < MaxQueueEvents, Follows(s, e) PROVE IsLog(Append(s, e))
  <2>1. \A i \in 1..Len(s) : s[i].id < e.id /\ s[i].data # NoData /\ (e.data # NoData => s[i].data < e.data)
    BY <1>5, RangeIs DEF Follows
  <2>2. Sorted(s) /\ Solid(s) /\ Ordered(s)
    BY <1>5 DEF IsLog
  <2>3. PICK t : t = Append(s, e)
    OBVIOUS
  <2>4. ASSUME NEW i \in 1..Len(t), NEW j \in 1..Len(t), i < j
        PROVE  t[i].id < t[j].id /\ t[i].data # NoData /\ (t[j].data # NoData => t[i].data < t[j].data)
    <3>1. i \in 1..Len(s) /\ t[i] = s[i]
      BY <1>1, <2>3, <2>4
    <3>2. CASE j \in 1..Len(s)
      <4>1. t[j] = s[j]
        BY <1>1, <2>3, <3>2
      <4> QED
        BY <2>2, <2>4, <3>1, <3>2, <4>1 DEF Sorted, Solid, Ordered
    <3>3. CASE j = Len(s) + 1
      BY <1>1, <2>1, <2>3, <3>1, <3>3
    <3> QED
      BY <1>1, <2>3, <3>2, <3>3
  <2>5. Len(t) <= MaxQueueEvents
    BY <1>1, <1>3, <1>5, <2>3
  <2> QED
    BY <1>1, <2>3, <2>4, <2>5 DEF IsLog, Sorted, Solid, Ordered
<1> QED
  BY <1>4, <1>5

(* A sorted sequence is determined by its elements. *)
LEMMA SortedUnique ==
  ASSUME NEW x \in Seq(EventType), NEW y \in Seq(EventType), Sorted(x), Sorted(y), Range(x) = Range(y)
  PROVE  x = y
<1> DEFINE G == {s \in Seq(EventType) : \A t \in Seq(EventType) :
                   Sorted(s) /\ Sorted(t) /\ Range(s) = Range(t) => s = t}
<1>1. <<>> \in G
  <2>1. <<>> \in Seq(EventType) /\ Len(<<>>) = 0
    BY EmptySeq
  <2>2. ASSUME NEW t \in Seq(EventType), Range(<<>>) = Range(t) PROVE <<>> = t
    <3>1. Range(<<>>) = {}
      BY NothingInRange
    <3>2. \A i \in 1..Len(t) : FALSE
      BY <2>2, <3>1, RangeIs
    <3>3. Len(t) = 0
      BY <3>2, LenProperties
    <3> QED
      BY <3>3, EmptySeq
  <2> QED
    BY <2>1, <2>2
<1>2. ASSUME NEW s \in Seq(EventType), NEW e \in EventType, s \in G PROVE Append(s, e) \in G
  <2>1. ASSUME NEW t \in Seq(EventType), Sorted(Append(s, e)), Sorted(t), Range(Append(s, e)) = Range(t)
        PROVE  Append(s, e) = t
    <3>1. Range(Append(s, e)) = Range(s) \cup {e}
      BY RangeAppend
    <3>2. t # <<>>
      <4>1. e \in Range(t)
        BY <2>1, <3>1
      <4> QED
        BY <4>1, RangeIs, EmptySeq
    <3>3. PICK u \in Seq(EventType), d \in EventType : t = Append(u, d)
      BY <3>2, SequenceEmptyOrAppend
    <3>4. Range(t) = Range(u) \cup {d}
      BY <3>3, RangeAppend
    <3>5. Sorted(s) /\ \A z \in Range(s) : z.id < e.id
      BY <2>1, SortedAppend
    <3>6. Sorted(u) /\ \A z \in Range(u) : z.id < d.id
      BY <2>1, <3>3, SortedAppend
    <3>7. e.id \in Int /\ d.id \in Int
      BY EventIs
    <3>8. e = d
      <4>1. e \in Range(u) \/ e = d
        BY <2>1, <3>1, <3>4
      <4>2. d \in Range(s) \/ d = e
        BY <2>1, <3>1, <3>4
      <4>3. CASE e \in Range(u) /\ d \in Range(s)
        <5>1. e.id < d.id /\ d.id < e.id
          BY <4>3, <3>5, <3>6
        <5> QED
          BY <5>1, <3>7
      <4> QED
        BY <4>1, <4>2, <4>3
    <3>9. e \notin Range(s) /\ d \notin Range(u)
      BY <3>5, <3>6, <3>7
    <3>10. Range(s) = Range(u)
      <4>1. Range(s) \cup {e} = Range(u) \cup {e}
        BY <2>1, <3>1, <3>4, <3>8
      <4>2. e \notin Range(s) /\ e \notin Range(u)
        BY <3>8, <3>9
      <4>3. ASSUME NEW z PROVE z \in Range(s) <=> z \in Range(u)
        BY <4>1, <4>2
      <4> QED
        BY <4>3
    <3> QED
      BY <1>2, <3>3, <3>5, <3>6, <3>8, <3>10
  <2> QED
    BY <2>1, RangeAppend
<1> HIDE DEF G
<1>3. x \in G
  BY <1>1, <1>2, SeqInduction
<1> QED
  BY <1>3 DEF G

(* A log is determined by its events. *)
LEMMA LogUnique ==
  ASSUME NEW x, NEW y, IsLog(x), IsLog(y), Range(x) = Range(y)
  PROVE  x = y
  BY SortedUnique DEF IsLog

(* Ids and Data, by the elements of the sequence. *)
LEMMA IdsAre ==
  ASSUME NEW S, NEW s \in Seq(S)
  PROVE  /\ \A i : i \in Ids(s) <=> \E e \in Range(s) : e.id = i
         /\ \A u : u \in Data(s) <=> u # NoData /\ \E e \in Range(s) : e.data = u
  BY RangeIs DEF Ids, Data

-------------------------------------------------------------------------------
(* A log in which the events of ids, the last one at most, become markers. *)
Marked(s, ids) == [k \in 1..Len(s) |-> IF s[k].id \in ids THEN Event(s[k].id, NoData) ELSE s[k]]

(* When only the last event of a log becomes a marker, it is a log. *)
LEMMA MarkedLog ==
  ASSUME NEW s, IsLog(s), NEW ids,
         \A e \in Range(s) : e.id \in ids => \A d \in Range(s) : d.id <= e.id
  PROVE  /\ IsLog(Marked(s, ids)) /\ Len(Marked(s, ids)) = Len(s)
         /\ \A e : e \in Range(Marked(s, ids)) <=>
              \/ e \in Range(s) /\ e.id \notin ids
              \/ \E d \in Range(s) : d.id \in ids /\ e = Event(d.id, NoData)
<1>0. s \in Seq(EventType) /\ Len(s) <= MaxQueueEvents /\ Sorted(s) /\ Solid(s) /\ Ordered(s) /\ Len(s) \in Nat
  BY LenProperties DEF IsLog
<1>1. PICK t : t = Marked(s, ids)
  OBVIOUS
<1>2. /\ DOMAIN t = 1..Len(s)
      /\ \A k \in 1..Len(s) : t[k] = IF s[k].id \in ids THEN Event(s[k].id, NoData) ELSE s[k]
  BY <1>1 DEF Marked
<1>3. \A k \in 1..Len(s) : s[k] \in EventType /\ s[k] \in Range(s)
  BY <1>0, RangeIs
<1>4. \A k \in 1..Len(s) : t[k] \in EventType /\ t[k].id = s[k].id /\ (s[k].id \in ids => t[k].data = NoData)
                           /\ (s[k].id \notin ids => t[k] = s[k])
  <2>1. NoData \in Nat
    BY DEF NoData
  <2>2. \A k \in 1..Len(s) : s[k].id \in 1..(MaxId - 2)
    BY <1>3, EventIs
  <2>3. ASSUME NEW k \in 1..Len(s)
        PROVE  t[k] \in EventType /\ t[k].id = s[k].id /\ (s[k].id \in ids => t[k].data = NoData)
               /\ (s[k].id \notin ids => t[k] = s[k])
    <3>1. CASE s[k].id \in ids
      BY <1>2, <2>1, <2>2, <3>1, EventIs
    <3>2. CASE s[k].id \notin ids
      BY <1>2, <1>3, <3>2
    <3> QED
      BY <3>1, <3>2
  <2> QED
    BY <2>3
<1>5. t \in Seq(EventType) /\ Len(t) = Len(s)
  <2>1. t = [k \in 1..Len(s) |-> t[k]]
    BY <1>1 DEF Marked
  <2>2. t \in [1..Len(s) -> EventType]
    BY <1>4, <2>1
  <2>3. t \in Seq(EventType)
    BY <1>0, <2>2, SeqDef
  <2> QED
    BY <1>0, <1>2, <2>3, LenProperties
<1>6. ASSUME NEW i \in 1..Len(s), NEW j \in 1..Len(s), i < j
      PROVE  /\ t[i] = s[i] /\ t[j].id = s[j].id /\ s[i].id < s[j].id /\ s[i].data # NoData
             /\ t[j].data # NoData => s[i].data < t[j].data
  <2>1. s[i].id < s[j].id /\ s[i].data # NoData
    BY <1>0, <1>6 DEF Sorted, Solid
  <2>2. s[i].id \notin ids
    <3>1. s[i].id \in Int /\ s[j].id \in Int
      BY <1>3, EventIs
    <3>2. ~(s[j].id <= s[i].id)
      BY <2>1, <3>1
    <3> QED
      BY <1>3, <3>2
  <2>3. t[j].data # NoData => t[j] = s[j]
    BY <1>4
  <2> QED
    BY <1>0, <1>4, <1>6, <2>1, <2>2, <2>3 DEF Ordered
<1>7. IsLog(t)
  <2>1. Sorted(t)
    BY <1>5, <1>6 DEF Sorted
  <2>2. Solid(t)
    BY <1>5, <1>6 DEF Solid
  <2>3. Ordered(t)
    BY <1>5, <1>6 DEF Ordered
  <2> QED
    BY <1>0, <1>5, <2>1, <2>2, <2>3 DEF IsLog
<1>8. ASSUME NEW e
      PROVE  e \in Range(t) <=> \/ e \in Range(s) /\ e.id \notin ids
                                \/ \E d \in Range(s) : d.id \in ids /\ e = Event(d.id, NoData)
  <2>1. ASSUME e \in Range(t)
        PROVE  \/ e \in Range(s) /\ e.id \notin ids
               \/ \E d \in Range(s) : d.id \in ids /\ e = Event(d.id, NoData)
    <3>1. PICK k \in 1..Len(s) : e = t[k]
      BY <1>5, <2>1, RangeIs
    <3> QED
      BY <1>2, <1>3, <3>1
  <2>2. ASSUME e \in Range(s), e.id \notin ids PROVE e \in Range(t)
    <3>1. PICK k \in 1..Len(s) : e = s[k]
      BY <1>0, <2>2, RangeIs
    <3>2. t[k] = e
      BY <1>2, <2>2, <3>1
    <3> QED
      BY <1>5, <3>2, RangeIs
  <2>3. ASSUME NEW d \in Range(s), d.id \in ids, e = Event(d.id, NoData) PROVE e \in Range(t)
    <3>1. PICK k \in 1..Len(s) : d = s[k]
      BY <1>0, <2>3, RangeIs
    <3>2. t[k] = e
      BY <1>2, <2>3, <3>1
    <3> QED
      BY <1>5, <3>2, RangeIs
  <2> QED
    BY <2>1, <2>2, <2>3
<1> QED
  BY <1>1, <1>5, <1>7, <1>8

(* pop of the events of ids, of a queue that ends below tail. *)
LEMMA KeepMarkerLog ==
  ASSUME NEW s, IsLog(s), NEW ids, NEW tail \in Int, \A e \in Range(s) : e.id + 1 <= tail
  PROVE  /\ IsLog(KeepMarker(s, ids, tail))
         /\ \A e : e \in Range(KeepMarker(s, ids, tail)) <=>
              \/ e \in Range(s) /\ e.id \notin ids
              \/ \E d \in Range(s) : d.id \in ids /\ d.id + 1 = tail /\ e = Event(d.id, NoData)
<1>0. s \in Seq(EventType) /\ \A e \in Range(s) : e.id \in Int
  <2>1. s \in Seq(EventType)
    BY DEF IsLog
  <2>2. \A e \in Range(s) : e \in EventType
    BY <2>1, RangeIs
  <2> QED
    BY <2>1, <2>2, EventIs
<1>1. PICK A : A = {e \in Range(s) : e.id \notin ids \/ e.id + 1 = tail}
  OBVIOUS
<1>2. PICK kept : kept = Select(s, A)
  OBVIOUS
<1>3. IsLog(kept)
  BY <1>2, SelectLog
<1>4. Range(kept) = Range(s) \cap A
  BY <1>0, <1>2, SelectRange
<1>5. KeepMarker(s, ids, tail) = Marked(kept, ids)
  BY <1>1, <1>2 DEF KeepMarker, Marked
<1>6. \A e \in Range(kept) : e.id \in ids => \A d \in Range(kept) : d.id <= e.id
  <2>1. ASSUME NEW e \in Range(kept), e.id \in ids, NEW d \in Range(kept) PROVE d.id <= e.id
    <3>1. e.id + 1 = tail /\ d.id + 1 <= tail /\ d.id \in Int /\ e.id \in Int
      BY <1>0, <1>1, <1>4, <2>1
    <3> QED
      BY <3>1
  <2> QED
    BY <2>1
<1>7. /\ IsLog(Marked(kept, ids))
      /\ \A e : e \in Range(Marked(kept, ids)) <=>
              \/ e \in Range(kept) /\ e.id \notin ids
              \/ \E d \in Range(kept) : d.id \in ids /\ e = Event(d.id, NoData)
  BY <1>3, <1>6, MarkedLog
<1> QED
  BY <1>1, <1>4, <1>5, <1>7


(* The first elements stay when one is appended. *)
LEMMA SubSeqAppend ==
  ASSUME NEW S, NEW s \in Seq(S), NEW e \in S, NEW k \in 0..Len(s)
  PROVE  SubSeq(Append(s, e), 1, k) = SubSeq(s, 1, k)
<1>1. PICK t \in Seq(S) : t = Append(s, e)
  BY AppendProperties
<1>2. /\ Len(t) = Len(s) + 1 /\ Len(s) \in Nat /\ k \in Nat
      /\ \A i \in 1..Len(s) : t[i] = s[i] /\ s[i] \in S
  BY <1>1, AppendProperties, LenProperties, ElementOfSeq
<1>3. \A i \in 1..k : i \in 1..Len(s)
  BY <1>2
<1>4. \A i \in 1..k : t[i] = s[i] /\ s[i] \in S /\ t[i] \in S
  BY <1>2, <1>3
<1>5. PICK a : a = SubSeq(s, 1, k)
  OBVIOUS
<1>6. PICK b : b = SubSeq(t, 1, k)
  OBVIOUS
<1>7. a \in Seq(S) /\ Len(a) = k /\ \A i \in 1..k : a[i] = s[i]
  <2>1. /\ SubSeq(s, 1, k) \in Seq(S) /\ Len(SubSeq(s, 1, k)) = IF 1 <= k THEN k - 1 + 1 ELSE 0
        /\ \A i \in 1..(k - 1 + 1) : SubSeq(s, 1, k)[i] = s[1 + i - 1]
    BY <1>2, <1>4, SubSeqProperties
  <2> QED
    BY <1>2, <1>5, <2>1
<1>8. b \in Seq(S) /\ Len(b) = k /\ \A i \in 1..k : b[i] = t[i]
  <2>1. /\ SubSeq(t, 1, k) \in Seq(S) /\ Len(SubSeq(t, 1, k)) = IF 1 <= k THEN k - 1 + 1 ELSE 0
        /\ \A i \in 1..(k - 1 + 1) : SubSeq(t, 1, k)[i] = t[1 + i - 1]
    BY <1>2, <1>4, SubSeqProperties
  <2> QED
    BY <1>2, <1>6, <2>1
<1>9. a = b
  BY <1>4, <1>7, <1>8, SeqEqual
<1> QED
  BY <1>1, <1>5, <1>6, <1>9

-------------------------------------------------------------------------------
(* The log.  n bounds the updates in it; records turn a log into another   *)
(* one when it is a log after each of them.                                *)
GoodLog(s, n) == IsLog(s) /\ \A e \in Range(s) : e.data <= n

RecordType == [id : 1..(MaxId - 2), data : Nat \cup {Erased}]

Logged(log, recs, new, n) ==
  /\ recs \in Seq(RecordType)
  /\ Written(log, recs) = new
  /\ \A k \in 0..Len(recs) : GoodLog(Written(log, SubSeq(recs, 1, k)), n)

(* No records leave the log as it is. *)
LEMMA LoggedNothing ==
  ASSUME NEW log, NEW n, GoodLog(log, n)
  PROVE  Logged(log, <<>>, log, n)
<1>1. <<>> \in Seq(RecordType) /\ Len(<<>>) = 0
  BY EmptySeq
<1>2. Written(log, <<>>) = log
  BY WrittenEmpty
<1>3. SubSeq(<<>>, 1, 0) = <<>>
  BY SubSeqEmpty
<1>4. \A k \in 0..0 : k = 0
  OBVIOUS
<1> QED
  BY <1>1, <1>2, <1>3, <1>4 DEF Logged

(* What the records have led to is what is written. *)
LEMMA LoggedIs ==
  ASSUME NEW log, NEW recs, NEW new, NEW n, Logged(log, recs, new, n)
  PROVE  GoodLog(new, n) /\ GoodLog(log, n) /\ recs \in Seq(RecordType) /\ Written(log, recs) = new
<1>1. recs \in Seq(RecordType) /\ Written(log, recs) = new /\ Len(recs) \in Nat
  BY LenProperties DEF Logged
<1>2. Len(recs) \in 0..Len(recs) /\ 0 \in 0..Len(recs)
  BY <1>1
<1>3. SubSeq(recs, 1, Len(recs)) = recs
  BY <1>1, SubSeqFull
<1>4. SubSeq(recs, 1, 0) = <<>>
  BY SubSeqEmpty
<1>5. Written(log, <<>>) = log
  BY WrittenEmpty
<1> QED
  BY <1>1, <1>2, <1>3, <1>4, <1>5 DEF Logged

(* One record more, when it leaves a log. *)
LEMMA LoggedAppend ==
  ASSUME NEW log, NEW recs, NEW l, NEW n, Logged(log, recs, l, n), NEW r \in RecordType,
         GoodLog(ApplyRecord(l, r), n)
  PROVE  Logged(log, Append(recs, r), ApplyRecord(l, r), n)
<1>1. recs \in Seq(RecordType) /\ Written(log, recs) = l /\ Len(recs) \in Nat
  BY LenProperties DEF Logged
<1>2. Written(log, Append(recs, r)) = ApplyRecord(l, r)
  BY <1>1, WrittenAppend
<1>3. PICK t \in Seq(RecordType) : t = Append(recs, r)
  BY <1>1, AppendProperties
<1>4. Len(t) = Len(recs) + 1
  BY <1>1, <1>3, AppendProperties
<1>5. ASSUME NEW k \in 0..Len(t) PROVE GoodLog(Written(log, SubSeq(t, 1, k)), n)
  <2>1. CASE k \in 0..Len(recs)
    <3>1. SubSeq(t, 1, k) = SubSeq(recs, 1, k)
      BY <1>1, <1>3, <2>1, SubSeqAppend
    <3> QED
      BY <2>1, <3>1 DEF Logged
  <2>2. CASE k = Len(t)
    <3>1. SubSeq(t, 1, k) = t
      BY <2>2, SubSeqFull
    <3> QED
      BY <1>2, <1>3, <3>1
  <2> QED
    BY <1>1, <1>4, <2>1, <2>2
<1> QED
  BY <1>2, <1>3, <1>5 DEF Logged

(* All records but the last one, and the effect of the last one. *)
LEMMA LoggedPrefix ==
  ASSUME NEW log, NEW recs \in Seq(RecordType), NEW r \in RecordType, NEW new, NEW n,
         Logged(log, Append(recs, r), new, n)
  PROVE  /\ Logged(log, recs, Written(log, recs), n)
         /\ new = ApplyRecord(Written(log, recs), r)
<1>1. Len(recs) \in Nat /\ Len(Append(recs, r)) = Len(recs) + 1
  BY LenProperties, AppendProperties
<1>2. new = ApplyRecord(Written(log, recs), r)
  BY WrittenAppend DEF Logged
<1>3. ASSUME NEW k \in 0..Len(recs) PROVE GoodLog(Written(log, SubSeq(recs, 1, k)), n)
  <2>1. SubSeq(Append(recs, r), 1, k) = SubSeq(recs, 1, k)
    BY SubSeqAppend
  <2>2. k \in 0..Len(Append(recs, r))
    BY <1>1
  <2> QED
    BY <2>1, <2>2 DEF Logged
<1> QED
  BY <1>2, <1>3 DEF Logged

(* Records after records. *)
LEMMA LoggedConcat ==
  ASSUME NEW log, NEW r1, NEW l, NEW r2, NEW new, NEW n,
         Logged(log, r1, l, n), Logged(l, r2, new, n)
  PROVE  Logged(log, r1 \o r2, new, n)
<1> DEFINE G == {s \in Seq(RecordType) : \A x : Logged(l, s, x, n) => Logged(log, r1 \o s, x, n)}
<1>0. r1 \in Seq(RecordType) /\ r2 \in Seq(RecordType)
  BY DEF Logged
<1>1. <<>> \in G
  <2>1. <<>> \in Seq(RecordType) /\ r1 \o <<>> = r1
    BY <1>0, EmptySeq, ConcatEmptySeq
  <2>2. \A x : Logged(l, <<>>, x, n) => x = l
    BY WrittenEmpty DEF Logged
  <2> QED
    BY <2>1, <2>2
<1>2. ASSUME NEW s \in Seq(RecordType), NEW r \in RecordType, s \in G PROVE Append(s, r) \in G
  <2>1. ASSUME NEW x, Logged(l, Append(s, r), x, n) PROVE Logged(log, r1 \o Append(s, r), x, n)
    <3>1. /\ Logged(l, s, Written(l, s), n)
          /\ x = ApplyRecord(Written(l, s), r)
      BY <2>1, LoggedPrefix
    <3>2. Logged(log, r1 \o s, Written(l, s), n)
      BY <1>2, <3>1
    <3>3. GoodLog(x, n)
      BY <2>1, LoggedIs
    <3>4. Logged(log, Append(r1 \o s, r), x, n)
      BY <3>1, <3>2, <3>3, LoggedAppend
    <3>5. r1 \o Append(s, r) = Append(r1 \o s, r)
      <4>1. <<r>> \in Seq(RecordType)
        OBVIOUS
      <4>2. r1 \o s \in Seq(RecordType)
        BY <1>0, ConcatProperties
      <4>3. Append(s, r) = s \o <<r>> /\ Append(r1 \o s, r) = (r1 \o s) \o <<r>>
        BY <4>2, AppendIsConcat
      <4>4. (r1 \o s) \o <<r>> = r1 \o (s \o <<r>>)
        BY <1>0, <4>1, ConcatAssociative
      <4> QED
        BY <4>3, <4>4
    <3> QED
      BY <3>4, <3>5
  <2> QED
    BY <2>1, AppendProperties
<1> HIDE DEF G
<1>3. r2 \in G
  BY <1>0, <1>1, <1>2, SeqInduction
<1> QED
  BY <1>3 DEF G

(* A larger bound on the updates does no harm. *)
LEMMA LoggedMore ==
  ASSUME NEW log, NEW recs, NEW new, NEW n \in Nat, NEW m \in Nat, n <= m, Logged(log, recs, new, n)
  PROVE  Logged(log, recs, new, m)
<1>1. ASSUME NEW s, GoodLog(s, n) PROVE GoodLog(s, m)
  <2>1. s \in Seq(EventType)
    BY <1>1 DEF GoodLog, IsLog
  <2>2. \A e \in Range(s) : e \in EventType
    BY <2>1, RangeIs
  <2>3. \A e \in Range(s) : e.data \in Nat
    BY <2>2, EventIs
  <2>4. \A e \in Range(s) : e.data <= m
    BY <1>1, <2>3 DEF GoodLog
  <2> QED
    BY <1>1, <2>4 DEF GoodLog
<1> QED
  BY <1>1 DEF Logged


(* What it means to be a log. *)
LEMMA LogIs ==
  ASSUME NEW s, IsLog(s)
  PROVE  /\ s \in Seq(EventType) /\ Sorted(s) /\ Len(s) \in Nat /\ Len(s) <= MaxQueueEvents
         /\ \A e \in Range(s) : e \in EventType /\ e.id \in Int /\ e.data \in Nat
         /\ \A d, e \in Range(s) : d.id = e.id => d = e
<1>1. s \in Seq(EventType) /\ Sorted(s) /\ Len(s) \in Nat /\ Len(s) <= MaxQueueEvents
  BY LenProperties DEF IsLog
<1>2. \A e \in Range(s) : e \in EventType
  BY <1>1, RangeIs
<1>3. \A e \in Range(s) : e.id \in Int /\ e.data \in Nat
  BY <1>2, EventIs
<1> QED
  BY <1>1, <1>2, <1>3, SortedSame

(* The empty sequence is a log. *)
LEMMA LogEmpty == IsLog(<<>>)
<1>1. PICK s : s = <<>>
  OBVIOUS
<1>2. s \in Seq(EventType) /\ Len(s) = 0
  BY <1>1, EmptySeq
<1>3. MaxQueueEvents \in Nat
  BY IdAssumption
<1>4. IsLog(s)
  BY <1>2, <1>3 DEF IsLog, Sorted, Solid, Ordered
<1> QED
  BY <1>1, <1>4

(* One event is a log. *)
LEMMA LogOne ==
  ASSUME NEW e \in EventType
  PROVE  IsLog(Append(<<>>, e)) /\ Range(Append(<<>>, e)) = {e}
<1>1. <<>> \in Seq(EventType) /\ Len(<<>>) = 0
  BY EmptySeq
<1>2. Range(<<>>) = {}
  BY NothingInRange
<1>3. Follows(<<>>, e)
  BY <1>2 DEF Follows
<1>4. 0 < MaxQueueEvents
  BY IdAssumption
<1>5. IsLog(Append(<<>>, e))
  BY <1>1, <1>3, <1>4, LogAppend, LogEmpty
<1>6. Range(Append(<<>>, e)) = {e}
  <2>1. PICK z : z = <<>>
    OBVIOUS
  <2>2. z \in Seq(EventType) /\ Range(z) = {}
    BY <1>1, <1>2, <2>1
  <2>3. Range(Append(z, e)) = {e}
    BY <2>2, RangeAppend
  <2> QED
    BY <2>1, <2>3, Zenon
<1> QED
  BY <1>2, <1>5, <1>6

(* A selection of a log with updates up to n is one. *)
LEMMA SelectGood ==
  ASSUME NEW s, NEW n, GoodLog(s, n), NEW A
  PROVE  GoodLog(Select(s, A), n) /\ Range(Select(s, A)) = Range(s) \cap A
<1>1. IsLog(Select(s, A))
  BY SelectLog DEF GoodLog
<1>2. Range(Select(s, A)) = Range(s) \cap A
  BY LogIs, SelectRange DEF GoodLog
<1> QED
  BY <1>1, <1>2 DEF GoodLog

(* What one element of a log or none is selected. *)
LEMMA SelectNone ==
  ASSUME NEW s, IsLog(s), NEW A, Range(s) \cap A = {}
  PROVE  Select(s, A) = <<>>
<1>1. IsLog(Select(s, A)) /\ Range(Select(s, A)) = {}
  BY SelectLog, LogIs, SelectRange
<1> QED
  BY <1>1, LogEmpty, NothingInRange, LogUnique

(* A selection with one element. *)
LEMMA SelectSingle ==
  ASSUME NEW s, IsLog(s), NEW A, NEW r, Range(s) \cap A = {r}
  PROVE  Select(s, A) = Append(<<>>, r)
<1>1. IsLog(Select(s, A)) /\ Range(Select(s, A)) = {r}
  BY SelectLog, LogIs, SelectRange
<1>2. r \in EventType
  BY LogIs
<1> QED
  BY <1>1, <1>2, LogOne, LogUnique

Erasing(g) == [k \in 1..Len(g) |-> Erase(g[k])]

(* erase(log_event_id) of the event of a record. *)
LEMMA EraseIs ==
  ASSUME NEW e \in EventType
  PROVE  Erase(e) \in RecordType /\ Erase(e).id = e.id /\ Erase(e).data = Erased
<1>1. e.id \in 1..(MaxId - 2)
  BY EventIs
<1> QED
  BY <1>1 DEF Erase, RecordType, Event

(* The records by which events are erased. *)
LEMMA ErasingIs ==
  ASSUME NEW g \in Seq(EventType)
  PROVE  /\ Erasing(g) \in Seq(RecordType) /\ Len(Erasing(g)) = Len(g)
         /\ \A k \in 1..Len(g) : Erasing(g)[k] = Erase(g[k])
<1>1. PICK t : t = Erasing(g)
  OBVIOUS
<1>2. Len(g) \in Nat /\ \A k \in 1..Len(g) : g[k] \in EventType
  BY RangeIs
<1>3. \A k \in 1..Len(g) : Erase(g[k]) \in RecordType
  BY <1>2, EraseIs
<1>4. t \in [1..Len(g) -> RecordType] /\ \A k \in 1..Len(g) : t[k] = Erase(g[k])
  BY <1>1, <1>3 DEF Erasing
<1>5. t \in Seq(RecordType)
  BY <1>2, <1>4, SeqDef
<1>6. Len(t) = Len(g)
  BY <1>2, <1>4, <1>5, LenProperties
<1> QED
  BY <1>1, <1>4, <1>5, <1>6

(* They are written in the order of the events. *)
LEMMA ErasingAppend ==
  ASSUME NEW g \in Seq(EventType), NEW e \in EventType
  PROVE  Erasing(Append(g, e)) = Append(Erasing(g), Erase(e))
<1>1. PICK t \in Seq(EventType) : t = Append(g, e)
  BY AppendProperties
<1>2. /\ Len(t) = Len(g) + 1 /\ t[Len(g) + 1] = e /\ Len(g) \in Nat
      /\ \A k \in 1..Len(g) : t[k] = g[k]
  BY <1>1, AppendProperties, LenProperties
<1>3. PICK a : a = Erasing(t)
  OBVIOUS
<1>4. PICK c : c = Erasing(g)
  OBVIOUS
<1>5. /\ a \in Seq(RecordType) /\ Len(a) = Len(g) + 1 /\ \A k \in 1..(Len(g) + 1) : a[k] = Erase(t[k])
      /\ c \in Seq(RecordType) /\ Len(c) = Len(g) /\ \A k \in 1..Len(g) : c[k] = Erase(g[k])
  BY <1>2, <1>3, <1>4, ErasingIs
<1>6. Erase(e) \in RecordType
  BY EraseIs
<1>7. PICK b : b = Append(c, Erase(e))
  OBVIOUS
<1>8. /\ b \in Seq(RecordType) /\ Len(b) = Len(g) + 1
      /\ \A k \in 1..Len(g) : b[k] = c[k]
      /\ b[Len(g) + 1] = Erase(e)
  BY <1>5, <1>6, <1>7, AppendProperties
<1>9. \A k \in 1..(Len(g) + 1) : k \in 1..Len(g) \/ k = Len(g) + 1
  BY <1>2
<1>10. \A k \in 1..(Len(g) + 1) : a[k] = b[k]
  BY <1>2, <1>5, <1>8, <1>9
<1>11. a = b
  BY <1>5, <1>8, <1>10, SeqEqual
<1> QED
  BY <1>1, <1>3, <1>4, <1>7, <1>11

(* The records of the events of gone are erased, one after the other. *)
LEMMA EraseWrites ==
  ASSUME NEW b, NEW n, GoodLog(b, n), NEW gone \in Seq(EventType)
  PROVE  Logged(b, Erasing(gone), Select(b, {e \in Range(b) : e.id \notin Ids(gone)}), n)
<1> DEFINE Rest(g) == Select(b, {e \in Range(b) : e.id \notin Ids(g)})
           G == {g \in Seq(EventType) : Logged(b, Erasing(g), Rest(g), n)}
<1>0. IsLog(b)
  BY DEF GoodLog
<1>1. <<>> \in G
  <2>1. <<>> \in Seq(EventType) /\ Len(<<>>) = 0
    BY EmptySeq
  <2>2. Erasing(<<>>) = <<>>
    <3>1. Erasing(<<>>) \in Seq(RecordType) /\ Len(Erasing(<<>>)) = 0
      BY <2>1, ErasingIs
    <3> QED
      BY <3>1, EmptySeq
  <2>3. Ids(<<>>) = {}
    <3>1. \A i : i \in Ids(<<>>) <=> \E e \in Range(<<>>) : e.id = i
      BY <2>1, IdsAre
    <3> QED
      BY <3>1, NothingInRange
  <2>4. Rest(<<>>) = b
    <3>1. Range(Rest(<<>>)) = Range(b) /\ IsLog(Rest(<<>>))
      <4>1. PICK A : A = {e \in Range(b) : e.id \notin Ids(<<>>)}
        OBVIOUS
      <4>2. Range(b) \cap A = Range(b)
        BY <2>3, <4>1
      <4>3. Range(Select(b, A)) = Range(b) \cap A /\ IsLog(Select(b, A))
        BY SelectGood DEF GoodLog
      <4> QED
        BY <4>1, <4>2, <4>3
    <3> HIDE DEF Rest
    <3> QED
      BY <1>0, <3>1, LogUnique
  <2>5. Logged(b, <<>>, b, n)
    BY LoggedNothing
  <2> QED
    BY <2>1, <2>2, <2>4, <2>5
<1>2. ASSUME NEW g \in Seq(EventType), NEW e \in EventType, g \in G PROVE Append(g, e) \in G
  <2>1. PICK h \in Seq(EventType) : h = Append(g, e) /\ Range(h) = Range(g) \cup {e}
    BY RangeAppend
  <2>2. \A i : i \in Ids(h) <=> i \in Ids(g) \/ i = e.id
    <3>1. \A i : i \in Ids(h) <=> \E d \in Range(h) : d.id = i
      BY IdsAre
    <3>2. \A i : i \in Ids(g) <=> \E d \in Range(g) : d.id = i
      BY IdsAre
    <3> QED
      BY <2>1, <3>1, <3>2
  <2>3. PICK l : l = Rest(g)
    OBVIOUS
  <2>4. GoodLog(l, n) /\ Range(l) = {d \in Range(b) : d.id \notin Ids(g)}
    BY <2>3, SelectGood
  <2>5. PICK m : m = Rest(h)
    OBVIOUS
  <2>6. GoodLog(m, n) /\ Range(m) = {d \in Range(b) : d.id \notin Ids(h)}
    BY <2>5, SelectGood
  <2>7. Erase(e) \in RecordType /\ Erase(e).id = e.id /\ Erase(e).data = Erased
    BY EraseIs
  <2>8. ApplyRecord(l, Erase(e)) = m
    <3>1. PICK A : A = {d \in Range(l) : d.id # e.id}
      OBVIOUS
    <3>2. ApplyRecord(l, Erase(e)) = Select(l, A)
      BY <2>7, <3>1 DEF ApplyRecord
    <3>3. IsLog(Select(l, A)) /\ Range(Select(l, A)) = Range(l) \cap A
      BY <2>4, SelectGood DEF GoodLog
    <3>4. Range(l) \cap A = Range(m)
      BY <2>2, <2>4, <2>6, <3>1
    <3>5. Select(l, A) = m
      BY <2>6, <3>3, <3>4, LogUnique DEF GoodLog
    <3> QED
      BY <3>2, <3>5
  <2>9. Logged(b, Erasing(g), l, n)
    BY <1>2, <2>3
  <2>10. Logged(b, Append(Erasing(g), Erase(e)), m, n)
    BY <2>6, <2>7, <2>8, <2>9, LoggedAppend
  <2>11. Erasing(h) = Append(Erasing(g), Erase(e))
    BY <2>1, ErasingAppend
  <2>12. Logged(b, Erasing(h), Rest(h), n)
    BY <2>5, <2>10, <2>11
  <2> QED
    BY <2>1, <2>12
<1> HIDE DEF G
<1>3. gone \in G
  BY <1>1, <1>2, SeqInduction
<1> QED
  BY <1>3 DEF G


(* A record that is rewritten, and one that is added. *)
LEMMA RewriteApplied ==
  ASSUME NEW l, IsLog(l), NEW r \in EventType, r.id \in Ids(l), NEW y, IsLog(y),
         \A e : e \in Range(y) <=> (e \in Range(l) /\ e.id # r.id) \/ e = r
  PROVE  ApplyRecord(l, r) = y
<1>0. l \in Seq(EventType) /\ Sorted(l) /\ Len(l) \in Nat
  BY LogIs
<1>1. r.data # Erased
  <2>1. r.data \in Nat
    BY EventIs
  <2> QED
    BY <2>1 DEF Erased
<1>2. PICK t : t = [k \in 1..Len(l) |-> IF l[k].id = r.id THEN r ELSE l[k]]
  OBVIOUS
<1>3. ApplyRecord(l, r) = t
  BY <1>1, <1>2 DEF ApplyRecord
<1>4. \A k \in 1..Len(l) : l[k] \in EventType /\ l[k] \in Range(l)
  BY <1>0, RangeIs
<1>5. \A k \in 1..Len(l) : t[k] \in EventType /\ t[k].id = l[k].id /\ (l[k].id = r.id => t[k] = r)
                           /\ (l[k].id # r.id => t[k] = l[k])
  BY <1>2, <1>4
<1>6. t \in Seq(EventType) /\ Len(t) = Len(l)
  <2>1. t \in [1..Len(l) -> EventType]
    BY <1>2, <1>5
  <2>2. t \in Seq(EventType)
    BY <1>0, <2>1, SeqDef
  <2> QED
    BY <1>0, <2>1, <2>2, LenProperties
<1>7. Sorted(t)
  BY <1>0, <1>5, <1>6 DEF Sorted
<1>8. Range(t) = Range(y)
  <2>1. ASSUME NEW e \in Range(t) PROVE e \in Range(y)
    <3>1. PICK k \in 1..Len(l) : e = t[k]
      BY <1>6, RangeIs
    <3> QED
      BY <1>4, <1>5, <3>1
  <2>2. ASSUME NEW e \in Range(y) PROVE e \in Range(t)
    <3>1. CASE e \in Range(l) /\ e.id # r.id
      <4>1. PICK k \in 1..Len(l) : e = l[k]
        BY <1>0, <3>1, RangeIs
      <4>2. e = t[k]
        BY <1>5, <3>1, <4>1
      <4> QED
        BY <1>6, <4>2, RangeIs
    <3>2. CASE e = r
      <4>1. PICK d \in Range(l) : d.id = r.id
        BY <1>0, IdsAre
      <4>2. PICK k \in 1..Len(l) : d = l[k]
        BY <1>0, RangeIs
      <4>3. e = t[k]
        BY <1>5, <3>2, <4>1, <4>2
      <4> QED
        BY <1>6, <4>3, RangeIs
    <3> QED
      BY <2>2, <3>1, <3>2
  <2> QED
    BY <2>1, <2>2
<1>9. t = y
  BY <1>6, <1>7, <1>8, LogIs, SortedUnique
<1> QED
  BY <1>3, <1>9

(* A record above all others is added at the end. *)
LEMMA AddApplied ==
  ASSUME NEW l, IsLog(l), NEW r \in EventType, \A d \in Range(l) : d.id < r.id, NEW y, IsLog(y),
         Range(y) = Range(l) \cup {r}
  PROVE  ApplyRecord(l, r) = y
<1>0. l \in Seq(EventType) /\ Sorted(l) /\ Len(l) \in Nat /\ \A d \in Range(l) : d.id \in Int
  BY LogIs
<1>1. r.data # Erased /\ r.id \in Int
  <2>1. r.data \in Nat /\ r.id \in Int
    BY EventIs
  <2> QED
    BY <2>1 DEF Erased
<1>2. r.id \notin Ids(l)
  <2>1. \A d \in Range(l) : d.id # r.id
    BY <1>0, <1>1
  <2> QED
    BY <1>0, <2>1, IdsAre
<1>3. ApplyRecord(l, r) = Append(l, r)
  BY <1>1, <1>2 DEF ApplyRecord
<1>4. PICK t \in Seq(EventType) : t = Append(l, r)
  BY <1>0, AppendProperties
<1>5. Range(t) = Range(y)
  BY <1>0, <1>4, RangeAppend
<1>6. /\ Len(t) = Len(l) + 1 /\ t[Len(l) + 1] = r
      /\ \A k \in 1..Len(l) : t[k] = l[k] /\ l[k] \in Range(l)
  BY <1>0, <1>4, AppendProperties, RangeIs
<1>7. Sorted(t)
  <2>1. ASSUME NEW i \in 1..Len(t), NEW j \in 1..Len(t), i < j PROVE t[i].id < t[j].id
    <3>1. i \in 1..Len(l)
      BY <1>0, <1>6, <2>1
    <3>2. CASE j \in 1..Len(l)
      BY <1>0, <1>6, <2>1, <3>1, <3>2 DEF Sorted
    <3>3. CASE j = Len(l) + 1
      BY <1>6, <3>1, <3>3
    <3> QED
      BY <1>0, <1>6, <3>2, <3>3
  <2> QED
    BY <2>1 DEF Sorted
<1>8. t = y
  BY <1>5, <1>7, LogIs, SortedUnique
<1> QED
  BY <1>3, <1>4, <1>8

(* An event can be written as it is. *)
LEMMA EventIsRecord ==
  ASSUME NEW e \in EventType PROVE e \in RecordType
  BY DEF EventType, RecordType

(* A single record. *)
LEMMA LoggedOne ==
  ASSUME NEW l, NEW n, GoodLog(l, n), NEW r \in EventType, GoodLog(ApplyRecord(l, r), n)
  PROVE  Logged(l, Append(<<>>, r), ApplyRecord(l, r), n)
  BY LoggedNothing, LoggedAppend, EventIsRecord

(* The records by which new takes the place of old, when one record at     *)
(* most is rewritten and what is added comes last.                         *)
Succeeds(old, new) ==
  /\ \A d, e \in Range(new) :
       (d.id \in Ids(old) /\ d \notin Range(old) /\ e.id \in Ids(old) /\ e \notin Range(old)) => d = e
  /\ \A e \in Range(new) : e.id \notin Ids(old) => \A d \in Range(new) : d.id <= e.id

(* The records that pop and push write turn the old log into the new one,  *)
(* and after each of them there is a log: a crash between two of them      *)
(* leaves one that can be replayed.                                        *)
LEMMA PopWrites ==
  ASSUME NEW old, NEW new, NEW n, GoodLog(old, n), GoodLog(new, n), Succeeds(old, new)
  PROVE  Logged(old, PopRecords(old, new), new, n)
<1>0. IsLog(old) /\ IsLog(new)
  BY DEF GoodLog
<1>1. /\ old \in Seq(EventType) /\ new \in Seq(EventType)
      /\ \A e \in Range(new) : e \in EventType /\ e.id \in Int
      /\ \A d, e \in Range(old) : d.id = e.id => d = e
      /\ \A d, e \in Range(new) : d.id = e.id => d = e
  BY <1>0, LogIs
<1>2. /\ \A i : i \in Ids(old) <=> \E e \in Range(old) : e.id = i
      /\ \A i : i \in Ids(new) <=> \E e \in Range(new) : e.id = i
  BY <1>1, IdsAre
<1>3. PICK gone : gone = Select(old, {e \in Range(old) : e.id \notin Ids(new)})
  OBVIOUS
<1>4. gone \in Seq(EventType) /\ Range(gone) = {e \in Range(old) : e.id \notin Ids(new)}
  BY <1>1, <1>3, SelectRange
<1>5. Erases(old, new) = Erasing(gone)
  BY <1>3 DEF Erases, Erasing
<1>6. PICK mid : mid = Select(old, {e \in Range(old) : e.id \notin Ids(gone)})
  OBVIOUS
<1>7. Logged(old, Erases(old, new), mid, n) /\ GoodLog(mid, n)
  BY <1>4, <1>5, <1>6, EraseWrites, LoggedIs
<1>8. \A e : e \in Range(mid) <=> e \in Range(old) /\ e.id \in Ids(new)
  <2>1. Range(mid) = {e \in Range(old) : e.id \notin Ids(gone)}
    BY <1>6, SelectGood
  <2>2. \A i : i \in Ids(gone) <=> \E e \in Range(gone) : e.id = i
    BY <1>4, IdsAre
  <2> QED
    BY <1>4, <2>1, <2>2
<1>9. PICK kept : kept = Select(new, {e \in Range(new) : e.id \in Ids(old)})
  OBVIOUS
<1>10. GoodLog(kept, n) /\ IsLog(kept) /\ Range(kept) = {e \in Range(new) : e.id \in Ids(old)}
  <2>1. GoodLog(kept, n)
    BY <1>9, SelectGood
  <2>2. Range(kept) = {e \in Range(new) : e.id \in Ids(old)}
    BY <1>1, <1>9, SelectRange
  <2> QED
    BY <2>1, <2>2 DEF GoodLog
<1>11. Logged(mid, Rewrites(old, new), kept, n)
  <2>1. PICK R : R = {e \in Range(new) : e.id \in Ids(old) /\ e \notin Range(old)}
    OBVIOUS
  <2>2. Rewrites(old, new) = Select(new, R) /\ Range(new) \cap R = R
    BY <2>1 DEF Rewrites
  <2>3. CASE R = {}
    <3>1. Rewrites(old, new) = <<>>
      BY <1>0, <2>2, <2>3, SelectNone
    <3>2. \A e \in Range(mid) : e \in Range(kept)
      BY <1>1, <1>2, <1>8, <1>10, <2>1, <2>3
    <3>3. \A e \in Range(kept) : e \in Range(mid)
      BY <1>2, <1>8, <1>10, <2>1, <2>3
    <3>4. mid = kept
      BY <1>7, <1>10, <3>2, <3>3, LogUnique DEF GoodLog
    <3> QED
      BY <1>10, <3>1, <3>4, LoggedNothing
  <2>4. ASSUME NEW r \in R PROVE Logged(mid, Rewrites(old, new), kept, n)
    <3>1. R = {r} /\ r \in Range(new) /\ r.id \in Ids(old) /\ r \notin Range(old) /\ r \in EventType
      BY <1>1, <2>1, <2>4 DEF Succeeds
    <3>2. Rewrites(old, new) = Append(<<>>, r)
      BY <1>0, <2>2, <3>1, SelectSingle
    <3>3. r.id \in Ids(mid)
      <4>1. PICK d \in Range(old) : d.id = r.id
        BY <1>2, <3>1
      <4>2. d \in Range(mid)
        BY <1>2, <1>8, <3>1, <4>1
      <4>3. mid \in Seq(EventType)
        BY <1>7, LogIs DEF GoodLog
      <4> QED
        BY <4>1, <4>2, <4>3, IdsAre
    <3>4. ASSUME NEW e PROVE e \in Range(kept) <=> (e \in Range(mid) /\ e.id # r.id) \/ e = r
      <4>1. ASSUME e \in Range(kept) PROVE (e \in Range(mid) /\ e.id # r.id) \/ e = r
        BY <1>1, <1>2, <1>8, <1>10, <2>1, <3>1, <4>1
      <4>2. ASSUME e \in Range(mid), e.id # r.id PROVE e \in Range(kept)
        <5>1. e \in Range(old) /\ e.id \in Ids(new)
          BY <1>8, <4>2
        <5>2. PICK d \in Range(new) : d.id = e.id
          BY <1>2, <5>1
        <5>3. d \notin R
          BY <3>1, <4>2, <5>2
        <5>4. d.id \in Ids(old)
          BY <1>2, <5>1, <5>2
        <5>5. d \in Range(old)
          BY <2>1, <5>3, <5>4
        <5> QED
          BY <1>1, <1>10, <5>1, <5>2, <5>4, <5>5
      <4>3. r \in Range(kept)
        BY <1>10, <3>1
      <4> QED
        BY <4>1, <4>2, <4>3
    <3>5. ApplyRecord(mid, r) = kept
      BY <1>7, <1>10, <3>1, <3>3, <3>4, RewriteApplied DEF GoodLog
    <3> QED
      BY <1>7, <1>10, <3>1, <3>2, <3>5, LoggedOne
  <2> QED
    BY <2>3, <2>4
<1>12. Logged(kept, Adds(old, new), new, n)
  <2>1. PICK D : D = {e \in Range(new) : e.id \notin Ids(old)}
    OBVIOUS
  <2>2. Adds(old, new) = Select(new, D) /\ Range(new) \cap D = D
    BY <2>1 DEF Adds
  <2>3. CASE D = {}
    <3>1. Adds(old, new) = <<>>
      BY <1>0, <2>2, <2>3, SelectNone
    <3>2. Range(kept) = Range(new)
      BY <1>10, <2>1, <2>3
    <3>3. kept = new
      BY <1>0, <1>10, <3>2, LogUnique
    <3> QED
      BY <1>10, <3>1, <3>3, LoggedNothing
  <2>4. ASSUME NEW a \in D PROVE Logged(kept, Adds(old, new), new, n)
    <3>1. a \in Range(new) /\ a.id \notin Ids(old) /\ a \in EventType /\ a.id \in Int
      BY <1>1, <2>1, <2>4
    <3>2. \A d \in Range(new) : d.id <= a.id
      BY <3>1 DEF Succeeds
    <3>3. ASSUME NEW d \in D PROVE d = a
      <4>1. d \in Range(new) /\ d.id <= a.id /\ a.id <= d.id
        BY <2>1, <3>1, <3>2, <3>3 DEF Succeeds
      <4>2. d.id = a.id
        BY <1>1, <3>1, <4>1
      <4> QED
        BY <1>1, <3>1, <4>1, <4>2
    <3>4. Adds(old, new) = Append(<<>>, a)
      <4>1. D = {a}
        BY <2>4, <3>3
      <4> QED
        BY <1>0, <2>2, <4>1, SelectSingle
    <3>5. \A d \in Range(kept) : d.id < a.id
      <4>1. ASSUME NEW d \in Range(kept) PROVE d.id < a.id
        <5>1. d \in Range(new) /\ d.id \in Ids(old) /\ d.id <= a.id /\ d.id \in Int
          BY <1>1, <1>10, <3>2
        <5>2. d.id # a.id
          BY <3>1, <5>1
        <5> QED
          BY <3>1, <5>1, <5>2
      <4> QED
        BY <4>1
    <3>6. Range(new) = Range(kept) \cup {a}
      <4>1. \A e \in Range(new) : e \in Range(kept) \/ e = a
        BY <1>10, <2>1, <3>3
      <4> QED
        BY <1>10, <3>1, <4>1
    <3>7. ApplyRecord(kept, a) = new
      BY <1>0, <1>10, <3>1, <3>5, <3>6, AddApplied
    <3> QED
      BY <1>10, <3>1, <3>4, <3>7, LoggedOne
  <2> QED
    BY <2>3, <2>4
<1>13. Logged(old, Erases(old, new) \o Rewrites(old, new), kept, n)
  BY <1>7, <1>11, LoggedConcat
<1>14. Logged(old, (Erases(old, new) \o Rewrites(old, new)) \o Adds(old, new), new, n)
  BY <1>12, <1>13, LoggedConcat
<1> QED
  BY <1>14 DEF PopRecords


(* What is left of a queue when events are popped: some of its events,     *)
(* and always the last one, as it was or as a marker.                      *)
IsLast(s, e) == e.id \in Ids(s) /\ \A d \in Range(s) : d.id <= e.id

Cut(s, r) ==
  /\ \A e \in Range(r) : e \in Range(s) \/ (e.data = NoData /\ IsLast(s, e))
  /\ Range(s) # {} => \E e \in Range(r) : IsLast(s, e)

(* What is left of a queue after pops can take its place in the log, with  *)
(* one rewritten record at most.                                           *)
LEMMA CutSucceeds ==
  ASSUME NEW s, NEW r, IsLog(s), IsLog(r), Cut(s, r)
  PROVE  /\ Succeeds(s, r)
         /\ \A e \in Range(r) : e.id \in Ids(s)
         /\ \A d, e \in Range(r) : d \notin Range(s) /\ e \notin Range(s) => d = e
<1>1. /\ s \in Seq(EventType) /\ r \in Seq(EventType)
      /\ \A e \in Range(s) : e.id \in Int
      /\ \A e \in Range(r) : e.id \in Int
      /\ \A d, e \in Range(r) : d.id = e.id => d = e
  BY LogIs
<1>2. \A i : i \in Ids(s) <=> \E e \in Range(s) : e.id = i
  BY <1>1, IdsAre
<1>3. \A e \in Range(r) : e.id \in Ids(s)
  BY <1>2 DEF Cut, IsLast
<1>4. ASSUME NEW d \in Range(r), NEW e \in Range(r), d \notin Range(s), e \notin Range(s)
      PROVE  d = e
  <2>1. IsLast(s, d) /\ IsLast(s, e)
    BY <1>4 DEF Cut
  <2>2. d.id <= e.id /\ e.id <= d.id
    BY <1>2, <2>1 DEF IsLast
  <2>3. d.id = e.id
    BY <1>1, <2>2
  <2> QED
    BY <1>1, <2>3
<1>5. Succeeds(s, r)
  <2>1. \A d, e \in Range(r) :
          (d.id \in Ids(s) /\ d \notin Range(s) /\ e.id \in Ids(s) /\ e \notin Range(s)) => d = e
    BY <1>4
  <2>2. \A e \in Range(r) : e.id \notin Ids(s) => \A d \in Range(r) : d.id <= e.id
    BY <1>3
  <2> QED
    BY <2>1, <2>2 DEF Succeeds
<1> QED
  BY <1>3, <1>4, <1>5

(* The same for the records of clear, which rewrites before it erases. *)
LEMMA ClearWrites ==
  ASSUME NEW old, NEW new, NEW n, GoodLog(old, n), GoodLog(new, n), Cut(old, new)
  PROVE  Logged(old, ClearRecords(old, new), new, n)
<1>0. IsLog(old) /\ IsLog(new)
  BY DEF GoodLog
<1>1. /\ old \in Seq(EventType) /\ new \in Seq(EventType)
      /\ \A e \in Range(new) : e \in EventType /\ e.id \in Int
      /\ \A e \in Range(old) : e \in EventType /\ e.id \in Int
      /\ \A d, e \in Range(old) : d.id = e.id => d = e
      /\ \A d, e \in Range(new) : d.id = e.id => d = e
  BY <1>0, LogIs
<1>2. /\ \A i : i \in Ids(old) <=> \E e \in Range(old) : e.id = i
      /\ \A i : i \in Ids(new) <=> \E e \in Range(new) : e.id = i
  BY <1>1, IdsAre
<1>3. PICK gone : gone = Select(old, {e \in Range(old) : e.id \notin Ids(new)})
  OBVIOUS
<1>4. gone \in Seq(EventType) /\ Range(gone) = {e \in Range(old) : e.id \notin Ids(new)}
  BY <1>1, <1>3, SelectRange
<1>5. Erases(old, new) = Erasing(gone)
  BY <1>3 DEF Erases, Erasing
<1>6. \A i : i \in Ids(gone) <=> \E e \in Range(gone) : e.id = i
  BY <1>4, IdsAre
<1>7. /\ \A e \in Range(new) : e.id \in Ids(old)
      /\ \A d, e \in Range(new) : d \notin Range(old) /\ e \notin Range(old) => d = e
  BY <1>0, CutSucceeds
<1>8. PICK R : R = {e \in Range(new) : e.id \in Ids(old) /\ e \notin Range(old)}
  OBVIOUS
<1>9. Rewrites(old, new) = Select(new, R) /\ Range(new) \cap R = R
  BY <1>8 DEF Rewrites
<1>10. ASSUME NEW half, GoodLog(half, n), Logged(old, Rewrites(old, new), half, n),
              \A e : e \in Range(new) <=> e \in Range(half) /\ e.id \notin Ids(gone)
       PROVE  Logged(old, ClearRecords(old, new), new, n)
  <2>1. PICK rest : rest = Select(half, {e \in Range(half) : e.id \notin Ids(gone)})
    OBVIOUS
  <2>2. Logged(half, Erases(old, new), rest, n)
    BY <1>4, <1>5, <1>10, <2>1, EraseWrites
  <2>3. GoodLog(rest, n)
    BY <2>2, LoggedIs
  <2>4. Range(rest) = {e \in Range(half) : e.id \notin Ids(gone)}
    BY <1>10, <2>1, SelectGood
  <2>5. Range(rest) = Range(new)
    BY <1>10, <2>4
  <2>6. rest = new
    BY <1>0, <2>3, <2>5, LogUnique DEF GoodLog
  <2> QED
    BY <1>10, <2>2, <2>6, LoggedConcat DEF ClearRecords
<1>11. CASE R = {}
  <2>1. Rewrites(old, new) = <<>>
    BY <1>0, <1>9, <1>11, SelectNone
  <2>2. Logged(old, Rewrites(old, new), old, n)
    BY <2>1, LoggedNothing
  <2>3. ASSUME NEW e PROVE e \in Range(new) <=> e \in Range(old) /\ e.id \notin Ids(gone)
    <3>1. ASSUME e \in Range(new) PROVE e \in Range(old) /\ e.id \notin Ids(gone)
      BY <1>2, <1>4, <1>6, <1>7, <1>8, <1>11, <3>1
    <3>2. ASSUME e \in Range(old), e.id \notin Ids(gone) PROVE e \in Range(new)
      <4>1. e.id \in Ids(new)
        BY <1>4, <1>6, <3>2
      <4>2. PICK d \in Range(new) : d.id = e.id
        BY <1>2, <4>1
      <4>3. d \in Range(old)
        BY <1>7, <1>8, <1>11
      <4> QED
        BY <1>1, <3>2, <4>2, <4>3
    <3> QED
      BY <3>1, <3>2
  <2> QED
    BY <1>10, <2>2, <2>3
<1>12. ASSUME NEW r \in R PROVE Logged(old, ClearRecords(old, new), new, n)
  <2>1. /\ R = {r} /\ r \in Range(new) /\ r.id \in Ids(old) /\ r \notin Range(old) /\ r \in EventType
        /\ r.data = NoData /\ IsLast(old, r)
    BY <1>1, <1>7, <1>8, <1>12 DEF Cut
  <2>2. Rewrites(old, new) = Append(<<>>, r)
    BY <1>0, <1>9, <2>1, SelectSingle
  <2>3. PICK ids : ids = {r.id}
    OBVIOUS
  <2>4. PICK half : half = Marked(old, ids)
    OBVIOUS
  <2>5. \A e \in Range(old) : e.id \in ids => \A d \in Range(old) : d.id <= e.id
    BY <2>1, <2>3 DEF IsLast
  <2>6. /\ IsLog(half)
        /\ \A e : e \in Range(half) <=>
              \/ e \in Range(old) /\ e.id \notin ids
              \/ \E d \in Range(old) : d.id \in ids /\ e = Event(d.id, NoData)
    BY <1>0, <2>4, <2>5, MarkedLog
  <2>7. r = Event(r.id, NoData)
    BY <2>1, EventIs
  <2>8. ASSUME NEW e PROVE e \in Range(half) <=> (e \in Range(old) /\ e.id # r.id) \/ e = r
    <3>1. ASSUME e \in Range(half) PROVE (e \in Range(old) /\ e.id # r.id) \/ e = r
      BY <2>3, <2>6, <2>7, <3>1
    <3>2. ASSUME e = r PROVE e \in Range(half)
      <4>1. PICK d \in Range(old) : d.id = r.id
        BY <1>2, <2>1
      <4> QED
        BY <2>3, <2>6, <2>7, <3>2, <4>1
    <3> QED
      BY <2>3, <2>6, <3>1, <3>2
  <2>9. GoodLog(half, n)
    <3>1. r.data <= n
      BY <2>1 DEF GoodLog
    <3> QED
      BY <2>6, <2>8, <3>1 DEF GoodLog
  <2>10. ApplyRecord(old, r) = half
    BY <1>0, <2>1, <2>6, <2>8, RewriteApplied
  <2>11. Logged(old, Rewrites(old, new), half, n)
    BY <2>1, <2>2, <2>9, <2>10, LoggedOne
  <2>12. ASSUME NEW e PROVE e \in Range(new) <=> e \in Range(half) /\ e.id \notin Ids(gone)
    <3>1. ASSUME e \in Range(new) PROVE e \in Range(half) /\ e.id \notin Ids(gone)
      <4>1. e.id \notin Ids(gone)
        BY <1>2, <1>4, <1>6, <3>1
      <4>2. CASE e \in Range(old)
        <5>1. e.id # r.id
          BY <1>1, <2>1, <3>1, <4>2
        <5> QED
          BY <2>8, <4>1, <4>2, <5>1
      <4>3. CASE e \notin Range(old)
        BY <1>7, <2>1, <2>8, <3>1, <4>1, <4>3
      <4> QED
        BY <4>2, <4>3
    <3>2. ASSUME e \in Range(half), e.id \notin Ids(gone), e # r PROVE e \in Range(new)
      <4>1. e \in Range(old) /\ e.id # r.id
        BY <2>8, <3>2
      <4>2. e.id \in Ids(new)
        BY <1>4, <1>6, <3>2, <4>1
      <4>3. PICK d \in Range(new) : d.id = e.id
        BY <1>2, <4>2
      <4>4. d \in Range(old)
        BY <1>7, <2>1, <4>1, <4>3
      <4> QED
        BY <1>1, <4>1, <4>3, <4>4
    <3> QED
      BY <2>1, <3>1, <3>2
  <2> QED
    BY <1>10, <2>9, <2>11, <2>12
<1> QED
  BY <1>11, <1>12

(* The same for any number of pops in one call. *)
LEMMA CutWrites ==
  ASSUME NEW old, NEW new, NEW n, GoodLog(old, n), GoodLog(new, n), Cut(old, new)
  PROVE  Logged(old, PopRecords(old, new), new, n)
  BY CutSucceeds, PopWrites DEF GoodLog


-------------------------------------------------------------------------------
(* A queue, with the updates up to n: tail_id is just above the last       *)
(* event, and the garbage collection is on when there is an update.        *)
Ends(events, tail) ==
  IF events = <<>> THEN tail = 0 ELSE \E e \in Range(events) : tail = e.id + 1 /\ IsLast(events, e)

IsQueue(q, n) ==
  /\ q = [tail |-> q.tail, events |-> q.events, gc |-> q.gc]
  /\ GoodLog(q.events, n) /\ Ends(q.events, q.tail)
  /\ q.gc \in 0..n
  /\ Data(q.events) # {} => q.gc # NoData

(* Only the empty sequence has no elements. *)
LEMMA EmptyRange ==
  ASSUME NEW S, NEW s \in Seq(S)
  PROVE  s = <<>> <=> Range(s) = {}
<1>1. ASSUME s = <<>> PROVE Range(s) = {}
  BY <1>1, NothingInRange
<1>2. ASSUME Range(s) = {} PROVE s = <<>>
  <2>1. \A i \in 1..Len(s) : FALSE
    BY <1>2, RangeIs
  <2>2. Len(s) \in Nat
    BY LenProperties
  <2>3. Len(s) = 0
    BY <2>1, <2>2
  <2> QED
    BY <2>3, EmptySeq
<1> QED
  BY <1>1, <1>2

(* tail_id is above all events, and 0 just when there is none. *)
LEMMA EndsIs ==
  ASSUME NEW s, IsLog(s), NEW tail, Ends(s, tail)
  PROVE  /\ tail \in 0..(MaxId - 1)
         /\ \A e \in Range(s) : e.id \in 1..(MaxId - 2) /\ e.id + 1 <= tail /\ e.id < tail
         /\ tail = 0 <=> Range(s) = {}
         /\ tail = 0 <=> s = <<>>
<1>0. s \in Seq(EventType) /\ \A e \in Range(s) : e \in EventType
  BY LogIs
<1>1. \A e \in Range(s) : e.id \in 1..(MaxId - 2)
  BY <1>0, EventIs
<1>2. s = <<>> <=> Range(s) = {}
  BY <1>0, EmptyRange
<1>3. MaxId \in Nat
  BY IdAssumption
<1>4. CASE s = <<>>
  <2>1. tail = 0 /\ Range(s) = {}
    BY <1>2, <1>4 DEF Ends
  <2>2. MaxId - 1 >= 0
    <3>1. PICK f \in FreshIds : f \in 1..(MaxId - 2)
      BY IdAssumption
    <3> QED
      BY <1>3, <3>1
  <2> QED
    BY <1>3, <1>4, <2>1, <2>2
<1>5. CASE s # <<>>
  <2>1. PICK e \in Range(s) : tail = e.id + 1 /\ IsLast(s, e)
    BY <1>5 DEF Ends
  <2>2. \A d \in Range(s) : d.id <= e.id
    BY <2>1 DEF IsLast
  <2>3. tail \in 0..(MaxId - 1) /\ tail # 0 /\ tail \in Int
    BY <1>1, <1>3, <2>1
  <2>4. \A d \in Range(s) : d.id + 1 <= tail /\ d.id < tail
    BY <1>1, <2>1, <2>2
  <2> QED
    BY <1>1, <1>2, <1>5, <2>3, <2>4
<1> QED
  BY <1>4, <1>5

(* What it means to be a queue. *)
LEMMA QueueIs ==
  ASSUME NEW q, NEW n, IsQueue(q, n)
  PROVE  /\ IsLog(q.events) /\ q.events \in Seq(EventType) /\ Len(q.events) \in Nat
         /\ q.tail \in 0..(MaxId - 1)
         /\ \A e \in Range(q.events) : /\ e \in EventType /\ e.id \in 1..(MaxId - 2) /\ e.data \in Nat
                                       /\ e.id + 1 <= q.tail /\ e.id < q.tail /\ e.data <= n
         /\ q.tail = 0 <=> Range(q.events) = {}
         /\ q.tail = 0 <=> q.events = <<>>
<1>1. IsLog(q.events) /\ Ends(q.events, q.tail) /\ \A e \in Range(q.events) : e.data <= n
  BY DEF IsQueue, GoodLog
<1>2. /\ q.tail \in 0..(MaxId - 1)
      /\ \A e \in Range(q.events) : e.id \in 1..(MaxId - 2) /\ e.id + 1 <= q.tail /\ e.id < q.tail
      /\ q.tail = 0 <=> Range(q.events) = {}
      /\ q.tail = 0 <=> q.events = <<>>
  BY <1>1, EndsIs
<1>3. q.events \in Seq(EventType) /\ Len(q.events) \in Nat
      /\ \A e \in Range(q.events) : e \in EventType /\ e.data \in Nat
  BY <1>1, LogIs
<1> QED
  BY <1>1, <1>2, <1>3

(* A queue from which nothing is popped. *)
LEMMA CutSame ==
  ASSUME NEW s, NEW tail, IsLog(s), Ends(s, tail)
  PROVE  Cut(s, s)
<1>1. s = <<>> <=> Range(s) = {}
  BY LogIs, EmptyRange
<1> QED
  BY <1>1 DEF Cut, Ends

(* Pops after pops. *)
LEMMA CutCut ==
  ASSUME NEW s, NEW t, NEW r, IsLog(s), IsLog(t), IsLog(r), Cut(s, t), Cut(t, r)
  PROVE  Cut(s, r)
<1>1. /\ s \in Seq(EventType) /\ t \in Seq(EventType) /\ r \in Seq(EventType)
      /\ \A e \in Range(s) : e.id \in Int
      /\ \A e \in Range(t) : e.id \in Int
      /\ \A e \in Range(r) : e.id \in Int
  BY LogIs
<1>2. /\ \A i : i \in Ids(s) <=> \E e \in Range(s) : e.id = i
      /\ \A i : i \in Ids(t) <=> \E e \in Range(t) : e.id = i
  BY <1>1, IdsAre
<1>3. \A e \in Range(t) : e.id \in Ids(s)
  BY CutSucceeds
<1>4. ASSUME NEW e \in Range(r), IsLast(t, e) PROVE IsLast(s, e)
  <2>1. e.id \in Ids(s)
    BY <1>2, <1>3, <1>4 DEF IsLast
  <2>2. ASSUME NEW d \in Range(s) PROVE d.id <= e.id
    <3>1. PICK c \in Range(t) : IsLast(s, c)
      BY <2>2 DEF Cut
    <3>2. d.id <= c.id /\ c.id <= e.id
      BY <1>4, <3>1 DEF IsLast
    <3> QED
      BY <1>1, <3>2
  <2> QED
    BY <2>1, <2>2 DEF IsLast
<1>5. \A e \in Range(r) : e \in Range(s) \/ (e.data = NoData /\ IsLast(s, e))
  BY <1>4 DEF Cut
<1>6. ASSUME Range(s) # {} PROVE \E e \in Range(r) : IsLast(s, e)
  <2>1. Range(t) # {}
    BY <1>6 DEF Cut
  <2>2. PICK e \in Range(r) : IsLast(t, e)
    BY <2>1 DEF Cut
  <2> QED
    BY <1>4, <2>2
<1> QED
  BY <1>5, <1>6 DEF Cut

(* A queue of which something is left is a queue. *)
LEMMA CutQueue ==
  ASSUME NEW q, NEW n \in Nat, IsQueue(q, n), NEW s, IsLog(s), Cut(q.events, s),
         NEW r, r = [tail |-> q.tail, events |-> s, gc |-> q.gc]
  PROVE  IsQueue(r, n)
<1>0. r.tail = q.tail /\ r.events = s /\ r.gc = q.gc
  OBVIOUS
<1>1. IsLog(q.events) /\ q.gc \in 0..n /\ Ends(q.events, q.tail) /\ \A e \in Range(q.events) : e.data <= n
  BY DEF IsQueue, GoodLog
<1>2. /\ q.events \in Seq(EventType) /\ s \in Seq(EventType)
      /\ \A e \in Range(q.events) : e.id \in Int
      /\ \A e \in Range(s) : e.id \in Int
  BY <1>1, LogIs
<1>3. /\ \A i : i \in Ids(q.events) <=> \E e \in Range(q.events) : e.id = i
      /\ \A i : i \in Ids(s) <=> \E e \in Range(s) : e.id = i
      /\ \A u : u \in Data(q.events) <=> u # NoData /\ \E e \in Range(q.events) : e.data = u
      /\ \A u : u \in Data(s) <=> u # NoData /\ \E e \in Range(s) : e.data = u
  BY <1>2, IdsAre
<1>4. (q.events = <<>> <=> Range(q.events) = {}) /\ (s = <<>> <=> Range(s) = {})
  BY <1>2, EmptyRange
<1>5. \A e \in Range(s) : e.id \in Ids(q.events)
  BY <1>1, CutSucceeds
<1>6. GoodLog(s, n)
  <2>1. NoData <= n
    BY <1>1 DEF NoData
  <2> QED
    BY <1>1, <2>1 DEF GoodLog, Cut
<1>7. Ends(s, q.tail)
  <2>1. CASE q.events = <<>>
    <3>1. Range(s) = {}
      BY <1>3, <1>4, <1>5, <2>1
    <3> QED
      BY <1>1, <1>4, <2>1, <3>1 DEF Ends
  <2>2. CASE q.events # <<>>
    <3>1. PICK e \in Range(q.events) : q.tail = e.id + 1 /\ IsLast(q.events, e)
      BY <1>1, <2>2 DEF Ends
    <3>2. PICK d \in Range(s) : IsLast(q.events, d)
      BY <1>4, <2>2 DEF Cut
    <3>3. d.id <= e.id /\ e.id <= d.id
      BY <1>3, <3>1, <3>2 DEF IsLast
    <3>4. d.id = e.id
      BY <1>2, <3>3
    <3>5. IsLast(s, d)
      <4>1. d.id \in Ids(s)
        BY <1>3
      <4>2. ASSUME NEW c \in Range(s) PROVE c.id <= d.id
        BY <1>3, <1>5, <3>2 DEF IsLast
      <4> QED
        BY <4>1, <4>2 DEF IsLast
    <3> QED
      BY <1>4, <3>1, <3>4, <3>5 DEF Ends
  <2> QED
    BY <2>1, <2>2
<1>8. Data(s) # {} => q.gc # NoData
  <2>1. \A u \in Data(s) : u \in Data(q.events)
    BY <1>3 DEF Cut
  <2> QED
    BY <2>1 DEF IsQueue
<1> QED
  BY <1>0, <1>1, <1>6, <1>7, <1>8 DEF IsQueue


(* pop, and what a call has popped: the events of ids. *)
Popping(s, r, ids) ==
  /\ \A e \in Range(s) : e.id \notin ids => e \in Range(r)
  /\ \A e \in Range(r) : \/ e \in Range(s) /\ e.id \notin ids
                         \/ e.data = NoData /\ e.id \in ids /\ e.id \in Ids(s)

(* pop leaves a queue with the same tail_id, from which ids are gone. *)
LEMMA PopIs ==
  ASSUME NEW q, NEW n \in Nat, IsQueue(q, n), NEW ids
  PROVE  /\ IsQueue(pop(q, ids), n)
         /\ pop(q, ids) = [tail |-> q.tail, events |-> pop(q, ids).events, gc |-> q.gc]
         /\ Cut(q.events, pop(q, ids).events) /\ Popping(q.events, pop(q, ids).events, ids)
<1>1. PICK s : s = KeepMarker(q.events, ids, q.tail)
  OBVIOUS
<1>2. q = [tail |-> q.tail, events |-> q.events, gc |-> q.gc] /\ Ends(q.events, q.tail)
  BY DEF IsQueue
<1>3. PICK r : r = pop(q, ids)
  OBVIOUS
<1>4. r = [q EXCEPT !.events = s]
  BY <1>1, <1>3 DEF pop
<1>5. r = [tail |-> q.tail, events |-> s, gc |-> q.gc]
  BY <1>2, <1>4
<1>6. /\ IsLog(q.events) /\ q.events \in Seq(EventType) /\ q.tail \in Int
      /\ \A e \in Range(q.events) : e.id + 1 <= q.tail /\ e.id \in Int
  BY QueueIs
<1>7. /\ IsLog(s)
      /\ \A e : e \in Range(s) <=>
              \/ e \in Range(q.events) /\ e.id \notin ids
              \/ \E d \in Range(q.events) : d.id \in ids /\ d.id + 1 = q.tail /\ e = Event(d.id, NoData)
  BY <1>1, <1>6, KeepMarkerLog
<1>8. \A i : i \in Ids(q.events) <=> \E e \in Range(q.events) : e.id = i
  BY <1>6, IdsAre
<1>9. ASSUME NEW d \in Range(q.events), d.id \in ids, d.id + 1 = q.tail, NEW e, e = Event(d.id, NoData)
      PROVE  e.data = NoData /\ IsLast(q.events, e) /\ e.id = d.id
  <2>1. e.data = NoData /\ e.id = d.id
    BY <1>9, EventIs
  <2>2. \A c \in Range(q.events) : c.id <= d.id
    BY <1>6, <1>9
  <2> QED
    BY <1>8, <2>1, <2>2 DEF IsLast
<1>10. Popping(q.events, s, ids)
  <2>1. \A e \in Range(q.events) : e.id \notin ids => e \in Range(s)
    BY <1>7
  <2>2. ASSUME NEW e \in Range(s)
        PROVE  \/ e \in Range(q.events) /\ e.id \notin ids
               \/ e.data = NoData /\ e.id \in ids /\ e.id \in Ids(q.events)
    <3>1. CASE e \in Range(q.events) /\ e.id \notin ids
      BY <3>1
    <3>2. ASSUME NEW d \in Range(q.events), d.id \in ids, d.id + 1 = q.tail, e = Event(d.id, NoData)
          PROVE  e.data = NoData /\ e.id \in ids /\ e.id \in Ids(q.events)
      BY <1>8, <1>9, <3>2
    <3> QED
      BY <1>7, <3>1, <3>2
  <2> QED
    BY <2>1, <2>2 DEF Popping
<1>11. Cut(q.events, s)
  <2>1. ASSUME NEW e \in Range(s)
        PROVE  e \in Range(q.events) \/ (e.data = NoData /\ IsLast(q.events, e))
    <3>1. CASE e \in Range(q.events) /\ e.id \notin ids
      BY <3>1
    <3>2. ASSUME NEW d \in Range(q.events), d.id \in ids, d.id + 1 = q.tail, e = Event(d.id, NoData)
          PROVE  e.data = NoData /\ IsLast(q.events, e)
      BY <1>9, <3>2
    <3> QED
      BY <1>7, <3>1, <3>2
  <2>2. ASSUME Range(q.events) # {} PROVE \E e \in Range(s) : IsLast(q.events, e)
    <3>1. q.events # <<>>
      BY <1>6, <2>2, EmptyRange
    <3>2. PICK e \in Range(q.events) : q.tail = e.id + 1 /\ IsLast(q.events, e)
      BY <1>2, <3>1 DEF Ends
    <3>3. CASE e.id \notin ids
      BY <1>7, <3>2, <3>3
    <3>4. CASE e.id \in ids
      <4>1. PICK d : d = Event(e.id, NoData)
        OBVIOUS
      <4>2. d \in Range(s)
        BY <1>7, <3>2, <3>4, <4>1
      <4>3. IsLast(q.events, d)
        BY <1>9, <3>2, <3>4, <4>1
      <4> QED
        BY <4>2, <4>3
    <3> QED
      BY <3>3, <3>4
  <2> QED
    BY <2>1, <2>2 DEF Cut
<1>12. IsQueue(r, n)
  BY <1>5, <1>7, <1>11, CutQueue
<1>13. r.events = s
  BY <1>5
<1> QED
  BY <1>3, <1>5, <1>10, <1>11, <1>12, <1>13

(* What two calls have popped. *)
LEMMA PoppingTwice ==
  ASSUME NEW s, NEW t, NEW r, IsLog(s), IsLog(t), IsLog(r), NEW a, NEW b,
         Popping(s, t, a), Popping(t, r, b)
  PROVE  Popping(s, r, a \cup b)
<1>1. s \in Seq(EventType) /\ t \in Seq(EventType)
  BY LogIs
<1>2. /\ \A i : i \in Ids(s) <=> \E e \in Range(s) : e.id = i
      /\ \A i : i \in Ids(t) <=> \E e \in Range(t) : e.id = i
  BY <1>1, IdsAre
<1>3. \A e \in Range(s) : e.id \notin a \cup b => e \in Range(r)
  BY DEF Popping
<1>4. \A e \in Range(t) : e.id \in Ids(s)
  BY <1>2 DEF Popping
<1>5. ASSUME NEW e \in Range(r)
      PROVE  \/ e \in Range(s) /\ e.id \notin a \cup b
             \/ e.data = NoData /\ e.id \in a \cup b /\ e.id \in Ids(s)
  <2>1. CASE e \in Range(t) /\ e.id \notin b
    BY <2>1 DEF Popping
  <2>2. CASE e.data = NoData /\ e.id \in b /\ e.id \in Ids(t)
    BY <1>2, <1>4, <2>2
  <2> QED
    BY <2>1, <2>2 DEF Popping
<1> QED
  BY <1>3, <1>5 DEF Popping

(* What popping does to the updates. *)
LEMMA PoppingData ==
  ASSUME NEW s, NEW r, IsLog(s), IsLog(r), NEW ids, Popping(s, r, ids)
  PROVE  /\ Data(r) \subseteq Data(s)
         /\ \A u \in Data(s) \ Data(r) : \E e \in Range(s) : e.data = u /\ u # NoData /\ e.id \in ids
<1>1. s \in Seq(EventType) /\ r \in Seq(EventType)
  BY LogIs
<1>2. /\ \A u : u \in Data(s) <=> u # NoData /\ \E e \in Range(s) : e.data = u
      /\ \A u : u \in Data(r) <=> u # NoData /\ \E e \in Range(r) : e.data = u
  BY <1>1, IdsAre
<1>3. \A u \in Data(r) : u \in Data(s)
  BY <1>2 DEF Popping
<1>4. ASSUME NEW u \in Data(s), u \notin Data(r)
      PROVE  \E e \in Range(s) : e.data = u /\ u # NoData /\ e.id \in ids
  BY <1>2, <1>4 DEF Popping
<1> QED
  BY <1>3, <1>4


(* The elements from one position to another. *)
LEMMA SubSeqIs ==
  ASSUME NEW S, NEW s \in Seq(S), NEW i \in 1..(Len(s) + 1), NEW j \in (i - 1)..Len(s)
  PROVE  /\ SubSeq(s, i, j) \in Seq(S) /\ Len(SubSeq(s, i, j)) = j - i + 1
         /\ \A k \in 1..(j - i + 1) : SubSeq(s, i, j)[k] = s[i + k - 1] /\ i + k - 1 \in i..j
         /\ \A e : e \in Range(SubSeq(s, i, j)) <=> \E k \in i..j : e = s[k]
<1>1. Len(s) \in Nat /\ i \in Int /\ j \in Int
  BY LenProperties
<1>2. \A k \in i..j : k \in 1..Len(s)
  BY <1>1
<1>3. \A k \in i..j : s[k] \in S
  BY <1>2, ElementOfSeq
<1>4. PICK t : t = SubSeq(s, i, j)
  OBVIOUS
<1>5. /\ t \in Seq(S) /\ Len(t) = IF i <= j THEN j - i + 1 ELSE 0
      /\ \A k \in 1..(j - i + 1) : t[k] = s[i + k - 1]
  BY <1>1, <1>3, <1>4, SubSeqProperties
<1>6. Len(t) = j - i + 1
  BY <1>1, <1>5
<1>7. \A k \in 1..(j - i + 1) : i + k - 1 \in i..j
  BY <1>1
<1>8. ASSUME NEW e \in Range(t) PROVE \E k \in i..j : e = s[k]
  <2>1. PICK k \in 1..(j - i + 1) : e = t[k]
    BY <1>5, <1>6, RangeIs
  <2> QED
    BY <1>5, <1>7, <2>1
<1>9. ASSUME NEW k \in i..j PROVE s[k] \in Range(t)
  <2>1. k - i + 1 \in 1..(j - i + 1) /\ i + (k - i + 1) - 1 = k
    BY <1>1
  <2>2. t[k - i + 1] = s[k]
    BY <1>5, <2>1
  <2>3. k - i + 1 \in 1..Len(t)
    BY <1>6, <2>1
  <2> QED
    BY <1>5, <2>2, <2>3, RangeIs
<1> QED
  BY <1>4, <1>5, <1>6, <1>7, <1>8, <1>9

(* A part of a log is a log. *)
LEMMA SubSeqLog ==
  ASSUME NEW s, IsLog(s), NEW i \in 1..(Len(s) + 1), NEW j \in (i - 1)..Len(s)
  PROVE  IsLog(SubSeq(s, i, j))
<1>0. s \in Seq(EventType) /\ Len(s) <= MaxQueueEvents /\ Sorted(s) /\ Solid(s) /\ Ordered(s)
      /\ Len(s) \in Nat
  BY LenProperties DEF IsLog
<1>1. PICK t : t = SubSeq(s, i, j)
  OBVIOUS
<1>2. /\ t \in Seq(EventType) /\ Len(t) = j - i + 1
      /\ \A k \in 1..(j - i + 1) : t[k] = s[i + k - 1] /\ i + k - 1 \in i..j
  BY <1>0, <1>1, SubSeqIs
<1>3. \A k \in 1..Len(t) : t[k] = s[i + k - 1] /\ i + k - 1 \in 1..Len(s)
  BY <1>0, <1>2
<1>4. \A k, m \in 1..Len(t) : k < m => i + k - 1 < i + m - 1
  BY <1>0, <1>2
<1>5. Len(t) <= MaxQueueEvents
  BY <1>0, <1>2, IdAssumption
<1>6. Sorted(t) /\ Solid(t) /\ Ordered(t)
  BY <1>0, <1>3, <1>4 DEF Sorted, Solid, Ordered
<1> QED
  BY <1>1, <1>2, <1>5, <1>6 DEF IsLog

(* The place of an event in a log follows its identifier. *)
LEMMA Places ==
  ASSUME NEW s, IsLog(s), NEW i \in 1..Len(s), NEW j \in 1..Len(s), s[i].id <= s[j].id
  PROVE  i <= j
<1>1. /\ s \in Seq(EventType) /\ Sorted(s) /\ Len(s) \in Nat
      /\ \A e \in Range(s) : e.id \in Int
  BY LogIs
<1>2. s[i].id \in Int /\ s[j].id \in Int
  BY <1>1, RangeIs
<1>3. CASE j < i
  BY <1>1, <1>2, <1>3 DEF Sorted
<1> QED
  BY <1>1, <1>3

(* The events that get looks at, by their elements. *)
LEMMA LiveIs ==
  ASSUME NEW s, IsLog(s), NEW from, NEW expired
  PROVE  /\ IsLog(Live(s, from, expired))
         /\ \A e : e \in Range(Live(s, from, expired)) <=>
              e \in Range(s) /\ e.id >= from /\ e.data # NoData /\ e.data \notin expired
<1>1. PICK A : A = {e \in Range(s) : e.id >= from /\ ~IsMarker(e) /\ e.data \notin expired}
  OBVIOUS
<1>2. Live(s, from, expired) = Select(s, A)
  BY <1>1 DEF Live
<1>3. IsLog(Select(s, A)) /\ Range(Select(s, A)) = Range(s) \cap A
  BY SelectLog, SelectRange, LogIs
<1> QED
  BY <1>1, <1>2, <1>3 DEF IsMarker

(* get: what it pops has expired or was forgotten, and what it returns is  *)
(* what the queue holds from from on, up to the last event returned.       *)
Reads(q, g, from, expired) ==
  /\ IsLog(g.events)
  /\ \A e \in Range(g.events) : /\ e \in Range(q.events) /\ e \in Range(g.queue.events)
                                /\ e.id >= from /\ e.data # NoData /\ e.data \notin expired
  /\ \A k \in 1..Len(g.events) : \A e \in Range(g.queue.events) :
       (e.data # NoData /\ e.id >= from /\ e.id <= g.events[k].id) => \E i \in 1..k : e = g.events[i]

PopsFor(q, r, from, forget_previous, expired) ==
  \E ids :
    /\ Popping(q.events, r.events, ids)
    /\ \A e \in Range(q.events) :
         (e.id \in ids /\ e.data # NoData) =>
           (forget_previous /\ e.id < from) \/ (e.id >= from /\ e.data \in expired)
    /\ forget_previous => \A e \in Range(q.events) : e.id < from => e.id \in ids

(* do_get leaves a queue, pops what it may, and returns what is there. *)
LEMMA GetIs ==
  ASSUME NEW q, NEW n \in Nat, IsQueue(q, n), NEW from \in Int, NEW forget_previous \in BOOLEAN,
         NEW expired, NEW limit \in Nat,
         NEW g, g = do_get(q, from, forget_previous, expired, limit)
  PROVE  /\ IsQueue(g.queue, n) /\ g.queue.tail = q.tail /\ g.queue.gc = q.gc
         /\ Cut(q.events, g.queue.events)
         /\ PopsFor(q, g.queue, from, forget_previous, expired)
         /\ Reads(q, g, from, expired)
<1>0. IsLog(q.events) /\ q.events \in Seq(EventType) /\ Ends(q.events, q.tail)
  BY QueueIs DEF IsQueue
<1>1. PICK before : before = IF forget_previous THEN {id \in Ids(q.events) : id < from} ELSE {}
  OBVIOUS
<1>2. PICK q1 : q1 = IF forget_previous THEN pop(q, {id \in Ids(q.events) : id < from}) ELSE q
  OBVIOUS
<1>3. IsQueue(q1, n) /\ q1.tail = q.tail /\ q1.gc = q.gc /\ Cut(q.events, q1.events) /\ Popping(q.events, q1.events, before)
  <2>1. CASE forget_previous
    BY <1>1, <1>2, <2>1, PopIs
  <2>2. CASE ~forget_previous
    <3>1. Popping(q.events, q.events, {})
      BY DEF Popping
    <3>2. Cut(q.events, q.events)
      BY <1>0, CutSame
    <3> QED
      BY <1>1, <1>2, <2>2, <3>1, <3>2
  <2> QED
    BY <2>1, <2>2
<1>4. IsLog(q1.events) /\ q1.events \in Seq(EventType)
      /\ \A e \in Range(q1.events) : e.id \in 1..(MaxId - 2)
  BY <1>3, QueueIs
<1>5. PICK live : live = Live(q1.events, from, expired)
  OBVIOUS
<1>6. /\ IsLog(live)
      /\ \A e : e \in Range(live) <=>
           e \in Range(q1.events) /\ e.id >= from /\ e.data # NoData /\ e.data \notin expired
  BY <1>4, <1>5, LiveIs
<1>7. live \in Seq(EventType) /\ Len(live) \in Nat /\ \A k \in 1..Len(live) : live[k] \in Range(live)
  BY <1>6, LogIs, RangeIs
<1>8. PICK fits : fits = IF Len(live) > limit THEN SubSeq(live, 1, limit) ELSE live
  OBVIOUS
<1>9. PICK below : below = IF Len(live) > limit THEN live[limit + 1].id ELSE MaxId
  OBVIOUS
<1>10. PICK stale : stale = {id \in Ids(q1.events) : id >= from /\ id < below} \ Ids(live)
  OBVIOUS
<1>11. g = [queue |-> pop(q1, stale), events |-> fits]
  BY <1>2, <1>5, <1>8, <1>9, <1>10 DEF do_get
<1>12. PICK r : r = pop(q1, stale)
  OBVIOUS
<1>13. g.queue = r /\ g.events = fits
  BY <1>11, <1>12
<1>14. IsQueue(r, n) /\ r.tail = q1.tail /\ r.gc = q1.gc /\ Cut(q1.events, r.events) /\ Popping(q1.events, r.events, stale)
  BY <1>3, <1>12, PopIs
<1>15. IsLog(r.events)
  BY <1>14, QueueIs
<1>16. Cut(q.events, r.events)
  BY <1>0, <1>3, <1>4, <1>14, <1>15, CutCut
<1>17. Popping(q.events, r.events, before \cup stale)
  BY <1>0, <1>3, <1>4, <1>14, <1>15, PoppingTwice
<1>18. /\ \A i : i \in Ids(q.events) <=> \E e \in Range(q.events) : e.id = i
       /\ \A i : i \in Ids(q1.events) <=> \E e \in Range(q1.events) : e.id = i
       /\ \A i : i \in Ids(live) <=> \E e \in Range(live) : e.id = i
  BY <1>0, <1>4, <1>7, IdsAre
<1>19. /\ \A d, e \in Range(q.events) : d.id = e.id => d = e
       /\ \A d, e \in Range(q1.events) : d.id = e.id => d = e
       /\ \A e \in Range(q.events) : e.id \in Int
       /\ \A e \in Range(q1.events) : e.id \in Int
  BY <1>0, <1>4, LogIs
<1>20. PopsFor(q, r, from, forget_previous, expired)
  <2>1. ASSUME NEW e \in Range(q.events), e.id \in before \cup stale, e.data # NoData
        PROVE  (forget_previous /\ e.id < from) \/ (e.id >= from /\ e.data \in expired)
    <3>1. CASE e.id \in before
      BY <1>1, <3>1
    <3>2. CASE e.id \in stale /\ e.id \notin before
      <4>1. e \in Range(q1.events)
        BY <1>3, <3>2 DEF Popping
      <4>2. e.id >= from /\ e \notin Range(live)
        BY <1>10, <1>18, <3>2
      <4> QED
        BY <1>6, <2>1, <4>1, <4>2
    <3> QED
      BY <2>1, <3>1, <3>2
  <2>2. forget_previous => \A e \in Range(q.events) : e.id < from => e.id \in before \cup stale
    BY <1>1, <1>18
  <2>3. PICK ids : ids = before \cup stale
    OBVIOUS
  <2> QED
    BY <1>17, <2>1, <2>2, <2>3 DEF PopsFor
<1>21. /\ IsLog(fits) /\ Len(fits) \in Nat /\ Len(fits) <= Len(live)
       /\ \A k \in 1..Len(fits) : k \in 1..Len(live) /\ fits[k] = live[k] /\ live[k].id < below
  <2>1. CASE Len(live) > limit
    <3>0. limit + 1 \in 1..Len(live) /\ below = live[limit + 1].id
      BY <1>7, <1>9, <2>1
    <3>1. 1 \in 1..(Len(live) + 1) /\ limit \in (1 - 1)..Len(live)
      BY <1>7, <2>1
    <3>2. IsLog(fits)
      BY <1>6, <1>8, <2>1, <3>1, SubSeqLog
    <3>3. Len(fits) = limit - 1 + 1 /\ \A k \in 1..(limit - 1 + 1) : fits[k] = live[1 + k - 1]
      BY <1>7, <1>8, <2>1, <3>1, SubSeqIs
    <3>4. Len(fits) = limit /\ \A k \in 1..limit : fits[k] = live[k] /\ k \in 1..Len(live) /\ k < limit + 1
      BY <1>7, <2>1, <3>3
    <3>5. \A k \in 1..limit : live[k].id < live[limit + 1].id
      BY <1>6, <3>0, <3>4 DEF IsLog, Sorted
    <3> QED
      BY <1>7, <2>1, <3>0, <3>2, <3>4, <3>5
  <2>2. CASE ~(Len(live) > limit)
    <3>1. fits = live /\ below = MaxId
      BY <1>8, <1>9, <2>2
    <3>2. \A k \in 1..Len(live) : live[k].id < MaxId
      <4>1. \A k \in 1..Len(live) : live[k].id \in 1..(MaxId - 2)
        BY <1>4, <1>6, <1>7
      <4> QED
        BY <4>1, IdAssumption
    <3> QED
      BY <1>6, <1>7, <3>1, <3>2
  <2> QED
    BY <2>1, <2>2
<1>22. ASSUME NEW e \in Range(fits)
       PROVE  /\ e \in Range(q.events) /\ e \in Range(r.events)
              /\ e.id >= from /\ e.data # NoData /\ e.data \notin expired
  <2>1. e \in Range(live)
    <3>1. PICK k \in 1..Len(fits) : e = fits[k]
      BY <1>21, LogIs, RangeIs
    <3> QED
      BY <1>7, <1>21, <3>1
  <2>2. e \in Range(q1.events) /\ e.id >= from /\ e.data # NoData /\ e.data \notin expired
    BY <1>6, <2>1
  <2>3. e \in Range(q.events)
    BY <1>3, <2>2 DEF Popping
  <2>4. e.id \notin stale
    BY <1>10, <1>18, <2>1
  <2>5. e \in Range(r.events)
    BY <1>14, <2>2, <2>4 DEF Popping
  <2> QED
    BY <2>2, <2>3, <2>5
<1>23. ASSUME NEW k \in 1..Len(fits), NEW e \in Range(r.events), e.data # NoData, e.id >= from,
              e.id <= fits[k].id
       PROVE  \E i \in 1..k : e = fits[i]
  <2>1. e \in Range(q1.events) /\ e.id \notin stale
    BY <1>14, <1>23 DEF Popping
  <2>2. k \in 1..Len(live) /\ fits[k] = live[k] /\ live[k].id < below
    BY <1>21
  <2>3. below \in Int /\ live[k].id \in Int /\ e.id \in Int
    <3>1. \A d \in Range(live) : d.id \in Int
      BY <1>6, LogIs
    <3>2. CASE Len(live) > limit
      <4>1. limit + 1 \in 1..Len(live)
        BY <1>7, <3>2
      <4> QED
        BY <1>7, <1>9, <1>19, <2>1, <2>2, <3>1, <3>2, <4>1
    <3>3. CASE ~(Len(live) > limit)
      BY <1>7, <1>9, <1>19, <2>1, <2>2, <3>1, <3>3, IdAssumption
    <3> QED
      BY <3>2, <3>3
  <2>4. e.id < below
    BY <1>23, <2>2, <2>3
  <2>5. e.id \in Ids(live)
    BY <1>10, <1>18, <1>23, <2>1, <2>4
  <2>6. e \in Range(live)
    BY <1>6, <1>18, <1>19, <2>1, <2>5
  <2>7. PICK i \in 1..Len(live) : e = live[i]
    BY <1>7, <2>6, RangeIs
  <2>8. i <= k
    BY <1>6, <1>23, <2>2, <2>7, Places
  <2>9. i \in 1..k /\ i \in 1..Len(fits)
    BY <1>7, <1>21, <2>8
  <2> QED
    BY <1>21, <2>7, <2>9
<1>24. Reads(q, g, from, expired)
  BY <1>13, <1>21, <1>22, <1>23 DEF Reads
<1> QED
  BY <1>3, <1>13, <1>14, <1>16, <1>20, <1>24


(* clear leaves a queue with the same tail_id. *)
LEMMA ClearIs ==
  ASSUME NEW q, NEW n \in Nat, IsQueue(q, n), NEW keep \in Nat
  PROVE  /\ IsQueue(clear(q, keep), n) /\ Cut(q.events, clear(q, keep).events)
         /\ clear(q, keep).tail = q.tail /\ clear(q, keep).gc = q.gc
<1>0. /\ IsLog(q.events) /\ q.events \in Seq(EventType) /\ Len(q.events) \in Nat /\ Ends(q.events, q.tail)
      /\ q = [tail |-> q.tail, events |-> q.events, gc |-> q.gc]
  BY QueueIs DEF IsQueue
<1>1. CASE get_size(q) <= keep
  <2>1. clear(q, keep) = q
    BY <1>1 DEF clear
  <2> QED
    BY <1>0, <2>1, CutSame
<1>2. CASE ~(get_size(q) <= keep)
  <2>1. PICK l : l = Len(q.events)
    OBVIOUS
  <2>2. l \in Nat /\ q.events # <<>> /\ l > keep
    <3>1. q.events # <<>>
      BY <1>2 DEF get_size
    <3>2. get_size(q) = l \/ get_size(q) = l - 1
      BY <1>0, <2>1, <3>1 DEF get_size
    <3> QED
      BY <1>0, <1>2, <2>1, <3>1, <3>2
  <2>3. PICK s : s = IF keep = 0 THEN <<[q.events[l] EXCEPT !.data = NoData]>>
                     ELSE SubSeq(q.events, l - keep + 1, l)
    OBVIOUS
  <2>4. clear(q, keep) = [q EXCEPT !.events = s]
    BY <1>2, <2>1, <2>3 DEF clear
  <2>5. clear(q, keep) = [tail |-> q.tail, events |-> s, gc |-> q.gc]
    BY <1>0, <2>4
  <2>6. l \in 1..Len(q.events)
    BY <2>1, <2>2
  <2>7. PICK last : last = q.events[l]
    OBVIOUS
  <2>8. last \in Range(q.events) /\ last \in EventType
    BY <1>0, <2>6, <2>7, RangeIs
  <2>9. IsLast(q.events, last)
    <3>1. last.id \in Ids(q.events)
      BY <1>0, <2>8, IdsAre
    <3>2. ASSUME NEW d \in Range(q.events) PROVE d.id <= last.id
      <4>1. PICK k \in 1..Len(q.events) : d = q.events[k]
        BY <1>0, RangeIs
      <4>2. k < l \/ k = l
        BY <2>1, <2>2
      <4>3. d.id \in Int /\ last.id \in Int
        BY <1>0, <2>8, LogIs
      <4>4. k < l => d.id < last.id
        BY <1>0, <2>6, <2>7, <4>1 DEF IsLog, Sorted
      <4> QED
        BY <2>7, <4>1, <4>2, <4>3, <4>4
    <3> QED
      BY <3>1, <3>2 DEF IsLast
  <2>10. IsLog(s) /\ Cut(q.events, s)
    <3>1. CASE keep = 0
      <4>1. PICK e : e = Event(last.id, NoData)
        OBVIOUS
      <4>2. e \in EventType /\ e.id = last.id /\ e.data = NoData
        <5>1. last.id \in 1..(MaxId - 2) /\ NoData \in Nat
          BY <2>8, EventIs DEF NoData
        <5> QED
          BY <4>1, <5>1, EventIs
      <4>3. s = Append(<<>>, e)
        <5>1. last = Event(last.id, last.data)
          BY <2>8, EventIs
        <5>2. [last EXCEPT !.data = NoData] = e
          BY <4>1, <5>1 DEF Event
        <5> QED
          BY <2>3, <2>7, <3>1, <5>2
      <4>4. IsLog(s) /\ Range(s) = {e}
        BY <4>2, <4>3, LogOne
      <4>5. IsLast(q.events, e)
        BY <2>9, <4>2 DEF IsLast
      <4> QED
        BY <4>2, <4>4, <4>5 DEF Cut
    <3>2. CASE keep # 0
      <4>1. l - keep + 1 \in 1..(Len(q.events) + 1) /\ l \in (l - keep + 1 - 1)..Len(q.events) /\ l \in (l - keep + 1)..l
        BY <2>1, <2>2, <3>2
      <4>2. IsLog(s)
        BY <1>0, <2>3, <3>2, <4>1, SubSeqLog
      <4>3. \A e : e \in Range(s) <=> \E k \in (l - keep + 1)..l : e = q.events[k]
        <5>1. PICK i : i = l - keep + 1
          OBVIOUS
        <5>2. i \in 1..(Len(q.events) + 1) /\ l \in (i - 1)..Len(q.events) /\ s = SubSeq(q.events, i, l)
          <6>1. s = SubSeq(q.events, i, l)
            BY <2>3, <3>2, <5>1, Zenon
          <6>2. i \in 1..(Len(q.events) + 1) /\ l \in (i - 1)..Len(q.events)
            BY <2>1, <2>2, <3>2, <5>1
          <6> QED
            BY <6>1, <6>2
        <5>3. \A e : e \in Range(SubSeq(q.events, i, l)) <=> \E k \in i..l : e = q.events[k]
          BY <1>0, <5>2, SubSeqIs
        <5> QED
          BY <5>1, <5>2, <5>3
      <4>4. last \in Range(s)
        BY <2>7, <4>1, <4>3
      <4>5. ASSUME NEW e \in Range(s) PROVE e \in Range(q.events)
        <5>1. PICK k \in (l - keep + 1)..l : e = q.events[k]
          BY <4>3
        <5>2. k \in 1..Len(q.events)
          BY <2>1, <2>2, <3>2
        <5> QED
          BY <1>0, <5>1, <5>2, RangeIs
      <4> QED
        BY <2>9, <4>2, <4>4, <4>5 DEF Cut
    <3> QED
      BY <3>1, <3>2
  <2>11. PICK r : r = clear(q, keep)
    OBVIOUS
  <2>12. IsQueue(r, n)
    BY <2>5, <2>10, <2>11, CutQueue
  <2>13. r.events = s /\ r.tail = q.tail /\ r.gc = q.gc
    BY <2>5, <2>11
  <2> QED
    BY <2>10, <2>11, <2>12, <2>13
<1> QED
  BY <1>1, <1>2

(* run_gc leaves a queue, and pops what has expired only. *)
LEMMA RunGcIs ==
  ASSUME NEW q, NEW n \in Nat, IsQueue(q, n), NEW expired, NEW r, r = run_gc(q, expired)
  PROVE  /\ IsQueue(r, n) /\ r.tail = q.tail /\ Cut(q.events, r.events)
         /\ PopsFor(q, r, 0, FALSE, expired)
<1>0. /\ IsLog(q.events) /\ q.events \in Seq(EventType)
      /\ \A e \in Range(q.events) : e.id \in 1..(MaxId - 2) /\ e.data <= n
  BY QueueIs
<1>1. PICK live : live = Live(q.events, 0, expired)
  OBVIOUS
<1>2. /\ IsLog(live) /\ live \in Seq(EventType)
      /\ \A e : e \in Range(live) <=>
           e \in Range(q.events) /\ e.id >= 0 /\ e.data # NoData /\ e.data \notin expired
  BY <1>0, <1>1, LiveIs, LogIs
<1>3. PICK below : below = IF Len(live) > 1 THEN live[2].id ELSE MaxId
  OBVIOUS
<1>4. PICK stale : stale = {id \in Ids(q.events) : id < below} \ Ids(live)
  OBVIOUS
<1>5. PICK gc : gc = IF live = <<>> THEN NoData ELSE live[1].data
  OBVIOUS
<1>6. PICK p : p = pop(q, stale)
  OBVIOUS
<1>7. /\ IsQueue(p, n) /\ p = [tail |-> q.tail, events |-> p.events, gc |-> q.gc]
      /\ Cut(q.events, p.events) /\ Popping(q.events, p.events, stale)
  BY <1>6, PopIs
<1>8. r = [p EXCEPT !.gc = gc]
  BY <1>1, <1>3, <1>4, <1>5, <1>6 DEF run_gc
<1>9. r = [tail |-> q.tail, events |-> p.events, gc |-> gc]
  BY <1>7, <1>8
<1>10. r.tail = q.tail /\ r.events = p.events /\ r.gc = gc
  BY <1>9
<1>11. /\ \A i : i \in Ids(q.events) <=> \E e \in Range(q.events) : e.id = i
       /\ \A i : i \in Ids(live) <=> \E e \in Range(live) : e.id = i
  BY <1>0, <1>2, IdsAre
<1>12. live = <<>> <=> Range(live) = {}
  BY <1>2, EmptyRange
<1>13. gc \in 0..n
  <2>1. CASE live = <<>>
    BY <1>5, <2>1 DEF NoData
  <2>2. CASE live # <<>>
    <3>1. 1 \in 1..Len(live)
      BY <1>2, <2>2, EmptySeq, LenProperties
    <3>2. live[1] \in Range(live)
      BY <1>2, <3>1, RangeIs
    <3>3. live[1].data \in Nat /\ live[1].data <= n
      BY <1>0, <1>2, <3>2, LogIs
    <3> QED
      BY <1>5, <2>2, <3>3
  <2> QED
    BY <2>1, <2>2
<1>14. Data(p.events) # {} => gc # NoData
  <2>1. SUFFICES ASSUME live = <<>> PROVE Data(p.events) = {}
    <3>1. ASSUME live # <<>> PROVE gc # NoData
      <4>1. 1 \in 1..Len(live)
        BY <1>2, <3>1, EmptySeq, LenProperties
      <4>2. live[1] \in Range(live)
        BY <1>2, <4>1, RangeIs
      <4> QED
        BY <1>2, <1>5, <3>1, <4>2
    <3> QED
      BY <3>1
  <2>2. p.events \in Seq(EventType)
    BY <1>7, QueueIs
  <2>3. below = MaxId
    <3>1. Len(live) = 0
      BY <2>1, EmptySeq
    <3> QED
      BY <1>3, <3>1
  <2>4. \A i \in Ids(live) : FALSE
    BY <1>11, <1>12, <2>1
  <2>5. ASSUME NEW e \in Range(p.events) PROVE e.data = NoData
    <3>1. CASE e \in Range(q.events) /\ e.id \notin stale
      <4>1. e.id \in Ids(q.events) /\ e.id < MaxId
        BY <1>0, <1>11, <3>1, IdAssumption
      <4> QED
        BY <1>4, <2>3, <2>4, <3>1, <4>1
    <3> QED
      BY <1>7, <3>1 DEF Popping
  <2> QED
    BY <2>2, <2>5, IdsAre
<1>15. PopsFor(q, r, 0, FALSE, expired)
  <2>1. ASSUME NEW e \in Range(q.events), e.id \in stale, e.data # NoData
        PROVE  e.id >= 0 /\ e.data \in expired
    BY <1>0, <1>2, <1>4, <1>11, <2>1
  <2> QED
    BY <1>7, <1>10, <2>1 DEF PopsFor
<1>16. IsQueue(r, n)
  BY <1>7, <1>9, <1>10, <1>13, <1>14 DEF IsQueue
<1> QED
  BY <1>7, <1>10, <1>15, <1>16


(* do_push.  What is kept are the events that are not markers. *)
Kept(events) == IF events # <<>> /\ IsMarker(Last(events)) THEN Front(events) ELSE events

(* Without its marker a log is still a log, of its updates. *)
LEMMA KeptIs ==
  ASSUME NEW s, IsLog(s)
  PROVE  /\ IsLog(Kept(s)) /\ Len(Kept(s)) <= Len(s)
         /\ \A e : e \in Range(Kept(s)) <=> e \in Range(s) /\ e.data # NoData
<1>0. s \in Seq(EventType) /\ Len(s) \in Nat
  BY LogIs
<1>1. CASE s = <<>>
  <2>1. Kept(s) = s /\ Range(s) = {}
    BY <1>1, NothingInRange DEF Kept
  <2> QED
    BY <1>0, <2>1
<1>2. CASE s # <<>>
  <2>1. PICK t \in Seq(EventType), e \in EventType : s = Append(t, e)
    BY <1>0, <1>2, SequenceEmptyOrAppend
  <2>2. IsLog(t) /\ Len(t) < MaxQueueEvents /\ Follows(t, e)
    BY <2>1, LogAppend
  <2>3. Len(s) = Len(t) + 1 /\ s[Len(s)] = e /\ Len(t) \in Nat
    BY <2>1, AppendProperties, LenProperties
  <2>4. Range(s) = Range(t) \cup {e}
    BY <2>1, RangeAppend
  <2>5. Last(s) = e
    BY <2>3 DEF Last
  <2>6. Front(s) = t
    <3>1. SubSeq(s, 1, Len(t)) = t
      BY <2>1, PrefixAppend
    <3>2. Len(s) - 1 = Len(t)
      BY <2>3
    <3> QED
      BY <3>1, <3>2 DEF Front
  <2>7. \A d \in Range(t) : d.data # NoData
    BY <2>2 DEF Follows
  <2>8. CASE e.data = NoData
    <3>1. Kept(s) = t
      BY <1>2, <2>5, <2>6, <2>8 DEF Kept, IsMarker
    <3>2. \A d : d \in Range(t) <=> d \in Range(s) /\ d.data # NoData
      BY <2>4, <2>7, <2>8
    <3>3. Len(t) <= Len(s)
      BY <2>3
    <3> QED
      BY <2>2, <3>1, <3>2, <3>3
  <2>9. CASE e.data # NoData
    <3>1. Kept(s) = s
      BY <1>2, <2>5, <2>9 DEF Kept, IsMarker
    <3>2. \A d \in Range(s) : d.data # NoData
      BY <2>4, <2>7, <2>9
    <3> QED
      BY <1>0, <3>1, <3>2
  <2> QED
    BY <2>8, <2>9
<1> QED
  BY <1>1, <1>2

(* do_push adds the event at the end and drops the marker. *)
LEMMA DoPushIs ==
  ASSUME NEW q, NEW n \in Nat, NEW m \in Nat, n <= m, IsQueue(q, n), NEW e \in EventType,
         PushOK(q, e.id), e.data <= m,
         e.data # NoData => \A d \in Range(q.events) : d.data < e.data,
         NEW p, p = do_push(q, e)
  PROVE  /\ IsQueue(p, m) /\ p.tail = e.id + 1
         /\ \A d : d \in Range(p.events) <=> (d \in Range(q.events) /\ d.data # NoData) \/ d = e
         /\ p.events = Append(Kept(q.events), e)
<1>0. /\ IsLog(q.events) /\ q.events \in Seq(EventType) /\ Len(q.events) \in Nat /\ q.gc \in 0..n
      /\ q.tail \in Int /\ q = [tail |-> q.tail, events |-> q.events, gc |-> q.gc]
      /\ \A d \in Range(q.events) : d.id < q.tail /\ d.id \in Int /\ d.data \in Nat /\ d.data <= n
  BY QueueIs DEF IsQueue
<1>1. e.id \in 1..(MaxId - 2) /\ e.data \in Nat /\ e.id \in Int
  BY EventIs
<1>2. PICK kept : kept = Kept(q.events)
  OBVIOUS
<1>3. /\ IsLog(kept) /\ kept \in Seq(EventType) /\ Len(kept) <= Len(q.events) /\ Len(kept) \in Nat
      /\ \A d : d \in Range(kept) <=> d \in Range(q.events) /\ d.data # NoData
  BY <1>0, <1>2, KeptIs, LogIs
<1>4. PICK gc : gc = IF kept = <<>> /\ ~IsMarker(e) THEN e.data ELSE q.gc
  OBVIOUS
<1>5. p = [tail |-> e.id + 1, events |-> Append(kept, e), gc |-> gc]
  BY <1>2, <1>4 DEF do_push, Kept
<1>6. p.tail = e.id + 1 /\ p.events = Append(kept, e) /\ p.gc = gc
  BY <1>5
<1>7. Len(q.events) < MaxQueueEvents /\ e.id >= q.tail
  BY DEF PushOK
<1>8. Follows(kept, e)
  <2>1. ASSUME NEW d \in Range(kept)
        PROVE  d.id < e.id /\ d.data # NoData /\ (e.data # NoData => d.data < e.data)
    <3>1. d \in Range(q.events) /\ d.data # NoData
      BY <1>3
    <3>2. d.id < q.tail /\ d.id \in Int
      BY <1>0, <3>1
    <3>3. d.id < e.id
      BY <1>0, <1>1, <1>7, <3>2
    <3> QED
      BY <3>1, <3>3
  <2> QED
    BY <2>1 DEF Follows
<1>9. Len(kept) < MaxQueueEvents
  BY <1>0, <1>3, <1>7, IdAssumption
<1>10. IsLog(Append(kept, e)) /\ Append(kept, e) \in Seq(EventType) /\ Append(kept, e) # <<>>
  BY <1>3, <1>8, <1>9, LogAppend, AppendProperties
<1>11. Range(p.events) = Range(kept) \cup {e}
  BY <1>3, <1>6, RangeAppend
<1>12. \A d : d \in Range(p.events) <=> (d \in Range(q.events) /\ d.data # NoData) \/ d = e
  BY <1>3, <1>11
<1>13. GoodLog(p.events, m)
  <2>1. \A d \in Range(p.events) : d.data <= m
    BY <1>0, <1>12
  <2> QED
    BY <1>6, <1>10, <2>1 DEF GoodLog
<1>14. Ends(p.events, p.tail)
  <2>1. e.id \in Ids(p.events)
    BY <1>6, <1>10, <1>12, IdsAre
  <2>2. ASSUME NEW d \in Range(p.events) PROVE d.id <= e.id
    <3>1. CASE d \in Range(kept)
      <4>1. d.id < e.id /\ d.id \in Int
        BY <1>0, <1>3, <1>8, <3>1 DEF Follows
      <4> QED
        BY <1>1, <4>1
    <3>2. CASE d = e
      BY <1>1, <3>2
    <3> QED
      BY <1>11, <3>1, <3>2
  <2>3. IsLast(p.events, e)
    BY <2>1, <2>2 DEF IsLast
  <2> QED
    BY <1>6, <1>10, <1>12, <2>3 DEF Ends
<1>15. gc \in 0..m
  BY <1>0, <1>1, <1>4
<1>16. Data(p.events) # {} => gc # NoData
  <2>1. CASE kept = <<>>
    <3>1. CASE e.data = NoData
      <4>1. Range(kept) = {}
        BY <2>1, NothingInRange
      <4>2. \A d \in Range(p.events) : d.data = NoData
        BY <1>11, <3>1, <4>1
      <4>3. p.events \in Seq(EventType)
        BY <1>6, <1>10
      <4>4. \A u : u \in Data(p.events) <=> u # NoData /\ \E d \in Range(p.events) : d.data = u
        BY <4>3, IdsAre
      <4> QED
        BY <4>2, <4>4
    <3>2. CASE e.data # NoData
      BY <1>4, <2>1, <3>2 DEF IsMarker
    <3> QED
      BY <3>1, <3>2
  <2>2. CASE kept # <<>>
    <3>1. PICK d \in Range(kept) : TRUE
      BY <1>3, <2>2, EmptyRange
    <3>2. d.data \in Data(q.events)
      BY <1>0, <1>3, IdsAre
    <3>3. q.gc # NoData
      BY <3>2 DEF IsQueue
    <3> QED
      BY <1>4, <2>2, <3>3
  <2> QED
    BY <2>1, <2>2
<1>17. IsQueue(p, m)
  BY <1>5, <1>6, <1>13, <1>14, <1>15, <1>16 DEF IsQueue
<1> QED
  BY <1>2, <1>6, <1>12, <1>17

(* A queue that was not used yet. *)
LEMMA NoQueueIs ==
  ASSUME NEW n \in Nat PROVE IsQueue(NoQueue, n)
<1>1. PICK q : q = NoQueue
  OBVIOUS
<1>2. q.tail = 0 /\ q.events = <<>> /\ q.gc = NoData
  BY <1>1 DEF NoQueue
<1>3. Range(q.events) = {} /\ q.events \in Seq(EventType)
  BY <1>2, NothingInRange, EmptySeq
<1>4. Data(q.events) = {}
  BY <1>3, IdsAre
<1>5. GoodLog(q.events, n)
  BY <1>2, <1>3, LogEmpty DEF GoodLog
<1>6. Ends(q.events, q.tail)
  BY <1>2 DEF Ends
<1>7. q = [tail |-> q.tail, events |-> q.events, gc |-> q.gc] /\ q.gc \in 0..n
  BY <1>1, <1>2 DEF NoQueue, NoData
<1> QED
  BY <1>1, <1>4, <1>5, <1>6, <1>7 DEF IsQueue


(* push: the event that is added, and those that stay. *)
NewId(q, fresh) == IF UsedUp(q) \/ q.tail = 0 THEN fresh ELSE q.tail

(* push gives the update a new identifier and adds it at the end; when the *)
(* identifiers are used up, the queue is cleared first.                    *)
LEMMA PushIs ==
  ASSUME NEW q, NEW n \in Nat, IsQueue(q, n), Len(q.events) < MaxQueueEvents, NEW fresh \in FreshIds,
         NEW p, p = push(q, n + 1, fresh)
  PROVE  /\ IsQueue(p, n + 1) /\ p.tail = NewId(q, fresh) + 1 /\ Succeeds(q.events, p.events)
         /\ \A d : d \in Range(p.events) <=>
              \/ ~UsedUp(q) /\ d \in Range(q.events) /\ d.data # NoData
              \/ d = Event(NewId(q, fresh), n + 1)
<1>0. /\ IsLog(q.events) /\ q.events \in Seq(EventType) /\ Len(q.events) \in Nat /\ q.tail \in 0..(MaxId - 1)
      /\ q = [tail |-> q.tail, events |-> q.events, gc |-> q.gc] /\ q.gc \in 0..n
      /\ \A d \in Range(q.events) : d.data \in Nat /\ d.data <= n
      /\ q.tail = 0 <=> q.events = <<>>
  BY QueueIs DEF IsQueue
<1>1. MaxId \in Nat /\ fresh \in 1..(MaxId - 2)
  BY IdAssumption
<1>2. PICK r : r = Renewed(q)
  OBVIOUS
<1>3. IsQueue(r, n) /\ Len(r.events) < MaxQueueEvents
      /\ (UsedUp(q) => r.tail = 0 /\ r.events = <<>>) /\ (~UsedUp(q) => r = q)
  <2>1. CASE UsedUp(q)
    <3>1. r = [q EXCEPT !.tail = 0, !.events = <<>>]
      BY <1>2, <2>1 DEF Renewed
    <3>2. r = [tail |-> 0, events |-> <<>>, gc |-> q.gc]
      BY <1>0, <3>1
    <3>3. r.tail = 0 /\ r.events = <<>> /\ r.gc = q.gc
      BY <3>2
    <3>4. Range(r.events) = {} /\ r.events \in Seq(EventType) /\ Len(r.events) = 0
      BY <3>3, NothingInRange, EmptySeq
    <3>5. Data(r.events) = {}
      BY <3>4, IdsAre
    <3>6. GoodLog(r.events, n)
      BY <3>3, <3>4, LogEmpty DEF GoodLog
    <3>7. Ends(r.events, r.tail)
      BY <3>3 DEF Ends
    <3>8. IsQueue(r, n)
      BY <1>0, <3>2, <3>3, <3>5, <3>6, <3>7 DEF IsQueue
    <3>9. Len(r.events) < MaxQueueEvents
      BY <3>4, IdAssumption
    <3> QED
      BY <2>1, <3>3, <3>8, <3>9
  <2>2. CASE ~UsedUp(q)
    <3>1. r = q
      BY <1>2, <2>2 DEF Renewed
    <3> QED
      BY <2>2, <3>1
  <2> QED
    BY <2>1, <2>2
<1>4. PICK id : id = NewId(q, fresh)
  OBVIOUS
<1>5. id = IF r.tail = 0 THEN fresh ELSE r.tail
  BY <1>3, <1>4 DEF NewId
<1>6. id \in 1..(MaxId - 2) /\ id >= r.tail
  <2>1. CASE UsedUp(q) \/ q.tail = 0
    <3>1. id = fresh /\ r.tail = 0
      BY <1>3, <1>4, <2>1 DEF NewId
    <3> QED
      BY <1>1, <3>1
  <2>2. CASE ~(UsedUp(q) \/ q.tail = 0)
    <3>1. id = q.tail /\ r = q
      BY <1>3, <1>4, <2>2 DEF NewId
    <3>2. ~(q.tail + 1 >= MaxId) /\ q.tail # 0
      BY <2>2 DEF UsedUp
    <3> QED
      BY <1>0, <1>1, <3>1, <3>2
  <2> QED
    BY <2>1, <2>2
<1>7. PICK e : e = Event(id, n + 1)
  OBVIOUS
<1>8. e \in EventType /\ e.id = id /\ e.data = n + 1 /\ n + 1 \in Nat
  BY <1>6, <1>7, EventIs
<1>9. p = do_push(r, e)
  BY <1>2, <1>5, <1>7 DEF push
<1>10. \A d \in Range(r.events) : d.data < n + 1
  <2>1. \A d \in Range(r.events) : d.data \in Nat /\ d.data <= n
    BY <1>3, QueueIs
  <2> QED
    BY <2>1
<1>11. PushOK(r, e.id) /\ e.data <= n + 1 /\ n <= n + 1
  BY <1>3, <1>6, <1>8 DEF PushOK
<1>12. /\ IsQueue(p, n + 1) /\ p.tail = e.id + 1
       /\ \A d : d \in Range(p.events) <=> (d \in Range(r.events) /\ d.data # NoData) \/ d = e
  <2>1. PICK m \in Nat : m = n + 1
    OBVIOUS
  <2>2. n <= m /\ e.data <= m /\ \A d \in Range(r.events) : d.data < e.data
    BY <1>8, <1>10, <1>11, <2>1
  <2>3. /\ IsQueue(p, m) /\ p.tail = e.id + 1
        /\ \A d : d \in Range(p.events) <=> (d \in Range(r.events) /\ d.data # NoData) \/ d = e
    BY <1>3, <1>8, <1>9, <1>11, <2>2, DoPushIs
  <2> QED
    BY <2>1, <2>3
<1>13. \A d : d \in Range(p.events) <=>
              \/ ~UsedUp(q) /\ d \in Range(q.events) /\ d.data # NoData
              \/ d = e
  <2>1. CASE UsedUp(q)
    <3>1. Range(r.events) = {}
      BY <1>3, <2>1, NothingInRange
    <3> QED
      BY <1>12, <2>1, <3>1
  <2>2. CASE ~UsedUp(q)
    BY <1>3, <1>12, <2>2
  <2> QED
    BY <2>1, <2>2
<1>14. \A i : i \in Ids(q.events) <=> \E d \in Range(q.events) : d.id = i
  BY <1>0, IdsAre
<1>15. \A d \in Range(p.events) : d.id <= e.id
  <2>1. \A d \in Range(p.events) : d.id + 1 <= p.tail /\ d.id \in Int
    BY <1>12, QueueIs
  <2>2. e.id \in Int
    BY <1>6, <1>8
  <2> QED
    BY <1>12, <2>1, <2>2
<1>16. Succeeds(q.events, p.events)
  <2>1. \A d, c \in Range(p.events) :
       (d.id \in Ids(q.events) /\ d \notin Range(q.events) /\ c.id \in Ids(q.events) /\ c \notin Range(q.events)) => d = c
    BY <1>13
  <2>2. \A d \in Range(p.events) : d.id \notin Ids(q.events) => \A c \in Range(p.events) : c.id <= d.id
    BY <1>13, <1>14, <1>15
  <2> QED
    BY <2>1, <2>2 DEF Succeeds
<1> QED
  BY <1>4, <1>7, <1>8, <1>12, <1>13, <1>16

-------------------------------------------------------------------------------
(* start_up replays a log into a queue of the same events. *)
LEMMA ReplayStep ==
  ASSUME NEW s \in Seq(EventType), NEW e \in EventType, NEW n \in Nat, GoodLog(Append(s, e), n),
         NEW q, IsQueue(q, n), q.events = s
  PROVE  /\ PushOK(q, e.id)
         /\ IsQueue(do_push(q, e), n) /\ do_push(q, e).events = Append(s, e)
<1>1. IsLog(s) /\ Len(s) < MaxQueueEvents /\ Follows(s, e)
  BY LogAppend DEF GoodLog
<1>2. Range(Append(s, e)) = Range(s) \cup {e}
  BY RangeAppend
<1>3. e.data <= n /\ e.id \in Nat /\ e.id \in Int
  BY <1>2, EventIs DEF GoodLog
<1>4. e.id >= q.tail
  <2>1. CASE s = <<>>
    <3>1. q.tail = 0
      BY <2>1 DEF IsQueue, Ends
    <3> QED
      BY <1>3, <3>1
  <2>2. CASE s # <<>>
    <3>1. PICK d \in Range(s) : q.tail = d.id + 1
      BY <2>2 DEF IsQueue, Ends
    <3>2. d.id < e.id /\ d.id \in Int
      BY <1>1, LogIs DEF Follows
    <3> QED
      BY <1>3, <3>1, <3>2
  <2> QED
    BY <2>1, <2>2
<1>5. PushOK(q, e.id)
  BY <1>1, <1>4 DEF PushOK
<1>6. \A d \in Range(s) : d.data # NoData /\ (e.data # NoData => d.data < e.data)
  BY <1>1 DEF Follows
<1>7. Kept(s) = s
  <2>1. IsLog(Kept(s)) /\ \A d : d \in Range(Kept(s)) <=> d \in Range(s) /\ d.data # NoData
    BY <1>1, KeptIs
  <2>2. Range(Kept(s)) = Range(s)
    BY <1>6, <2>1
  <2> QED
    BY <1>1, <2>1, <2>2, LogUnique
<1>8. PICK p : p = do_push(q, e)
  OBVIOUS
<1>9. IsQueue(p, n) /\ p.events = Append(s, e)
  <2>1. n <= n /\ (e.data # NoData => \A d \in Range(q.events) : d.data < e.data)
    BY <1>6
  <2>2. IsQueue(p, n) /\ p.events = Append(Kept(q.events), e)
    BY <1>3, <1>5, <1>8, <2>1, DoPushIs
  <2> QED
    BY <1>7, <2>2
<1> QED
  BY <1>5, <1>8, <1>9

(* start_up reads the log back: for a log of any length, the queue it      *)
(* builds is a queue and holds exactly the events of the log.              *)
THEOREM ReplayIsExact ==
  ASSUME NEW log, NEW n \in Nat, GoodLog(log, n)
  PROVE  IsQueue(Replay(log), n) /\ Replay(log).events = log
<1> DEFINE G == {s \in Seq(EventType) : GoodLog(s, n) => IsQueue(Replay(s), n) /\ Replay(s).events = s}
<1>1. <<>> \in G
  <2>1. Replay(<<>>) = NoQueue /\ NoQueue.events = <<>> /\ <<>> \in Seq(EventType)
    BY ReplayEmpty, EmptySeq DEF NoQueue
  <2> QED
    BY <2>1, NoQueueIs
<1>2. ASSUME NEW s \in Seq(EventType), NEW e \in EventType, s \in G PROVE Append(s, e) \in G
  <2>1. ASSUME GoodLog(Append(s, e), n)
        PROVE  IsQueue(Replay(Append(s, e)), n) /\ Replay(Append(s, e)).events = Append(s, e)
    <3>1. GoodLog(s, n)
      <4>1. IsLog(s)
        BY <2>1, LogAppend DEF GoodLog
      <4>2. Range(Append(s, e)) = Range(s) \cup {e}
        BY RangeAppend
      <4> QED
        BY <2>1, <4>1, <4>2 DEF GoodLog
    <3>2. PICK q : q = Replay(s)
      OBVIOUS
    <3>3. IsQueue(q, n) /\ q.events = s
      BY <1>2, <3>1, <3>2
    <3>4. Replay(Append(s, e)) = do_push(q, e)
      BY <3>2, ReplayAppend
    <3> QED
      BY <2>1, <3>3, <3>4, ReplayStep
  <2> QED
    BY <2>1, AppendProperties
<1> HIDE DEF G
<1>3. log \in Seq(EventType)
  BY DEF GoodLog, IsLog
<1>4. log \in G
  BY <1>1, <1>2, <1>3, SeqInduction
<1> QED
  BY <1>4 DEF G

(* do_push refuses no event of the log while start_up replays it: the      *)
(* identifiers follow each other as it demands.                            *)
THEOREM ReplayIsAccepted ==
  ASSUME NEW log, NEW n \in Nat, GoodLog(log, n), NEW k \in 1..Len(log)
  PROVE  PushOK(Replay(SubSeq(log, 1, k - 1)), log[k].id)
<1>0. log \in Seq(EventType) /\ Len(log) \in Nat /\ IsLog(log)
  BY LogIs DEF GoodLog
<1>1. /\ 1 \in 1..Len(log) /\ k \in 1..Len(log) /\ 1 \in 1..(Len(log) + 1)
      /\ k \in (1 - 1)..Len(log) /\ k - 1 \in (1 - 1)..Len(log)
  BY <1>0
<1>2. PICK s : s = SubSeq(log, 1, k - 1)
  OBVIOUS
<1>3. PICK t : t = SubSeq(log, 1, k)
  OBVIOUS
<1>4. s \in Seq(EventType) /\ IsLog(t) /\ \A e \in Range(t) : \E i \in 1..k : e = log[i]
  BY <1>0, <1>1, <1>2, <1>3, SubSeqIs, SubSeqLog
<1>5. log[k] \in EventType
  BY <1>0, RangeIs
<1>6. t = Append(s, log[k])
  <2>1. t = s \o <<log[k]>>
    BY <1>0, <1>1, <1>2, <1>3, SubSeqRecursiveSecond
  <2> QED
    BY <1>4, <1>5, <2>1, AppendIsConcat
<1>7. GoodLog(t, n)
  <2>1. \A i \in 1..k : i \in 1..Len(log)
    BY <1>0
  <2>2. \A i \in 1..k : log[i] \in Range(log)
    BY <1>0, <2>1, RangeIs
  <2> QED
    BY <1>4, <2>2 DEF GoodLog
<1>8. GoodLog(s, n)
  <2>1. IsLog(s) /\ Range(t) = Range(s) \cup {log[k]}
    BY <1>4, <1>5, <1>6, LogAppend, RangeAppend
  <2> QED
    BY <1>7, <2>1 DEF GoodLog
<1>9. PICK q : q = Replay(s)
  OBVIOUS
<1>10. IsQueue(q, n) /\ q.events = s
  BY <1>8, <1>9, ReplayIsExact
<1>11. PushOK(q, log[k].id)
  BY <1>4, <1>5, <1>6, <1>7, <1>10, ReplayStep
<1> QED
  BY <1>2, <1>9, <1>11


===============================================================================
