----------------------------- MODULE IngestProofs -----------------------------
(***************************************************************************)
(* Proofs about Ingest, for every set of kinds and requests and all        *)
(* capacities and batch sizes.  The inductive invariant is                 *)
(*                                                                         *)
(*   TypeOK /\ BatchEmptyAtSelect /\ OneWriter /\ Accounted                *)
(*          /\ InOrderOnce /\ ArrivalBounded                               *)
(*                                                                         *)
(* ArrivalBounded (no event in a line arrived later than the clock) is     *)
(* what makes a newly admitted event the latest of its line, Accounted     *)
(* that it is a new one, and BatchEmptyAtSelect that the flush of Stop     *)
(* moves nothing, so that Stop is invisible to the lossy log.              *)
(***************************************************************************)
EXTENDS Ingest, SequenceTheorems, TLAPS

-------------------------------------------------------------------------------
(* Facts about sequences.                                                    *)

\* Moving the head of a queue to the end of the batch in front of it leaves
\* the two together unchanged.
LEMMA MoveHead ==
  ASSUME NEW S, NEW b \in Seq(S), NEW q \in Seq(S), q # <<>>
  PROVE  /\ Append(b, Head(q)) \in Seq(S)
         /\ Tail(q) \in Seq(S)
         /\ Len(Tail(q)) = Len(q) - 1
         /\ Append(b, Head(q)) \o Tail(q) = b \o q
<1> DEFINE l == Append(b, Head(q)) \o Tail(q)
           m == b \o q
<1>1. /\ Head(q) \in S
      /\ Tail(q) \in Seq(S)
      /\ Len(Tail(q)) = Len(q) - 1
      /\ \A i \in 1..Len(Tail(q)) : Tail(q)[i] = q[i + 1]
  BY HeadTailProperties
<1>2. /\ Append(b, Head(q)) \in Seq(S)
      /\ Len(Append(b, Head(q))) = Len(b) + 1
      /\ \A i \in 1..Len(b) : Append(b, Head(q))[i] = b[i]
      /\ Append(b, Head(q))[Len(b) + 1] = Head(q)
  BY <1>1, AppendProperties
<1>3. /\ Len(q) \in Nat \ {0}
      /\ Len(b) \in Nat
      /\ Head(q) = q[1]
  BY EmptySeq, LenProperties
<1>4. l \in Seq(S) /\ m \in Seq(S)
  BY <1>1, <1>2, ConcatProperties
<1>5. Len(l) = Len(b) + Len(q) /\ Len(m) = Len(b) + Len(q)
  BY <1>1, <1>2, <1>3, ConcatProperties
<1>6. ASSUME NEW i \in 1..Len(l)
      PROVE  l[i] = m[i]
  <2>1. l[i] = IF i <= Len(b) + 1 THEN Append(b, Head(q))[i]
                                  ELSE Tail(q)[i - (Len(b) + 1)]
    BY <1>1, <1>2, <1>3, <1>5, <1>6, ConcatProperties
  <2>2. m[i] = IF i <= Len(b) THEN b[i] ELSE q[i - Len(b)]
    BY <1>5, <1>6, ConcatProperties
  <2>3. CASE i <= Len(b)
    BY <2>1, <2>2, <2>3, <1>2, <1>3, <1>5, <1>6
  <2>4. CASE i = Len(b) + 1
    BY <2>1, <2>2, <2>4, <1>2, <1>3
  <2>5. CASE i > Len(b) + 1
    <3>1. i - (Len(b) + 1) \in 1..Len(Tail(q))
      BY <2>5, <1>1, <1>3, <1>5, <1>6
    <3>2. Tail(q)[i - (Len(b) + 1)] = q[i - (Len(b) + 1) + 1]
      BY <3>1, <1>1
    <3>3. i - (Len(b) + 1) + 1 = i - Len(b)
      BY <1>3, <1>5, <1>6
    <3> QED BY <2>1, <2>2, <2>5, <3>2, <3>3, <1>3, <1>5, <1>6
  <2> QED BY <2>3, <2>4, <2>5, <1>3, <1>5, <1>6
<1>7. l = m
  BY <1>4, <1>5, <1>6, SeqEqual
<1> QED BY <1>1, <1>2, <1>7

\* An element added behind a suffix is added behind the whole.
LEMMA AppendBehind ==
  ASSUME NEW S, NEW s \in Seq(S), NEW t \in Seq(S), NEW e \in S
  PROVE  s \o Append(t, e) = Append(s \o t, e)
<1>1. <<e>> \in Seq(S) /\ s \o t \in Seq(S)
  BY ConcatProperties
<1>2. s \o (t \o <<e>>) = (s \o t) \o <<e>>
  BY <1>1, ConcatAssociative
<1> QED BY <1>1, <1>2, AppendIsConcat

\* The elements of a concatenation, and of a sequence with one more.
LEMMA ElemsConcat ==
  ASSUME NEW S, NEW s \in Seq(S), NEW t \in Seq(S)
  PROVE  Elems(s \o t) = Elems(s) \cup Elems(t)
<1>1. /\ Len(s) \in Nat /\ Len(t) \in Nat
      /\ DOMAIN s = 1..Len(s) /\ DOMAIN t = 1..Len(t)
  BY LenProperties
<1>2. /\ s \o t \in Seq(S)
      /\ Len(s \o t) = Len(s) + Len(t)
      /\ \A i \in 1..Len(s) + Len(t) :
           (s \o t)[i] = IF i <= Len(s) THEN s[i] ELSE t[i - Len(s)]
  BY ConcatProperties
<1>3. DOMAIN (s \o t) = 1..Len(s) + Len(t)
  BY <1>2, LenProperties
<1>4. ASSUME NEW x \in Elems(s \o t)
      PROVE  x \in Elems(s) \cup Elems(t)
  <2>1. PICK i \in 1..Len(s) + Len(t) : x = (s \o t)[i]
    BY <1>3 DEF Elems
  <2>2. CASE i <= Len(s)
    BY <2>1, <2>2, <1>1, <1>2 DEF Elems
  <2>3. CASE ~(i <= Len(s))
    <3>1. i - Len(s) \in 1..Len(t) /\ x = t[i - Len(s)]
      BY <2>1, <2>3, <1>1, <1>2
    <3> QED BY <3>1, <1>1 DEF Elems
  <2> QED BY <2>2, <2>3
<1>5. ASSUME NEW x \in Elems(s)
      PROVE  x \in Elems(s \o t)
  <2>1. PICK i \in 1..Len(s) : x = s[i]
    BY <1>1 DEF Elems
  <2>2. i \in 1..Len(s) + Len(t) /\ (s \o t)[i] = x
    BY <2>1, <1>1, <1>2
  <2> QED BY <2>2, <1>3 DEF Elems
<1>6. ASSUME NEW x \in Elems(t)
      PROVE  x \in Elems(s \o t)
  <2>1. PICK i \in 1..Len(t) : x = t[i]
    BY <1>1 DEF Elems
  <2>2. i + Len(s) \in 1..Len(s) + Len(t) /\ (s \o t)[i + Len(s)] = x
    BY <2>1, <1>1, <1>2
  <2> QED BY <2>2, <1>3 DEF Elems
<1> QED BY <1>4, <1>5, <1>6

LEMMA ElemsSubset ==
  ASSUME NEW S, NEW s \in Seq(S)
  PROVE  Elems(s) \subseteq S
BY LenProperties, ElementOfSeq DEF Elems

LEMMA ElemsAppend ==
  ASSUME NEW S, NEW s \in Seq(S), NEW e \in S
  PROVE  Elems(Append(s, e)) = Elems(s) \cup {e}
<1>1. <<e>> \in Seq(S) /\ Elems(<<e>>) = {e}
  BY DEF Elems
<1>2. Append(s, e) = s \o <<e>>
  BY AppendIsConcat
<1>3. Elems(s \o <<e>>) = Elems(s) \cup Elems(<<e>>)
  BY <1>1, ElemsConcat
<1> QED BY <1>1, <1>2, <1>3

\* Replacing one of a family of bounded sequences by another one that is
\* within its bound.
LEMMA ReplaceBounded ==
  ASSUME NEW K, NEW S, NEW B, NEW g \in [K -> Seq(S)], NEW c \in K, NEW s \in Seq(S),
         \A k \in K : Len(g[k]) <= B[k],
         Len(s) <= B[c]
  PROVE  /\ [g EXCEPT ![c] = s] \in [K -> Seq(S)]
         /\ \A k \in K : Len([g EXCEPT ![c] = s][k]) <= B[k]
OBVIOUS

\* A sequence is increasing in f.
Increasing(s, f) ==
  \A i, j \in 1..Len(s) : i < j => f[s[i]] < f[s[j]]

\* Cutting the middle out of an increasing sequence leaves it increasing.
LEMMA CutMiddle ==
  ASSUME NEW S, NEW t \in Seq(S), NEW b \in Seq(S), NEW q \in Seq(S), NEW f,
         Increasing(t \o (b \o q), f)
  PROVE  Increasing(t \o q, f)
<1> DEFINE l == t \o (b \o q)
           m == t \o q
           At(i) == IF i <= Len(t) THEN i ELSE i + Len(b)
<1>1. /\ Len(t) \in Nat /\ Len(b) \in Nat /\ Len(q) \in Nat
      /\ b \o q \in Seq(S) /\ Len(b \o q) = Len(b) + Len(q)
      /\ Len(l) = Len(t) + (Len(b) + Len(q)) /\ Len(m) = Len(t) + Len(q)
  BY LenProperties, ConcatProperties
<1>2. ASSUME NEW i \in 1..Len(m)
      PROVE  At(i) \in 1..Len(l) /\ m[i] = l[At(i)]
  <2>1. m[i] = IF i <= Len(t) THEN t[i] ELSE q[i - Len(t)]
    BY <1>1, ConcatProperties
  <2>2. At(i) \in 1..Len(l)
    BY <1>1
  <2>3. l[At(i)] = IF At(i) <= Len(t) THEN t[At(i)] ELSE (b \o q)[At(i) - Len(t)]
    BY <1>1, <2>2, ConcatProperties
  <2>4. CASE i <= Len(t)
    BY <2>1, <2>2, <2>3, <2>4
  <2>5. CASE ~(i <= Len(t))
    <3>1. At(i) = i + Len(b) /\ ~(At(i) <= Len(t))
      BY <2>5, <1>1
    <3>2. At(i) - Len(t) \in 1..Len(b) + Len(q) /\ ~(At(i) - Len(t) <= Len(b))
      BY <2>5, <3>1, <1>1
    <3>3. (b \o q)[At(i) - Len(t)] = q[At(i) - Len(t) - Len(b)]
      BY <3>2, <1>1, ConcatProperties
    <3>4. At(i) - Len(t) - Len(b) = i - Len(t)
      BY <3>1, <1>1
    <3> HIDE DEF At
    <3> QED BY <2>1, <2>2, <2>3, <2>5, <3>1, <3>3, <3>4
  <2> QED BY <2>4, <2>5
<1>3. ASSUME NEW i \in 1..Len(m), NEW j \in 1..Len(m), i < j
      PROVE  At(i) < At(j)
  BY <1>1, <1>3
<1> HIDE DEF l, m, At
<1>4. ASSUME NEW i \in 1..Len(m), NEW j \in 1..Len(m), i < j
      PROVE  f[m[i]] < f[m[j]]
  <2>1. Increasing(l, f)
    BY DEF l
  <2> QED BY <1>2, <1>3, <1>4, <2>1 DEF Increasing
<1> QED BY <1>4 DEF Increasing, m

\* What bounds f over a sequence bounds it over the sequence without its middle.
LEMMA CutMiddleBounded ==
  ASSUME NEW S, NEW t \in Seq(S), NEW b \in Seq(S), NEW q \in Seq(S),
         NEW f, NEW n,
         \A i \in 1..Len(t \o (b \o q)) : f[(t \o (b \o q))[i]] <= n
  PROVE  \A i \in 1..Len(t \o q) : f[(t \o q)[i]] <= n
<1>1. PICK l \in Seq(S), m \in Seq(S) : l = t \o (b \o q) /\ m = t \o q
  BY ConcatProperties
<1>2. Elems(m) \subseteq Elems(l)
  <2>1. PICK u \in Seq(S) : u = b \o q
    BY ConcatProperties
  <2>2. /\ Elems(t \o u) = Elems(t) \cup Elems(u)
        /\ Elems(b \o q) = Elems(b) \cup Elems(q)
        /\ Elems(t \o q) = Elems(t) \cup Elems(q)
    BY ElemsConcat
  <2> QED BY <1>1, <2>1, <2>2
<1>3. DOMAIN l = 1..Len(l) /\ DOMAIN m = 1..Len(m)
  BY LenProperties
<1>4. \A x \in Elems(l) : f[x] <= n
  BY <1>1, <1>3 DEF Elems
<1>5. \A i \in 1..Len(m) : f[m[i]] <= n
  BY <1>2, <1>3, <1>4 DEF Elems
<1> QED BY <1>1, <1>5

\* In an increasing sequence the middle shares no element with the rest.
LEMMA MiddleApart ==
  ASSUME NEW S, NEW t \in Seq(S), NEW b \in Seq(S), NEW q \in Seq(S),
         NEW f \in [S -> Nat], Increasing(t \o (b \o q), f)
  PROVE  Elems(b) \cap Elems(t \o q) = {}
<1> DEFINE l == t \o (b \o q)
<1>1. /\ Len(t) \in Nat /\ Len(b) \in Nat /\ Len(q) \in Nat
      /\ DOMAIN t = 1..Len(t) /\ DOMAIN b = 1..Len(b) /\ DOMAIN q = 1..Len(q)
  BY LenProperties
<1>2. /\ b \o q \in Seq(S) /\ l \in Seq(S)
      /\ Len(b \o q) = Len(b) + Len(q)
      /\ Len(l) = Len(t) + (Len(b) + Len(q))
      /\ \A i \in 1..Len(l) :
           l[i] = IF i <= Len(t) THEN t[i] ELSE (b \o q)[i - Len(t)]
  BY ConcatProperties
<1>3. \A i \in 1..Len(b) + Len(q) :
         (b \o q)[i] = IF i <= Len(b) THEN b[i] ELSE q[i - Len(b)]
  BY ConcatProperties
<1>4. \A i, j \in 1..Len(l) : l[i] = l[j] => i = j
  <2> SUFFICES ASSUME NEW i \in 1..Len(l), NEW j \in 1..Len(l), l[i] = l[j], i # j
               PROVE  FALSE
    OBVIOUS
  <2>1. l[i] \in S
    BY <1>2, ElementOfSeq
  <2>2. f[l[i]] \in Nat
    BY <2>1
  <2>3. i < j \/ j < i
    BY <1>1, <1>2
  <2>4. f[l[i]] < f[l[j]] \/ f[l[j]] < f[l[i]]
    BY <2>3 DEF Increasing
  <2> HIDE DEF l
  <2> QED BY <2>2, <2>4
<1> SUFFICES ASSUME NEW x \in Elems(b), x \in Elems(t) \cup Elems(q)
             PROVE  FALSE
  BY ElemsConcat
<1>5. PICK i \in 1..Len(b) : x = b[i]
  BY <1>1 DEF Elems
<1>6. i + Len(t) \in 1..Len(l) /\ l[i + Len(t)] = x
  <2>1. i + Len(t) \in 1..Len(l) /\ ~(i + Len(t) <= Len(t)) /\ i + Len(t) - Len(t) = i
    BY <1>1, <1>2
  <2>2. l[i + Len(t)] = (b \o q)[i]
    BY <2>1, <1>2
  <2>3. (b \o q)[i] = b[i]
    BY <1>1, <1>3
  <2> QED BY <2>1, <2>2, <2>3, <1>5
<1>7. CASE x \in Elems(t)
  <2>1. PICK j \in 1..Len(t) : x = t[j]
    BY <1>1, <1>7 DEF Elems
  <2>2. j \in 1..Len(l) /\ l[j] = x /\ j # i + Len(t)
    BY <2>1, <1>1, <1>2
  <2> QED BY <2>2, <1>4, <1>6
<1>8. CASE x \in Elems(q)
  <2>1. PICK j \in 1..Len(q) : x = q[j]
    BY <1>1, <1>8 DEF Elems
  <2>2. /\ j + Len(b) \in 1..Len(b) + Len(q)
        /\ (b \o q)[j + Len(b)] = x
    BY <2>1, <1>1, <1>3
  <2>3. /\ j + Len(b) + Len(t) \in 1..Len(l)
        /\ l[j + Len(b) + Len(t)] = x
        /\ j + Len(b) + Len(t) # i + Len(t)
    BY <2>2, <1>1, <1>2
  <2> QED BY <2>3, <1>4, <1>6
<1> QED BY <1>7, <1>8

-------------------------------------------------------------------------------
(* The inductive invariant.                                                  *)

\* No event of a line arrived after the last one counted.
ArrivalBounded ==
  \A k \in Kinds : \A i \in 1..Len(Line(k)) : arrival[Line(k)[i]] <= clock

Inv ==
  /\ TypeOK
  /\ BatchEmptyAtSelect
  /\ OneWriter
  /\ Accounted
  /\ InOrderOnce
  /\ ArrivalBounded

LEMMA InitTypeOK == Init => TypeOK
BY IngestAssumption
   DEF Init, TypeOK, HandlerStates, WorkerStates, Phases

LEMMA NextTypeOK == TypeOK /\ BatchEmptyAtSelect /\ [Next]_vars => TypeOK'
<1> SUFFICES ASSUME TypeOK, BatchEmptyAtSelect, [Next]_vars PROVE TypeOK'
  OBVIOUS
<1> USE IngestAssumption DEF TypeOK, HandlerStates, WorkerStates, Phases
<1>1. ASSUME NEW r \in Requests, Reject(r) PROVE TypeOK'
  BY <1>1 DEF Reject, vars
<1>2. ASSUME NEW r \in Requests, Enqueue(r) PROVE TypeOK'
  <2>1. KindOf[r] \in Kinds /\ queue[KindOf[r]] \in Seq(Requests)
    OBVIOUS
  <2>2. /\ Append(queue[KindOf[r]], r) \in Seq(Requests)
        /\ Len(Append(queue[KindOf[r]], r)) = Len(queue[KindOf[r]]) + 1
    BY <2>1, AppendProperties
  <2>3. /\ queue' \in [Kinds -> Seq(Requests)]
        /\ \A k \in Kinds : Len(queue'[k]) <= Capacity[k]
    BY <1>2, <2>1, <2>2 DEF Enqueue
  <2> QED BY <1>2, <2>3 DEF Enqueue, workerVars
<1>3. ASSUME NEW r \in Requests, DropFull(r) PROVE TypeOK'
  BY <1>3 DEF DropFull, workerVars
<1>4. ASSUME NEW k \in Kinds, Receive(k) PROVE TypeOK'
  <2>1. Len(batch[k]) < BatchSize /\ queue[k] # <<>>
    BY <1>4 DEF Receive, BatchEmptyAtSelect
  <2>2. /\ Append(batch[k], Head(queue[k])) \in Seq(Requests)
        /\ Len(Append(batch[k], Head(queue[k]))) <= BatchSize
    BY <2>1, AppendProperties, HeadTailProperties, LenProperties
  <2>3. Tail(queue[k]) \in Seq(Requests) /\ Len(Tail(queue[k])) <= Capacity[k]
    BY <2>1, HeadTailProperties, LenProperties
  <2>4. /\ batch' \in [Kinds -> Seq(Requests)]
        /\ \A c \in Kinds : Len(batch'[c]) <= [x \in Kinds |-> BatchSize][c]
    <3>1. batch' = [batch EXCEPT ![k] = Append(batch[k], Head(queue[k]))]
      BY <1>4 DEF Receive
    <3>2. \A c \in Kinds : Len(batch[c]) <= [x \in Kinds |-> BatchSize][c]
      OBVIOUS
    <3> QED BY <2>2, <3>1, <3>2, ReplaceBounded
  <2>5. /\ queue' \in [Kinds -> Seq(Requests)]
        /\ \A c \in Kinds : Len(queue'[c]) <= Capacity[c]
    <3>1. queue' = [queue EXCEPT ![k] = Tail(queue[k])]
      BY <1>4 DEF Receive
    <3> QED BY <2>3, <3>1, ReplaceBounded
  <2> QED BY <1>4, <2>4, <2>5 DEF Receive, requestVars
<1>5. ASSUME NEW k \in Kinds, DrainOne(k) PROVE TypeOK'
  <2>1. Len(batch[k]) < BatchSize /\ queue[k] # <<>>
    BY <1>5 DEF DrainOne
  <2>2. /\ Append(batch[k], Head(queue[k])) \in Seq(Requests)
        /\ Len(Append(batch[k], Head(queue[k]))) <= BatchSize
    BY <2>1, AppendProperties, HeadTailProperties, LenProperties
  <2>3. Tail(queue[k]) \in Seq(Requests) /\ Len(Tail(queue[k])) <= Capacity[k]
    BY <2>1, HeadTailProperties, LenProperties
  <2>4. /\ batch' \in [Kinds -> Seq(Requests)]
        /\ \A c \in Kinds : Len(batch'[c]) <= [x \in Kinds |-> BatchSize][c]
    <3>1. batch' = [batch EXCEPT ![k] = Append(batch[k], Head(queue[k]))]
      BY <1>5 DEF DrainOne
    <3>2. \A c \in Kinds : Len(batch[c]) <= [x \in Kinds |-> BatchSize][c]
      OBVIOUS
    <3> QED BY <2>2, <3>1, <3>2, ReplaceBounded
  <2>5. /\ queue' \in [Kinds -> Seq(Requests)]
        /\ \A c \in Kinds : Len(queue'[c]) <= Capacity[c]
    <3>1. queue' = [queue EXCEPT ![k] = Tail(queue[k])]
      BY <1>5 DEF DrainOne
    <3> QED BY <2>3, <3>1, ReplaceBounded
  <2> QED BY <1>5, <2>4, <2>5 DEF DrainOne, requestVars
<1>6. ASSUME NEW k \in Kinds, DrainDone(k) PROVE TypeOK'
  BY <1>6 DEF DrainDone, requestVars
<1>7. ASSUME NEW k \in Kinds, BeginInsert(k) PROVE TypeOK'
  BY <1>7 DEF BeginInsert, requestVars
<1>8. ASSUME NEW k \in Kinds, InsertOk(k) PROVE TypeOK'
  <2>1. table[k] \o batch[k] \in Seq(Requests)
    BY ConcatProperties
  <2> QED BY <1>8, <2>1 DEF InsertOk, EndOfBatch, requestVars
<1>9. ASSUME NEW k \in Kinds, InsertFails(k) PROVE TypeOK'
  BY <1>9 DEF InsertFails, EndOfBatch, requestVars, Elems
<1>10. ASSUME NEW k \in Kinds, Stop(k) PROVE TypeOK'
  BY <1>10 DEF Stop, requestVars
<1>11. CASE Signal \/ CloseListener \/ Exit
  BY <1>11 DEF Signal, CloseListener, Exit, requestVars, workerVars
<1>12. CASE UNCHANGED vars
  BY <1>12 DEF vars
<1> QED
  BY <1>1, <1>2, <1>3, <1>4, <1>5, <1>6, <1>7, <1>8, <1>9, <1>10, <1>11, <1>12
     DEF Next

LEMMA NextBatchEmpty ==
  TypeOK /\ BatchEmptyAtSelect /\ [Next]_vars => BatchEmptyAtSelect'
<1> SUFFICES ASSUME TypeOK, BatchEmptyAtSelect, [Next]_vars
             PROVE  BatchEmptyAtSelect'
  OBVIOUS
<1> USE DEF TypeOK, BatchEmptyAtSelect
<1>1. CASE \E r \in Requests : Reject(r) \/ Enqueue(r) \/ DropFull(r)
  BY <1>1 DEF Reject, Enqueue, DropFull, vars, workerVars
<1>2. ASSUME NEW k \in Kinds, Receive(k) PROVE BatchEmptyAtSelect'
  BY <1>2 DEF Receive
<1>3. ASSUME NEW k \in Kinds, DrainOne(k) PROVE BatchEmptyAtSelect'
  BY <1>3 DEF DrainOne
<1>4. ASSUME NEW k \in Kinds, DrainDone(k) PROVE BatchEmptyAtSelect'
  BY <1>4 DEF DrainDone
<1>5. ASSUME NEW k \in Kinds, BeginInsert(k) PROVE BatchEmptyAtSelect'
  BY <1>5 DEF BeginInsert
<1>6. ASSUME NEW k \in Kinds, InsertOk(k) \/ InsertFails(k)
      PROVE  BatchEmptyAtSelect'
  BY <1>6 DEF InsertOk, InsertFails, EndOfBatch
<1>7. ASSUME NEW k \in Kinds, Stop(k) PROVE BatchEmptyAtSelect'
  BY <1>7 DEF Stop
<1>8. CASE Signal \/ CloseListener \/ Exit \/ UNCHANGED vars
  BY <1>8 DEF Signal, CloseListener, Exit, workerVars, vars
<1> QED BY <1>1, <1>2, <1>3, <1>4, <1>5, <1>6, <1>7, <1>8 DEF Next

LEMMA NextOneWriter == TypeOK /\ OneWriter /\ [Next]_vars => OneWriter'
<1> SUFFICES ASSUME TypeOK, OneWriter, [Next]_vars PROVE OneWriter'
  OBVIOUS
<1> USE IngestAssumption DEF TypeOK, OneWriter, WorkerStates
<1>1. CASE \E r \in Requests : Reject(r) \/ Enqueue(r) \/ DropFull(r)
  BY <1>1 DEF Reject, Enqueue, DropFull, vars, workerVars
<1>2. ASSUME NEW k \in Kinds, Receive(k) \/ DrainOne(k) \/ DrainDone(k)
      PROVE  OneWriter'
  BY <1>2 DEF Receive, DrainOne, DrainDone
<1>3. ASSUME NEW k \in Kinds, BeginInsert(k) PROVE OneWriter'
  BY <1>3 DEF BeginInsert
<1>4. ASSUME NEW k \in Kinds, InsertOk(k) \/ InsertFails(k) PROVE OneWriter'
  BY <1>4 DEF InsertOk, InsertFails, EndOfBatch
<1>5. ASSUME NEW k \in Kinds, Stop(k) PROVE OneWriter'
  BY <1>5 DEF Stop
<1>6. CASE Signal \/ CloseListener \/ Exit \/ UNCHANGED vars
  BY <1>6 DEF Signal, CloseListener, Exit, workerVars, vars
<1> QED BY <1>1, <1>2, <1>3, <1>4, <1>5, <1>6 DEF Next

-------------------------------------------------------------------------------
(* What each action does to the lines.                                       *)

LEMMA LineType ==
  ASSUME TypeOK, NEW k \in Kinds
  PROVE  /\ table[k] \in Seq(Requests) /\ batch[k] \in Seq(Requests)
         /\ queue[k] \in Seq(Requests)
         /\ batch[k] \o queue[k] \in Seq(Requests)
         /\ Line(k) \in Seq(Requests)
BY ConcatProperties DEF TypeOK, Line

\* An admitted event goes to the end of the line of its kind.
LEMMA LineEnqueue ==
  ASSUME TypeOK, NEW r \in Requests, Enqueue(r), NEW k \in Kinds
  PROVE  Line(k)' = IF k = KindOf[r] THEN Append(Line(k), r) ELSE Line(k)
<1>1. /\ queue' = [queue EXCEPT ![KindOf[r]] = Append(queue[KindOf[r]], r)]
      /\ batch' = batch /\ table' = table
  BY DEF Enqueue, workerVars
<1>2. queue'[k] = IF k = KindOf[r] THEN Append(queue[k], r) ELSE queue[k]
  BY <1>1 DEF TypeOK
<1>3. Line(k)' = table[k] \o (batch[k] \o queue'[k])
  BY <1>1 DEF Line
<1>4. CASE k = KindOf[r]
  <2>1. PICK t \in Seq(Requests), b \in Seq(Requests), q \in Seq(Requests) :
          t = table[k] /\ b = batch[k] /\ q = queue[k]
    BY LineType
  <2>2. b \o Append(q, r) = Append(b \o q, r) /\ b \o q \in Seq(Requests)
    BY AppendBehind, ConcatProperties
  <2>3. t \o Append(b \o q, r) = Append(t \o (b \o q), r)
    BY <2>2, AppendBehind
  <2> QED BY <1>2, <1>3, <1>4, <2>1, <2>2, <2>3, Zenon DEF Line
<1>5. CASE k # KindOf[r]
  BY <1>2, <1>3, <1>5, Zenon DEF Line
<1> QED BY <1>4, <1>5

\* What the processor takes from the channel stays where it is in the line.
LEMMA LineTake ==
  ASSUME TypeOK, NEW c \in Kinds, Receive(c) \/ DrainOne(c), NEW k \in Kinds
  PROVE  /\ batch'[k] \o queue'[k] = batch[k] \o queue[k]
         /\ Line(k)' = Line(k)
<1>1. /\ queue[c] # <<>>
      /\ batch' = [batch EXCEPT ![c] = Append(batch[c], Head(queue[c]))]
      /\ queue' = [queue EXCEPT ![c] = Tail(queue[c])]
      /\ table' = table
  BY DEF Receive, DrainOne
<1>2. CASE k = c
  <2>1. batch'[k] = Append(batch[k], Head(queue[k])) /\ queue'[k] = Tail(queue[k])
    BY <1>1, <1>2 DEF TypeOK
  <2>2. /\ batch[k] \in Seq(Requests) /\ queue[k] \in Seq(Requests)
        /\ queue[k] # <<>>
    BY <1>1, <1>2, LineType
  <2>3. Append(batch[k], Head(queue[k])) \o Tail(queue[k]) = batch[k] \o queue[k]
    BY <2>2, MoveHead
  <2> QED BY <1>1, <2>1, <2>3, Zenon DEF Line
<1>3. CASE k # c
  BY <1>1, <1>3 DEF Line, TypeOK
<1> QED BY <1>2, <1>3

\* A successful insert, and the flush of a processor that stops, leave the
\* line as it is.
LEMMA LineStore ==
  ASSUME TypeOK, NEW c \in Kinds, InsertOk(c) \/ Stop(c), NEW k \in Kinds
  PROVE  Line(k)' = Line(k)
<1>1. /\ batch' = [batch EXCEPT ![c] = <<>>]
      /\ table' = [table EXCEPT ![c] = table[c] \o batch[c]]
      /\ queue' = queue
  BY DEF InsertOk, EndOfBatch, Stop
<1>2. CASE k = c
  <2>1. batch'[k] = <<>> /\ table'[k] = table[k] \o batch[k]
    BY <1>1, <1>2 DEF TypeOK
  <2>2. PICK t \in Seq(Requests), b \in Seq(Requests), q \in Seq(Requests) :
          t = table[k] /\ b = batch[k] /\ q = queue[k]
    BY LineType
  <2>3. <<>> \o q = q /\ (t \o b) \o q = t \o (b \o q)
    BY ConcatEmptySeq, ConcatAssociative
  <2> QED BY <1>1, <2>1, <2>2, <2>3, Zenon DEF Line
<1>3. CASE k # c
  BY <1>1, <1>3 DEF Line, TypeOK
<1> QED BY <1>2, <1>3

\* A failed insert cuts the batch out of its line.
LEMMA LineFail ==
  ASSUME TypeOK, NEW c \in Kinds, InsertFails(c), NEW k \in Kinds
  PROVE  Line(k)' = IF k = c THEN table[k] \o queue[k] ELSE Line(k)
<1>1. /\ batch' = [batch EXCEPT ![c] = <<>>]
      /\ table' = table /\ queue' = queue
  BY DEF InsertFails, EndOfBatch
<1>2. CASE k = c
  <2>1. batch'[k] = <<>>
    BY <1>1, <1>2 DEF TypeOK
  <2>2. queue[k] \in Seq(Requests)
    BY LineType
  <2>3. <<>> \o queue[k] = queue[k]
    BY <2>2, ConcatEmptySeq
  <2>4. Line(k)' = table[k] \o queue[k]
    BY <1>1, <2>1, <2>3, Zenon DEF Line
  <2> QED BY <1>2, <2>4
<1>3. CASE k # c
  BY <1>1, <1>3 DEF Line, TypeOK
<1> QED BY <1>2, <1>3

\* Any other step leaves every line, and the record of lost events, alone.
Quiet == \/ \E r \in Requests : Reject(r)
         \/ \E k \in Kinds : DrainDone(k) \/ BeginInsert(k)
         \/ Signal \/ CloseListener \/ Exit
         \/ UNCHANGED vars

LEMMA LineQuiet ==
  ASSUME Quiet
  PROVE  UNCHANGED <<table, batch, queue, dropped, failed, handler, arrival, clock>>
BY DEF Quiet, Reject, DrainDone, BeginInsert, Signal, CloseListener, Exit, vars,
       requestVars, workerVars

\* The steps of the server, by what they do to the lines.
LEMMA StepCases ==
  ASSUME [Next]_vars
  PROVE  \/ Quiet
         \/ \E r \in Requests : Enqueue(r) \/ DropFull(r)
         \/ \E k \in Kinds : \/ Receive(k) \/ DrainOne(k)
                             \/ InsertOk(k) \/ Stop(k) \/ InsertFails(k)
BY DEF Next, Quiet

-------------------------------------------------------------------------------
(* Every acknowledged event is accounted for.                                *)

LEMMA NextAccounted ==
  ASSUME TypeOK, Accounted, InOrderOnce, [Next]_vars
  PROVE  Accounted'
<1> USE IngestAssumption
<1> DEFINE In(k) == Elems(Line(k))
<1>0. \A r \in Requests : KindOf[r] \in Kinds
  OBVIOUS
<1>1. ASSUME NEW r \in Requests, Enqueue(r)
      PROVE  Accounted'
  <2>1. \A k \in Kinds : In(k)' = IF k = KindOf[r] THEN In(k) \cup {r} ELSE In(k)
    <3> TAKE k \in Kinds
    <3>1. CASE k = KindOf[r]
      <4>1. PICK l \in Seq(Requests) : l = Line(k)
        BY LineType
      <4>2. Elems(Append(l, r)) = Elems(l) \cup {r}
        BY ElemsAppend
      <4>3. Line(k)' = Append(l, r)
        BY <1>1, <3>1, <4>1, LineEnqueue
      <4> QED BY <3>1, <4>1, <4>2, <4>3
    <3>2. CASE k # KindOf[r]
      BY <1>1, <3>2, LineEnqueue
    <3> QED BY <3>1, <3>2
  <2>2. /\ r \notin Offered
        /\ dropped' = dropped /\ failed' = failed
        /\ \A x \in Requests : x \in Offered' <=> x \in Offered \cup {r}
    BY <1>1 DEF Enqueue, Offered, workerVars, TypeOK
  <2> HIDE DEF In
  <2> QED BY <1>0, <2>1, <2>2 DEF Accounted, In
<1>2. ASSUME NEW r \in Requests, DropFull(r)
      PROVE  Accounted'
  <2>1. \A k \in Kinds : In(k)' = In(k)
    BY <1>2 DEF DropFull, workerVars, Line
  <2>2. /\ r \notin Offered
        /\ dropped' = dropped \cup {r} /\ failed' = failed
        /\ \A x \in Requests : x \in Offered' <=> x \in Offered \cup {r}
    BY <1>2 DEF DropFull, Offered, workerVars, TypeOK
  <2> HIDE DEF In
  <2> QED BY <1>0, <2>1, <2>2 DEF Accounted, In
<1>3. ASSUME NEW c \in Kinds,
             Receive(c) \/ DrainOne(c) \/ InsertOk(c) \/ Stop(c)
      PROVE  Accounted'
  <2>1. \A k \in Kinds : In(k)' = In(k)
    BY <1>3, LineTake, LineStore
  <2>2. UNCHANGED <<dropped, failed, handler>>
    BY <1>3 DEF Receive, DrainOne, InsertOk, EndOfBatch, Stop, requestVars
  <2> HIDE DEF In
  <2> QED BY <1>0, <2>1, <2>2 DEF Accounted, In, Offered
<1>4. ASSUME NEW c \in Kinds, InsertFails(c)
      PROVE  Accounted'
  <2>1. PICK t \in Seq(Requests), b \in Seq(Requests), q \in Seq(Requests) :
          t = table[c] /\ b = batch[c] /\ q = queue[c]
    BY LineType
  <2>2. Line(c) = t \o (b \o q) /\ Line(c)' = t \o q
    BY <1>4, <2>1, LineFail DEF Line
  <2>3. PICK f \in [Requests -> Nat] : f = arrival
    BY DEF TypeOK
  <2>4. Elems(b) \cap Elems(t \o q) = {}
    <3>1. Increasing(t \o (b \o q), f)
      BY <2>2, <2>3 DEF InOrderOnce, Increasing
    <3> QED BY <3>1, MiddleApart
  <2>5. Elems(t \o (b \o q)) = Elems(b) \cup Elems(t \o q)
    <3>1. PICK u \in Seq(Requests) : u = b \o q
      BY ConcatProperties
    <3>2. Elems(t \o u) = Elems(t) \cup Elems(u)
      BY ElemsConcat
    <3>3. Elems(b \o q) = Elems(b) \cup Elems(q) /\ Elems(t \o q) = Elems(t) \cup Elems(q)
      BY ElemsConcat
    <3> QED BY <3>1, <3>2, <3>3
  <2>6. \A k \in Kinds \ {c} : In(k)' = In(k)
    BY <1>4, LineFail
  <2>7. In(c) = Elems(b) \cup In(c)' /\ Elems(b) \cap In(c)' = {}
    BY <2>2, <2>4, <2>5
  <2>8. failed' = failed \cup Elems(b) /\ UNCHANGED <<dropped, handler>>
    BY <1>4, <2>1 DEF InsertFails, requestVars
  <2> HIDE DEF In
  <2>9. \A r \in Requests : r \in Elems(b) => KindOf[r] = c /\ r \notin dropped
    BY <2>7 DEF Accounted, In
  <2>10. \A k \in Kinds : /\ In(k)' \subseteq In(k)
                         /\ In(k) \subseteq Elems(b) \cup In(k)'
                         /\ Elems(b) \cap In(k)' = {}
    <3> TAKE k \in Kinds
    <3>1. CASE k = c
      BY <2>7, <3>1
    <3>2. CASE k # c
      <4>1. In(k)' = In(k)
        BY <2>6, <3>2
      <4>2. \A r \in In(k) : KindOf[r] = k
        BY DEF Accounted, In
      <4>3. \A r \in Elems(b) : r \in Requests /\ KindOf[r] = c
        BY <2>9, ElemsSubset
      <4> QED BY <3>2, <4>1, <4>2, <4>3
    <3> QED BY <3>1, <3>2
  <2>11. ASSUME NEW r \in Requests, NEW k \in Kinds, k = KindOf[r]
         PROVE  r \in Offered' <=> r \in dropped' \cup failed' \cup In(k)'
    <3>1. r \in Offered <=> r \in dropped \cup failed \cup In(k)
      BY <2>11 DEF Accounted, In
    <3>2. r \in Offered' <=> r \in Offered
      BY <2>8 DEF Offered
    <3>3. r \in Elems(b) => r \in In(k)
      BY <2>7, <2>9, <2>11
    <3> QED BY <2>8, <2>10, <3>1, <3>2, <3>3
  <2>12. ASSUME NEW k \in Kinds, NEW r \in In(k)'
         PROVE  KindOf[r] = k /\ r \notin dropped' \cup failed'
    <3>1. r \in In(k) /\ r \notin Elems(b)
      BY <2>10
    <3>2. KindOf[r] = k /\ r \notin dropped \cup failed
      BY <3>1 DEF Accounted, In
    <3> QED BY <2>8, <3>1, <3>2
  <2>13. dropped' \cap failed' = {}
    <3>1. \A r \in Elems(b) : r \in Requests
      BY ElemsSubset
    <3> QED BY <2>8, <2>9, <3>1 DEF Accounted
  <2> QED BY <1>0, <2>11, <2>12, <2>13 DEF Accounted, In
<1>5. CASE Quiet
  BY <1>5, LineQuiet DEF Accounted, Line, Offered
<1> QED BY <1>1, <1>2, <1>3, <1>4, <1>5, StepCases

-------------------------------------------------------------------------------
(* Events keep the order in which they were admitted.                        *)

\* An element whose f is above those of an increasing sequence may be added
\* behind it, whatever f was before at that element.
LEMMA IncreasingAppend ==
  ASSUME NEW S, NEW l \in Seq(S), NEW e \in S, e \notin Elems(l),
         NEW f \in [S -> Nat], NEW n \in Nat,
         Increasing(l, f), \A i \in 1..Len(l) : f[l[i]] <= n
  PROVE  LET g == [f EXCEPT ![e] = n + 1]
             m == Append(l, e)
         IN  /\ Increasing(m, g)
             /\ \A i \in 1..Len(m) : g[m[i]] <= n + 1
<1> DEFINE g == [f EXCEPT ![e] = n + 1]
           m == Append(l, e)
<1>1. /\ Len(l) \in Nat /\ DOMAIN l = 1..Len(l)
      /\ Len(m) = Len(l) + 1
      /\ \A i \in 1..Len(l) : m[i] = l[i]
      /\ m[Len(l) + 1] = e
  BY LenProperties, AppendProperties
<1>2. ASSUME NEW i \in 1..Len(l)
      PROVE  g[m[i]] = f[l[i]] /\ f[l[i]] \in Nat /\ f[l[i]] <= n
  <2>1. l[i] \in S /\ l[i] # e
    BY <1>1, ElementOfSeq DEF Elems
  <2> QED BY <1>1, <2>1
<1>3. g[m[Len(l) + 1]] = n + 1
  BY <1>1
<1> HIDE DEF g, m
<1>4. ASSUME NEW i \in 1..Len(m), NEW j \in 1..Len(m), i < j
      PROVE  g[m[i]] < g[m[j]]
  <2>1. i \in 1..Len(l)
    BY <1>1, <1>4
  <2>2. CASE j = Len(l) + 1
    BY <1>2, <1>3, <2>1, <2>2
  <2>3. CASE j # Len(l) + 1
    <3>1. j \in 1..Len(l)
      BY <1>1, <2>3
    <3> QED BY <1>2, <1>4, <2>1, <3>1 DEF Increasing
  <2> QED BY <2>2, <2>3
<1>5. ASSUME NEW i \in 1..Len(m)
      PROVE  g[m[i]] <= n + 1
  <2>1. CASE i = Len(l) + 1
    BY <1>3, <2>1
  <2>2. CASE i # Len(l) + 1
    <3>1. i \in 1..Len(l)
      BY <1>1, <2>2
    <3> QED BY <1>2, <3>1
  <2> QED BY <2>1, <2>2
<1> QED BY <1>4, <1>5 DEF Increasing, g, m

\* InOrderOnce and ArrivalBounded, about one line.
Ordered(k) ==
  /\ Increasing(Line(k), arrival)
  /\ \A i \in 1..Len(Line(k)) : arrival[Line(k)[i]] <= clock

LEMMA OrderedLines ==
  (InOrderOnce /\ ArrivalBounded) <=> \A k \in Kinds : Ordered(k)
BY DEF InOrderOnce, ArrivalBounded, Ordered, Increasing

LEMMA NextOrdered ==
  ASSUME TypeOK, Accounted, InOrderOnce, ArrivalBounded, [Next]_vars
  PROVE  InOrderOnce' /\ ArrivalBounded'
<1> USE IngestAssumption
<1> SUFFICES ASSUME NEW k \in Kinds PROVE Ordered(k)'
  BY DEF InOrderOnce, ArrivalBounded, Ordered, Increasing
<1>1. Ordered(k)
  BY OrderedLines
<1>2. ASSUME NEW r \in Requests, Enqueue(r)
      PROVE  Ordered(k)'
  <2>1. PICK l \in Seq(Requests) : l = Line(k)
    BY LineType
  <2>2. PICK f \in [Requests -> Nat], n \in Nat : f = arrival /\ n = clock
    BY DEF TypeOK
  <2>3. r \notin Elems(l)
    <3>1. r \notin Offered
      BY <1>2 DEF Enqueue, Offered
    <3> QED BY <2>1, <3>1 DEF Accounted
  <2>4. /\ Increasing(l, f)
        /\ \A i \in 1..Len(l) : f[l[i]] <= n
    BY <1>1, <2>1, <2>2 DEF Ordered
  <2>5. arrival' = [f EXCEPT ![r] = n + 1] /\ clock' = n + 1
    BY <1>2, <2>2 DEF Enqueue
  <2>6. CASE k = KindOf[r]
    <3>1. Line(k)' = Append(l, r)
      BY <1>2, <2>1, <2>6, LineEnqueue
    <3>2. /\ Increasing(Append(l, r), [f EXCEPT ![r] = n + 1])
          /\ \A i \in 1..Len(Append(l, r)) :
               [f EXCEPT ![r] = n + 1][Append(l, r)[i]] <= n + 1
      BY <2>3, <2>4, IncreasingAppend
    <3> QED BY <2>5, <3>1, <3>2 DEF Ordered
  <2>7. CASE k # KindOf[r]
    <3>1. Line(k)' = l
      BY <1>2, <2>1, <2>7, LineEnqueue
    <3>2. \A i \in 1..Len(l) : /\ [f EXCEPT ![r] = n + 1][l[i]] = f[l[i]]
                              /\ f[l[i]] \in Nat
      BY <2>3, LenProperties, ElementOfSeq DEF Elems
    <3>3. /\ Increasing(l, [f EXCEPT ![r] = n + 1])
          /\ \A i \in 1..Len(l) : [f EXCEPT ![r] = n + 1][l[i]] <= n + 1
      BY <2>4, <3>2 DEF Increasing
    <3> QED BY <2>5, <3>1, <3>3 DEF Ordered
  <2> QED BY <2>6, <2>7
<1>3. ASSUME NEW r \in Requests, DropFull(r)
      PROVE  Ordered(k)'
  BY <1>1, <1>3 DEF DropFull, workerVars, Ordered, Line
<1>4. ASSUME NEW c \in Kinds,
             Receive(c) \/ DrainOne(c) \/ InsertOk(c) \/ Stop(c)
      PROVE  Ordered(k)'
  <2>1. Line(k)' = Line(k)
    BY <1>4, LineTake, LineStore
  <2>2. arrival' = arrival /\ clock' = clock
    BY <1>4 DEF Receive, DrainOne, InsertOk, EndOfBatch, Stop, requestVars
  <2> QED BY <1>1, <2>1, <2>2 DEF Ordered
<1>5. ASSUME NEW c \in Kinds, InsertFails(c)
      PROVE  Ordered(k)'
  <2>1. arrival' = arrival /\ clock' = clock
    BY <1>5 DEF InsertFails, requestVars
  <2>2. CASE k # c
    BY <1>1, <1>5, <2>1, <2>2, LineFail DEF Ordered
  <2>3. CASE k = c
    <3>1. PICK t \in Seq(Requests), b \in Seq(Requests), q \in Seq(Requests) :
            t = table[c] /\ b = batch[c] /\ q = queue[c]
      BY LineType
    <3>2. Line(k) = t \o (b \o q) /\ Line(k)' = t \o q
      BY <1>5, <2>3, <3>1, LineFail DEF Line
    <3>3. PICK f \in [Requests -> Nat], n \in Nat : f = arrival /\ n = clock
      BY DEF TypeOK
    <3>4. /\ Increasing(t \o (b \o q), f)
          /\ \A i \in 1..Len(t \o (b \o q)) : f[(t \o (b \o q))[i]] <= n
      BY <1>1, <3>2, <3>3 DEF Ordered
    <3>5. Increasing(t \o q, f)
      BY <3>4, CutMiddle
    <3>6. \A i \in 1..Len(t \o q) : f[(t \o q)[i]] <= n
      BY <3>4, CutMiddleBounded
    <3> QED BY <2>1, <3>2, <3>3, <3>5, <3>6 DEF Ordered
  <2> QED BY <2>2, <2>3
<1>6. CASE Quiet
  BY <1>1, <1>6, LineQuiet DEF Ordered, Line
<1> QED BY <1>2, <1>3, <1>4, <1>5, <1>6, StepCases

-------------------------------------------------------------------------------
(* The invariance theorems.                                                  *)

LEMMA InitInv == Init => Inv
<1> SUFFICES ASSUME Init PROVE Inv
  OBVIOUS
<1>1. TypeOK
  BY InitTypeOK
<1>2. BatchEmptyAtSelect /\ OneWriter
  BY IngestAssumption DEF Init, BatchEmptyAtSelect, OneWriter
<1>3. \A k \in Kinds : Line(k) = <<>>
  <2>1. \A k \in Kinds : Line(k) = <<>> \o (<<>> \o <<>>)
    BY DEF Init, Line
  <2>2. <<>> \in Seq(Requests) /\ <<>> \o <<>> = <<>>
    BY EmptySeq, ConcatEmptySeq
  <2> QED BY <2>1, <2>2
<1>4. \A k \in Kinds : Len(Line(k)) = 0 /\ Elems(Line(k)) = {}
  <2>1. Len(<<>>) = 0 /\ Elems(<<>>) = {}
    BY DEF Elems
  <2> QED BY <1>3, <2>1
<1>5. InOrderOnce /\ ArrivalBounded
  BY <1>4 DEF InOrderOnce, ArrivalBounded
<1>6. Accounted
  BY <1>4, IngestAssumption DEF Init, Accounted, Offered
<1> QED BY <1>1, <1>2, <1>5, <1>6 DEF Inv

LEMMA NextInv == Inv /\ [Next]_vars => Inv'
BY NextTypeOK, NextBatchEmpty, NextOneWriter, NextAccounted, NextOrdered DEF Inv

LEMMA Invariance == Spec => []Inv
BY InitInv, NextInv, PTL DEF Spec

\* Every variable keeps its type, and no channel or batch outgrows its bound.
THEOREM TypeCorrect == Spec => []TypeOK
<1>1. Inv => TypeOK
  BY DEF Inv
<1> QED BY <1>1, Invariance, PTL

\* A processor that waits in its select, or has stopped, holds no event: the
\* final flush of processQueue, and the flush on its ticker, write nothing.
THEOREM FlushHasNothingToDo == Spec => []BatchEmptyAtSelect
<1>1. Inv => BatchEmptyAtSelect
  BY DEF Inv
<1> QED BY <1>1, Invariance, PTL

\* Two processors are never inside an insert at the same time.
THEOREM InsertsExclude == Spec => []OneWriter
<1>1. Inv => OneWriter
  BY DEF Inv
<1> QED BY <1>1, Invariance, PTL

\* An acknowledged event is a row, in a batch, in its channel, or was dropped
\* by a full channel or a failed insert, and in only one of these places.
THEOREM NothingElseIsLost == Spec => []Accounted
<1>1. Inv => Accounted
  BY DEF Inv
<1> QED BY <1>1, Invariance, PTL

\* Rows are written in the order in which the events were admitted, and no
\* event is written twice, whatever the inserts answer and whenever the
\* server is told to stop.
THEOREM RowsInOrderOnce == Spec => []InOrderOnce
<1>1. Inv => InOrderOnce
  BY DEF Inv
<1> QED BY <1>1, Invariance, PTL

-------------------------------------------------------------------------------
(* The pipeline implements the lossy log.                                    *)

\* A concatenation, split where its parts meet.
LEMMA SplitConcat ==
  ASSUME NEW S, NEW b \in Seq(S), NEW q \in Seq(S)
  PROVE  /\ SubSeq(b \o q, 1, Len(b)) = b
         /\ SubSeq(b \o q, Len(b) + 1, Len(b \o q)) = q
<1>1. /\ Len(b) \in Nat /\ Len(q) \in Nat /\ b \o q \in Seq(S)
      /\ Len(b \o q) = Len(b) + Len(q)
      /\ \A i \in 1..Len(b) + Len(q) :
           (b \o q)[i] = IF i <= Len(b) THEN b[i] ELSE q[i - Len(b)]
  BY LenProperties, ConcatProperties
<1>2. \A i \in 1..Len(b) + Len(q) : (b \o q)[i] \in S
  BY <1>1, ElementOfSeq
<1>3. PICK u \in Seq(S) : u = b \o q
  BY <1>1
<1>4. SubSeq(u, 1, Len(b)) = b
  <2>1. /\ SubSeq(u, 1, Len(b)) \in Seq(S)
        /\ Len(SubSeq(u, 1, Len(b))) = Len(b)
        /\ \A i \in 1..Len(b) : SubSeq(u, 1, Len(b))[i] = u[i]
    BY <1>1, <1>2, <1>3, SubSeqProperties
  <2>2. \A i \in 1..Len(b) : u[i] = b[i]
    BY <1>1, <1>3
  <2> QED BY <2>1, <2>2, SeqEqual
<1>5. SubSeq(u, Len(b) + 1, Len(u)) = q
  <2> DEFINE m == Len(b) + 1
             n == Len(b) + Len(q)
             v == SubSeq(u, m, n)
  <2>1. m \in Int /\ n \in Int /\ \A i \in m..n : u[i] \in S
    BY <1>1, <1>2, <1>3
  <2>2. /\ v \in Seq(S)
        /\ Len(v) = IF m <= n THEN n - m + 1 ELSE 0
        /\ \A i \in 1..n - m + 1 : v[i] = u[m + i - 1]
    BY <2>1, SubSeqProperties
  <2>3. Len(v) = Len(q) /\ n - m + 1 = Len(q)
    BY <1>1, <2>2
  <2>4. ASSUME NEW i \in 1..Len(q)
        PROVE  v[i] = q[i]
    <3>1. m + i - 1 \in 1..n /\ ~(m + i - 1 <= Len(b)) /\ m + i - 1 - Len(b) = i
      BY <1>1
    <3>2. v[i] = u[m + i - 1]
      BY <2>2, <2>3
    <3> QED BY <1>1, <1>3, <3>1, <3>2
  <2>5. v = q
    <3> HIDE DEF v
    <3> QED BY <2>2, <2>3, <2>4, SeqEqual
  <2> QED BY <1>1, <1>3, <2>5
<1> QED BY <1>3, <1>4, <1>5

\* What the lossy log calls pending.
Waiting == [k \in Kinds |-> batch[k] \o queue[k]]

\* A request that was not yet answered is new to the log.
LEMMA UnansweredUnseen ==
  ASSUME TypeOK, Accounted, NEW r \in Requests, handler[r] = "idle"
  PROVE  r \notin Log!Seen
<1>1. r \notin Offered
  BY DEF Offered
<1>2. r \notin dropped \cup failed
  BY <1>1 DEF Accounted
<1>3. ASSUME NEW k \in Kinds
      PROVE  r \notin Elems(batch[k] \o queue[k]) \cup Elems(table[k])
  <2>1. PICK t \in Seq(Requests), u \in Seq(Requests) :
          t = table[k] /\ u = batch[k] \o queue[k]
    BY LineType
  <2>2. Elems(t \o u) = Elems(t) \cup Elems(u)
    BY ElemsConcat
  <2>3. r \notin Elems(Line(k))
    BY <1>1, <1>2 DEF Accounted
  <2> QED BY <2>1, <2>2, <2>3 DEF Line
<1> QED BY <1>2, <1>3 DEF Log!Seen, Log!Elems, Elems

LEMMA AdmitStep ==
  ASSUME TypeOK, Accounted, NEW r \in Requests, Enqueue(r)
  PROVE  Log!Admit(r)
<1> USE IngestAssumption
<1>1. r \notin Log!Seen
  BY UnansweredUnseen DEF Enqueue
<1>2. /\ queue' = [queue EXCEPT ![KindOf[r]] = Append(queue[KindOf[r]], r)]
      /\ batch' = batch /\ table' = table
      /\ dropped' = dropped /\ failed' = failed
  BY DEF Enqueue, workerVars
<1>3. Waiting' = [Waiting EXCEPT ![KindOf[r]] = Append(Waiting[KindOf[r]], r)]
  <2>1. ASSUME NEW k \in Kinds
        PROVE  batch'[k] \o queue'[k] =
                 IF k = KindOf[r] THEN Append(batch[k] \o queue[k], r)
                                  ELSE batch[k] \o queue[k]
    <3>1. queue'[k] = IF k = KindOf[r] THEN Append(queue[k], r) ELSE queue[k]
      BY <1>2 DEF TypeOK
    <3>2. PICK b \in Seq(Requests), q \in Seq(Requests) : b = batch[k] /\ q = queue[k]
      BY LineType
    <3>3. b \o Append(q, r) = Append(b \o q, r)
      BY AppendBehind
    <3>4. CASE k = KindOf[r]
      <4>1. batch'[k] = b /\ queue'[k] = Append(q, r)
        BY <1>2, <3>1, <3>2, <3>4, Zenon
      <4> QED BY <3>2, <3>3, <3>4, <4>1, Zenon
    <3>5. CASE k # KindOf[r]
      <4>1. batch'[k] = batch[k] /\ queue'[k] = queue[k]
        BY <1>2, <3>1, <3>5
      <4> QED BY <3>5, <4>1
    <3> QED BY <3>4, <3>5
  <2> QED BY <2>1 DEF Waiting
<1> QED BY <1>1, <1>2, <1>3 DEF Log!Admit, Waiting

LEMMA RefuseStep ==
  ASSUME TypeOK, Accounted, NEW r \in Requests, DropFull(r)
  PROVE  Log!Refuse(r)
<1>1. r \notin Log!Seen
  BY UnansweredUnseen DEF DropFull
<1> QED BY <1>1 DEF Log!Refuse, DropFull, workerVars

\* Clearing the batch of a kind takes as many of its pending messages, the
\* oldest ones, as the batch held.
LEMMA ClearBatch ==
  ASSUME TypeOK, NEW c \in Kinds, EndOfBatch(c), queue' = queue
  PROVE  LET n == Len(batch[c]) IN
           /\ n \in Nat /\ n <= Len(Waiting[c])
           /\ batch[c] = SubSeq(Waiting[c], 1, n)
           /\ Waiting' = [Waiting EXCEPT ![c] =
                            SubSeq(Waiting[c], n + 1, Len(Waiting[c]))]
<1>1. PICK b \in Seq(Requests), q \in Seq(Requests) : b = batch[c] /\ q = queue[c]
  BY LineType
<1>2. /\ SubSeq(b \o q, 1, Len(b)) = b
      /\ SubSeq(b \o q, Len(b) + 1, Len(b \o q)) = q
  BY SplitConcat
<1>3. Waiting[c] = b \o q
  BY <1>1 DEF Waiting
<1>4. Len(b) \in Nat /\ Len(b) <= Len(b \o q) /\ <<>> \o q = q
  BY LenProperties, ConcatProperties, ConcatEmptySeq
<1>5. Waiting' = [Waiting EXCEPT ![c] = q]
  <2>1. ASSUME NEW k \in Kinds
        PROVE  batch'[k] \o queue'[k] = IF k = c THEN q ELSE batch[k] \o queue[k]
    <3>1. batch'[k] = IF k = c THEN <<>> ELSE batch[k]
      BY DEF EndOfBatch, TypeOK
    <3> QED BY <1>1, <1>4, <3>1, Zenon
  <2> QED BY <2>1 DEF Waiting
<1> QED BY <1>1, <1>2, <1>3, <1>4, <1>5, Zenon

\* Nothing moves for the log when an insert found an empty batch.
LEMMA EmptyInsert ==
  ASSUME TypeOK, NEW c \in Kinds, InsertOk(c) \/ InsertFails(c), batch[c] = <<>>
  PROVE  UNCHANGED <<batch, queue, table, dropped, failed>>
<1>1. PICK t \in Seq(Requests) : t = table[c]
  BY LineType
<1>2. t \o <<>> = t /\ Elems(<<>>) = {}
  BY ConcatEmptySeq DEF Elems
<1>3. batch' = batch /\ queue' = queue /\ dropped' = dropped
  BY DEF InsertOk, InsertFails, EndOfBatch, TypeOK, requestVars
<1>4. CASE InsertOk(c)
  <2>1. table' = [table EXCEPT ![c] = t]
    BY <1>1, <1>2, <1>4 DEF InsertOk
  <2> QED BY <1>1, <1>3, <1>4, <2>1 DEF InsertOk, TypeOK
<1>5. CASE InsertFails(c)
  BY <1>2, <1>3, <1>5 DEF InsertFails
<1> QED BY <1>4, <1>5

LEMMA LogTake ==
  ASSUME NEW c \in Kinds, NEW n \in 1..Len(Waiting[c]),
         Log!Store(c, n) \/ Log!GiveUp(c, n)
  PROVE  Log!AbstractNext
<1>1. n \in 1..Len([k \in Kinds |-> batch[k] \o queue[k]][c])
  BY Zenon DEF Waiting
<1> QED BY <1>1, Zenon DEF Log!AbstractNext

\* Every step of the pipeline is a step of the log, or leaves it alone.
LEMMA LogStep ==
  ASSUME Inv, [Next]_vars
  PROVE  Log!AbstractNext \/ UNCHANGED <<Waiting, table, dropped \cup failed>>
<1> USE DEF Inv
<1>1. ASSUME NEW r \in Requests, Enqueue(r) \/ DropFull(r)
      PROVE  Log!AbstractNext
  BY <1>1, AdmitStep, RefuseStep DEF Log!AbstractNext
<1>2. ASSUME NEW c \in Kinds, Receive(c) \/ DrainOne(c)
      PROVE  UNCHANGED <<Waiting, table, dropped \cup failed>>
  <2>1. \A k \in Kinds : batch'[k] \o queue'[k] = batch[k] \o queue[k]
    BY <1>2, LineTake
  <2>2. UNCHANGED <<table, dropped, failed>>
    BY <1>2 DEF Receive, DrainOne, requestVars
  <2> QED BY <2>1, <2>2 DEF Waiting
<1>3. ASSUME NEW c \in Kinds, InsertOk(c) \/ InsertFails(c), batch[c] # <<>>
      PROVE  Log!AbstractNext
  <2> DEFINE n == Len(batch[c])
  <2>1. EndOfBatch(c) /\ queue' = queue /\ dropped' = dropped
    BY <1>3 DEF InsertOk, InsertFails, requestVars
  <2>2. /\ n \in Nat /\ n <= Len(Waiting[c])
        /\ batch[c] = SubSeq(Waiting[c], 1, n)
        /\ Waiting' = [Waiting EXCEPT ![c] =
                         SubSeq(Waiting[c], n + 1, Len(Waiting[c]))]
    BY <2>1, ClearBatch
  <2>3. n # 0 /\ Len(Waiting[c]) \in Nat
    <3>1. PICK b \in Seq(Requests), u \in Seq(Requests) : b = batch[c] /\ u = Waiting[c]
      BY LineType DEF Waiting
    <3>2. Len(b) # 0 /\ Len(u) \in Nat
      BY <1>3, <3>1, EmptySeq, LenProperties
    <3> QED BY <3>1, <3>2
  <2>4. PICK m \in 1..Len(Waiting[c]) : m = n
    BY <2>2, <2>3
  <2>5. CASE InsertOk(c)
    <3>1. table' = [table EXCEPT ![c] = table[c] \o SubSeq(Waiting[c], 1, m)]
      BY <2>2, <2>4, <2>5, Zenon DEF InsertOk
    <3>2. failed' = failed
      BY <2>5 DEF InsertOk
    <3> HIDE DEF n
    <3>3. Log!Store(c, m)
      BY <2>1, <2>2, <2>4, <3>1, <3>2 DEF Log!Store, Log!Oldest, Log!Rest, Waiting
    <3> QED BY <3>3, LogTake
  <2>6. CASE InsertFails(c)
    <3>1. /\ failed' = failed \cup Elems(SubSeq(Waiting[c], 1, m))
          /\ table' = table
      BY <2>2, <2>4, <2>6, Zenon DEF InsertFails
    <3> HIDE DEF n
    <3>2. Log!GiveUp(c, m)
      BY <2>1, <2>2, <2>4, <3>1
         DEF Log!GiveUp, Log!Oldest, Log!Rest, Log!Elems, Elems, Waiting
    <3> QED BY <3>2, LogTake
  <2> QED BY <1>3, <2>5, <2>6
<1>4. ASSUME NEW c \in Kinds, InsertOk(c) \/ InsertFails(c), batch[c] = <<>>
      PROVE  UNCHANGED <<Waiting, table, dropped \cup failed>>
  BY <1>4, EmptyInsert DEF Waiting
<1>5. ASSUME NEW c \in Kinds, Stop(c)
      PROVE  UNCHANGED <<Waiting, table, dropped \cup failed>>
  <2>1. batch[c] = <<>>
    BY <1>5 DEF Stop, BatchEmptyAtSelect
  <2>2. PICK t \in Seq(Requests) : t = table[c]
    BY LineType
  <2>3. t \o <<>> = t
    BY ConcatEmptySeq
  <2>4. table' = [table EXCEPT ![c] = t]
    BY <1>5, <2>1, <2>2, <2>3 DEF Stop
  <2>5. UNCHANGED <<batch, queue, table, dropped, failed>>
    BY <1>5, <2>1, <2>2, <2>4 DEF Stop, TypeOK, requestVars
  <2> QED BY <2>5 DEF Waiting
<1>6. CASE Quiet
  BY <1>6, LineQuiet DEF Waiting
<1> QED BY <1>1, <1>2, <1>3, <1>4, <1>5, <1>6, StepCases

\* The pipeline is a lossy log per kind: it stores a subsequence of what it
\* admitted, in order and once, and what it does not store it gave up as the
\* oldest of what was waiting.
THEOREM PipelineIsLossyLog == Spec => RefinesLossyLog
<1>1. Init => Log!AbstractInit
  <2>1. <<>> \o <<>> = <<>>
    BY EmptySeq, ConcatEmptySeq
  <2> QED BY <2>1 DEF Init, Log!AbstractInit
<1>2. Inv /\ [Next]_vars => [Log!AbstractNext]_(Log!abstractVars)
  BY LogStep DEF Log!abstractVars, Waiting
<1> QED BY <1>1, <1>2, Invariance, PTL DEF Spec, RefinesLossyLog, Log!AbstractSpec
===============================================================================
